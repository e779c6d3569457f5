--------------------------- MODULE ExclusivesPass ---------------------------
(***************************************************************************)
(* Exclusives: the passes that compare every watched Amazon listing with   *)
(* its saved snapshot and log the changes as alerts; the makers that turn  *)
(* alerts into tasks, at once under the lock of the pass ("immediate") or  *)
(* once a day outside it ("daily"); and the administrators who meanwhile   *)
(* edit and delete the groups the listings belong to.                      *)
(*                                                                         *)
(* Every process may run passes and daily makers. The advisory lock of a   *)
(* pass lives in a transaction that times out; what really keeps a task    *)
(* from being made twice is the claim on the alert (taskHandledAt).        *)
(* One watched field and one alert type stand for all of them.             *)
(***************************************************************************)
EXTENDS Naturals, Sequences, FiniteSets

CONSTANTS
    Proc,       \* the server processes
    Listing,    \* a listing dropped and added again is another listing
    Group,
    Value,      \* what Amazon can show of a listing
    Scheduler,  \* the processes that also make the daily tasks (a pass run by
                \* hand is a process without them)
    MaxDay, MaxChanges, MaxTrouble,     \* bounds of the runs
    Ops         \* the operations a run offers

ASSUME PassAssumption ==
    Scheduler \subseteq Proc /\ MaxDay \in Nat /\ MaxChanges \in Nat /\ MaxTrouble \in Nat

VARIABLES
    world,      \* what Amazon shows now
    owner,      \* Listing.groupId (a set, empty when not watched)
    dropped,    \* the listings that were deleted
    groups,     \* the groups that exist
    active, mode,   \* AlertGroup.isActive, AlertSetting.mode
    recipe,     \* whether the alert type has a template
    snap,       \* the saved snapshot (a set, empty before the baseline)
    log,        \* AlertLog, by listing
    lock,       \* who holds the advisory lock (a set)
    pass,       \* the passes under way
    maker,      \* the task makers under way
    day,        \* the last day that has begun
    left,       \* how many changes of listings, and how many edits and faults a
                \* run has left
    overlap,    \* a lock has timed out under a pass
    base,       \* the first snapshot saved (a set)
    quiet       \* the listings with a change nobody watched

amazon == <<world, day>>
setup == <<owner, dropped, groups, active, mode, recipe>>
data == <<snap, log, base, quiet>>
vars == <<world, owner, dropped, groups, active, mode, recipe, snap, log, lock, pass,
          maker, day, left, overlap, base, quiet>>

Modes == {"off", "daily", "immediate"}
Kind == {"immediate", "daily"}
Away == [pc |-> "idle", fresh |-> [l \in Listing |-> {}], seen |-> {},
         group |-> [l \in Listing |-> {}], mode |-> [l \in Listing |-> "off"],
         saved |-> [l \in Listing |-> {}], day |-> 0]

NotMaking == [pc |-> "idle", none |-> {}, due |-> {}]

Init ==
    /\ world \in [Listing -> Value]
    /\ owner \in [Listing -> {{g} : g \in Group}] /\ dropped = {}
    /\ groups = Group /\ active = [g \in Group |-> TRUE] /\ mode \in [Group -> Modes]
    /\ recipe = TRUE
    /\ snap = [l \in Listing |-> {}] /\ log = [l \in Listing |-> <<>>]
    /\ lock = {} /\ pass = [p \in Proc |-> Away]
    /\ maker = [p \in Proc |-> [k \in Kind |-> NotMaking]]
    /\ day = 0 /\ left = [change |-> MaxChanges, trouble |-> MaxTrouble]
    /\ overlap = FALSE /\ quiet = {} /\ base = [l \in Listing |-> {}]

Spend(what) == left[what] > 0 /\ left' = [left EXCEPT ![what] = @ - 1]

-----------------------------------------------------------------------------
(* A pass: ingestion, detection, and the immediate tasks.                  *)

\* Mutant of TryLock: the lock is not asked.
TryLockAnyway(p) ==
    /\ pass[p].pc = "idle"
    /\ lock' = {p}
    /\ pass' = [pass EXCEPT ![p].pc = "locked"]
    /\ UNCHANGED <<amazon, setup, data, maker, left, overlap>>

\* runExclusivesPass: skipped while this process or another one runs a pass.
TryLock(p) ==
    /\ pass[p].pc = "idle"
    /\ lock = {}
    /\ lock' = {p}
    /\ pass' = [pass EXCEPT ![p].pc = "locked"]
    /\ UNCHANGED <<amazon, setup, data, maker, left, overlap>>

Watched == {l \in Listing : \E g \in owner[l] : active[g]}

\* runIngestion: the listings of the active groups, without the ones the sweep
\* had to skip.
Ingest(p) ==
    /\ pass[p].pc = "locked"
    /\ \E S \in IF "skip" \in Ops THEN SUBSET Watched ELSE {Watched} :
          pass' = [pass EXCEPT ![p].pc = "fetched",
                      ![p].fresh = [l \in Listing |-> IF l \in S THEN {world[l]} ELSE {}]]
    /\ UNCHANGED <<amazon, setup, data, lock, maker, left, overlap>>

\* runDetection reads the groups, and then the saved snapshots.
Read(p) ==
    /\ pass[p].pc = "fetched"
    /\ LET S == {l \in Listing : pass[p].fresh[l] # {} /\ owner[l] # {}} IN
       pass' = [pass EXCEPT ![p].pc = "read", ![p].seen = S, ![p].day = day,
           ![p].group = [l \in Listing |-> IF l \in S THEN owner[l] ELSE {}],
           ![p].mode = [l \in Listing |->
                           IF \E g \in owner[l] : mode[g] = "immediate" THEN "immediate"
                           ELSE IF \E g \in owner[l] : mode[g] = "daily" THEN "daily" ELSE "off"],
           ![p].saved = [l \in Listing |-> IF l \in S THEN snap[l] ELSE {}]]
    /\ UNCHANGED <<amazon, setup, data, lock, maker, left, overlap>>

\* Of the listings it compares: the ones whose row changes, and of those the
\* ones with an alert.
Changed(p) == {l \in pass[p].seen : pass[p].saved[l] # pass[p].fresh[l]}
Alerted(p) == {l \in Changed(p) : pass[p].saved[l] # {} /\ pass[p].mode[l] # "off"}

NewAlert(p, l) ==
    [from |-> pass[p].saved[l], to |-> pass[p].fresh[l], group |-> pass[p].group[l],
     day |-> pass[p].day, outcome |-> "waiting", tasks |-> 0]

\* First snapshots, and changes without an alert.
Note(p) ==
    /\ base' = [l \in Listing |->
          IF l \in Changed(p) /\ pass[p].saved[l] = {} THEN pass[p].fresh[l] ELSE base[l]]
    /\ quiet' = quiet \cup {l \in Changed(p) \ Alerted(p) : pass[p].saved[l] # {}}

\* Mutant of Save: the snapshots are saved whatever becomes of the alerts.
SaveAlone(p) ==
    /\ snap' = [l \in Listing |-> IF l \in Changed(p) THEN pass[p].fresh[l] ELSE snap[l]]
    /\ \E L \in {{}, Alerted(p)} :
         log' = [l \in Listing |->
            IF l \in L THEN Append(log[l], NewAlert(p, l)) ELSE log[l]]
    /\ Note(p)

\* The alerts and the snapshots, in one transaction.
Save(p) ==
    /\ snap' = [l \in Listing |-> IF l \in Changed(p) THEN pass[p].fresh[l] ELSE snap[l]]
    /\ log' = [l \in Listing |->
          IF l \in Alerted(p) THEN Append(log[l], NewAlert(p, l)) ELSE log[l]]
    /\ Note(p)

\* A row it writes has lost its listing, or an alert its group: the transaction
\* fails, as it may for any other reason.
Broken(p) == Changed(p) \cap dropped # {}
             \/ \E l \in Alerted(p) : ~(pass[p].group[l] \subseteq groups)

Finish(p) == /\ pass' = [pass EXCEPT ![p] = Away] /\ lock' = lock \ {p}

Detect(p) ==
    /\ pass[p].pc = "read" /\ ~Broken(p)
    /\ Save(p)
    /\ pass' = [pass EXCEPT ![p] = [Away EXCEPT !.pc = "detected"]]
    /\ UNCHANGED <<amazon, setup, lock, maker, left, overlap>>

FailDetect(p) ==
    /\ pass[p].pc = "read"
    /\ IF Broken(p) THEN UNCHANGED left ELSE "fail" \in Ops /\ Spend("trouble")
    /\ Finish(p)
    /\ UNCHANGED <<amazon, setup, data, maker, overlap>>

\* The pass ends when its immediate tasks are made.
EndPass(p) ==
    /\ pass[p].pc = "making" /\ maker[p]["immediate"].pc = "idle"
    /\ Finish(p)
    /\ UNCHANGED <<amazon, setup, data, maker, left, overlap>>

\* The transaction that holds the lock times out; the pass goes on without it.
Expire(p) ==
    /\ "expire" \in Ops /\ Spend("trouble")
    /\ p \in lock /\ lock' = {} /\ overlap' = TRUE
    /\ UNCHANGED <<amazon, setup, data, pass, maker>>

-----------------------------------------------------------------------------
(* Making tasks of alerts.                                                 *)

Alerts == UNION {{l} \X DOMAIN log[l] : l \in Listing}
Waiting == {a \in Alerts : log[a[1]][a[2]].outcome = "waiting"}

\* The mode of the alert's group now; a deleted group has none.
ModeOf(a) == {mode[g] : g \in log[a[1]][a[2]].group}

\* createdAt before the last daily run.
Ended(a) == log[a[1]][a[2]].day < day

\* makeImmediate and makeDaily: what is left to the other maker, what needs no
\* task, and the tasks to make, one per alert or one per group and day.
Look(p, k) ==
    LET mine == {a \in Waiting : k = "immediate" \/ Ended(a)}
        tasks == {a \in mine : ModeOf(a) = {k} /\ recipe}
        none == {a \in mine : \A m \in ModeOf(a) : m = "off" \/ (m = k /\ ~recipe)}
        of(a) == log[a[1]][a[2]]
    IN  maker' = [maker EXCEPT ![p][k] =
            [pc |-> "marking", none |-> none,
             due |-> IF k = "immediate" THEN {{a} : a \in tasks}
                     ELSE {{b \in tasks : of(b).day = of(a).day /\ of(b).group = of(a).group}
                              : a \in tasks}]]

\* makeImmediateAlertTasks, in a pass.
LookImmediate(p) ==
    /\ pass[p].pc = "detected"
    /\ Look(p, "immediate")
    /\ pass' = [pass EXCEPT ![p].pc = "making"]
    /\ UNCHANGED <<amazon, setup, data, lock, left, overlap>>

\* makeDailyAlertTasks, in a pass of the scheduler.
LookDaily(p) ==
    /\ p \in Scheduler
    /\ maker[p]["daily"].pc = "idle" /\ \E a \in Waiting : Ended(a)
    /\ Look(p, "daily")
    /\ UNCHANGED <<amazon, setup, data, lock, pass, left, overlap>>

\* The alerts in A are dealt with, and get n more tasks.
Dealt(A, outcome, n) ==
    log' = [l \in Listing |-> [i \in DOMAIN log[l] |->
        IF <<l, i>> \in A
        THEN [log[l][i] EXCEPT !.outcome = outcome, !.tasks = @ + n]
        ELSE log[l][i]]]

\* Mutant of Mark: what needs no task is marked only with something to make.
MarkWithTasks(p, k) ==
    /\ maker[p][k].pc = "marking"
    /\ IF maker[p][k].due = {} THEN UNCHANGED log
       ELSE Dealt(maker[p][k].none \cap Waiting, "none", 0)
    /\ maker' = [maker EXCEPT ![p][k].pc = "making", ![p][k].none = {}]
    /\ UNCHANGED <<amazon, setup, snap, base, quiet, lock, pass, left, overlap>>

\* markNoTask
Mark(p, k) ==
    /\ maker[p][k].pc = "marking"
    /\ Dealt(maker[p][k].none \cap Waiting, "none", 0)
    /\ maker' = [maker EXCEPT ![p][k].pc = "making", ![p][k].none = {}]
    /\ UNCHANGED <<amazon, setup, snap, base, quiet, lock, pass, left, overlap>>

\* Mutant of Claimed: the alerts are not claimed with the task.
ClaimedUnseen(A) == TRUE

\* The update of the alerts found all of them waiting.
Claimed(A) == A \subseteq Waiting

\* makeAlertTask, generateOccurrence: the task and the claim in one transaction. It
\* fails when an alert is no longer waiting, or the template or the group is gone.
Make(p, k) ==
    /\ maker[p][k].pc = "making"
    /\ \E A \in maker[p][k].due :
          /\ maker' = [maker EXCEPT ![p][k].due = @ \ {A}]
          /\ IF Claimed(A) /\ recipe /\ \A a \in A : log[a[1]][a[2]].group # {}
             THEN Dealt(A, "task", 1) ELSE UNCHANGED log
    /\ UNCHANGED <<amazon, setup, snap, base, quiet, lock, pass, left, overlap>>

\* A task is not made this time.
FailMake(p, k) ==
    /\ "fail" \in Ops /\ Spend("trouble")
    /\ maker[p][k].pc = "making"
    /\ \E A \in maker[p][k].due : maker' = [maker EXCEPT ![p][k].due = @ \ {A}]
    /\ UNCHANGED <<amazon, setup, data, lock, pass, overlap>>

EndMake(p, k) ==
    /\ maker[p][k].pc = "making" /\ maker[p][k].due = {}
    /\ maker' = [maker EXCEPT ![p][k] = NotMaking]
    /\ UNCHANGED <<amazon, setup, data, lock, pass, left, overlap>>

-----------------------------------------------------------------------------
(* The process dies; Amazon, the administrators and the calendar go on.    *)

Crash(p) ==
    /\ "crash" \in Ops /\ Spend("trouble")
    /\ pass[p].pc # "idle" \/ \E k \in Kind : maker[p][k].pc # "idle"
    /\ Finish(p)
    /\ maker' = [maker EXCEPT ![p] = [k \in Kind |-> NotMaking]]
    /\ UNCHANGED <<amazon, setup, data, overlap>>

Change(l, v) ==
    /\ Spend("change") /\ v # world[l]
    /\ world' = [world EXCEPT ![l] = v]
    /\ UNCHANGED <<setup, data, lock, pass, maker, day, overlap>>

\* The alerts of group g lose it (onDelete: SetNull).
Ungrouped(g) ==
    log' = [l \in Listing |-> [i \in DOMAIN log[l] |-> [log[l][i] EXCEPT !.group = @ \ {g}]]]

\* updateGroup: settings, switch, listings dropped and taken over, in one save.
SaveGroup(g, m, on, drop, take) ==
    /\ "edit" \in Ops /\ Spend("trouble")
    /\ g \in groups /\ \A l \in drop : owner[l] = {g}
    /\ take \cap (dropped \cup drop) = {} /\ \A l \in take : owner[l] # {g}
    /\ mode' = [mode EXCEPT ![g] = m] /\ active' = [active EXCEPT ![g] = on]
    /\ owner' = [l \in Listing |-> IF l \in drop THEN {} ELSE IF l \in take THEN {g} ELSE owner[l]]
    /\ dropped' = dropped \cup drop
    /\ snap' = [l \in Listing |-> IF l \in drop THEN {} ELSE snap[l]]
    /\ UNCHANGED <<amazon, groups, recipe, log, base, quiet, lock, pass, maker, overlap>>

\* deleteGroup: its listings and their snapshots go, the alerts stay.
DeleteGroup(g) ==
    /\ "delete" \in Ops /\ Spend("trouble")
    /\ g \in groups /\ groups' = groups \ {g}
    /\ dropped' = dropped \cup {l \in Listing : owner[l] = {g}}
    /\ owner' = [l \in Listing |-> owner[l] \ {g}]
    /\ snap' = [l \in Listing |-> IF owner[l] = {g} THEN {} ELSE snap[l]]
    /\ Ungrouped(g)
    /\ UNCHANGED <<amazon, active, mode, recipe, base, quiet, lock, pass, maker, overlap>>

\* saveAlertTaskSetup, or the template is deleted.
SetRecipe ==
    /\ "recipe" \in Ops /\ Spend("trouble")
    /\ recipe' = ~recipe
    /\ UNCHANGED <<amazon, owner, dropped, groups, active, mode, data, lock, pass, maker, overlap>>

\* A day ends: the time of its daily run comes.
NextDay ==
    /\ day < MaxDay /\ day' = day + 1
    /\ UNCHANGED <<world, setup, data, lock, pass, maker, left, overlap>>

-----------------------------------------------------------------------------
PassStep(p) ==
    \/ TryLock(p) \/ Ingest(p) \/ Read(p) \/ Detect(p) \/ FailDetect(p)
    \/ LookImmediate(p) \/ EndPass(p)

MakerStep(p, k) == Mark(p, k) \/ Make(p, k) \/ EndMake(p, k)

Next ==
    \/ \E p \in Proc :
         \/ PassStep(p) \/ Expire(p) \/ LookDaily(p) \/ Crash(p)
         \/ \E k \in Kind : MakerStep(p, k) \/ FailMake(p, k)
    \/ \E l \in Listing, v \in Value : Change(l, v)
    \/ \E g \in Group :
         \/ DeleteGroup(g)
         \/ \E m \in Modes, on \in BOOLEAN, drop, take \in SUBSET Listing :
               SaveGroup(g, m, on, drop, take)
    \/ SetRecipe
    \/ NextDay

Spec == Init /\ [][Next]_vars

\* The timers of the sweep and of the scheduler are armed again after every run and
\* every start of a process, and days end.
FairSpec ==
    /\ Spec /\ WF_vars(NextDay)
    /\ \A p \in Proc :
         /\ WF_vars(PassStep(p)) /\ WF_vars(LookDaily(p))
         /\ \A k \in Kind : WF_vars(MakerStep(p, k))

-----------------------------------------------------------------------------
LogEntry ==
    [from : SUBSET Value, to : SUBSET Value, group : SUBSET Group, day : Nat,
     outcome : {"waiting", "task", "none"}, tasks : Nat]

PassState ==
    [pc : {"idle", "locked", "fetched", "read", "detected", "making"},
     fresh : [Listing -> SUBSET Value], seen : SUBSET Listing,
     group : [Listing -> SUBSET Group], mode : [Listing -> Modes],
     saved : [Listing -> SUBSET Value], day : Nat]

MakerState ==
    [pc : {"idle", "marking", "making"}, none : SUBSET (Listing \X Nat),
     due : SUBSET (SUBSET (Listing \X Nat))]

\* Types; who is in a pass and who holds the lock: at most one process, and all
\* passes but the ones whose lock timed out.
TypeOK ==
    /\ world \in [Listing -> Value] /\ day \in Nat
    /\ owner \in [Listing -> SUBSET Group] /\ dropped \subseteq Listing
    /\ groups \subseteq Group /\ active \in [Group -> BOOLEAN] /\ mode \in [Group -> Modes]
    /\ recipe \in BOOLEAN /\ overlap \in BOOLEAN /\ quiet \subseteq Listing
    /\ snap \in [Listing -> SUBSET Value] /\ base \in [Listing -> SUBSET Value]
    /\ log \in [Listing -> Seq(LogEntry)]
    /\ pass \in [Proc -> PassState]
    /\ maker \in [Proc -> [Kind -> MakerState]]
    /\ left \in [{"change", "trouble"} -> Nat]
    /\ lock \subseteq Proc /\ \A p, q \in lock : p = q
    /\ \A p \in lock : pass[p].pc # "idle"
    /\ ~overlap => \A p \in Proc : pass[p].pc # "idle" => p \in lock

\* The alert log tells the whole story of a listing that was watched all along: its
\* alerts are the steps from one saved snapshot to the next, from the first one to the
\* present one, in order and without a gap or a repetition: no change is logged twice
\* or saved unlogged, whatever fails, crashes or is skipped, while no lock timed out.
AlertsReplay ==
    ~overlap => \A l \in Listing \ quiet :
        /\ \A n \in 1 .. Len(log[l]) :
             /\ log[l][n].from = (IF n = 1 THEN base[l] ELSE log[l][n - 1].to)
             /\ log[l][n].from # log[l][n].to
        /\ l \notin dropped =>
             snap[l] = (IF log[l] = <<>> THEN base[l] ELSE log[l][Len(log[l])].to)

Outcome(e) ==
    IF e.outcome = "task" /\ e.tasks # 1 THEN "task again"
    ELSE IF e.outcome # "task" /\ e.tasks # 0 THEN "task and none" ELSE e.outcome

Outcomes == [l \in Listing |-> [n \in DOMAIN log[l] |-> Outcome(log[l][n])]]

\* The makers implement the alert book: each alert is dealt with once and for good,
\* with one task or none, also when locks time out, the two makers meet, or groups
\* are switched and deleted between reading an alert and making its task.
Book == INSTANCE AlertBook WITH book <- Outcomes
BookSpec == Book!Spec

\* Every alert of a day that has ended is dealt with, by whichever maker its group's
\* mode has it: it is never left to the other one by both.
AllHandled == (\E a \in Waiting : Ended(a)) ~> (\A a \in Waiting : ~Ended(a))
=============================================================================
