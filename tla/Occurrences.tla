---------------------------- MODULE Occurrences ----------------------------
(***************************************************************************)
(* How recurring templates and recurring tasks get their occurrences: the  *)
(* passes of the scheduler (one in each server process), and the users who *)
(* click a future occurrence ("ghost") through, while others complete,     *)
(* reopen and delete the tasks, and pause, resume and delete the series.   *)
(*                                                                         *)
(* Nothing locks a series: a pass reads what has been made and makes what  *)
(* is missing, and the unique index on (series, seq) is the claim.         *)
(***************************************************************************)
EXTENDS Naturals, FiniteSets

CONSTANTS
    Template,   \* recurring templates: an occurrence is a TemplateOccurrence row
    Source,     \* recurring tasks: occurrence 1 is the task itself
    Fixed,      \* the series with a fixed schedule; the others are relative
    Pass,       \* the processes that run the scheduler
    Click,      \* the users clicking ghosts
    Interval, Lead,     \* the recurrence interval and the global lead time
    MaxSeq,     \* maxOccurrences
    MaxTime, MaxFaults, MaxDeletes,     \* bounds of the runs
    Ops         \* the operations a run offers

Series == Template \cup Source
Seq == 1 .. MaxSeq

ASSUME SeriesAssumption == Template \cap Source = {} /\ Fixed \subseteq Series
ASSUME TimeAssumption ==
    /\ Interval \in Nat /\ Lead \in Nat /\ MaxSeq \in Nat \ {0}
    /\ MaxTime \in Nat /\ MaxFaults \in Nat /\ MaxDeletes \in Nat

VARIABLES
    now,        \* the clock
    rule,       \* per series: "active", "paused", or "none" (deleted, cleared)
    rows,       \* per series, the seqs the unique index holds
    task,       \* the root task of each occurrence
    doneAt,     \* its statusChangedAt, when it is done
    pass,       \* the passes under way
    click,      \* the clicks under way
    alarm,      \* the passes that reported work left undone
    faults,     \* the failures so far
    made, gone, \* how often an occurrence was made, and deleted with its claim
    finished    \* the occurrences that were completed at least once

db == <<rule, rows, task, doneAt>>
log == <<made, gone, finished>>
vars == <<now, rule, rows, task, doneAt, pass, click, alarm, faults, made, gone, finished>>

Resting == [pc |-> "rest", at |-> 0, todo |-> {}, cur |-> {}, seqs |-> {},
            fired |-> [s \in Source |-> {}], own |-> [s \in Source |-> {}], calm |-> TRUE]

NoClick == [pc |-> "idle", s |-> {}, n |-> 0]

Init ==
    /\ now = 0 /\ alarm = {} /\ faults = 0
    /\ rule = [s \in Series |-> "active"]
    /\ rows = [s \in Series |-> IF s \in Source THEN {1} ELSE {}]
    /\ task = [s \in Series |-> [n \in Seq |->
                  IF s \in Source /\ n = 1 THEN "open" ELSE "none"]]
    /\ doneAt = [s \in Series |-> [n \in Seq |-> 0]]
    /\ pass = [i \in Pass |-> Resting] /\ click = [c \in Click |-> NoClick]
    /\ made = [s \in Series |-> [n \in Seq |-> 0]]
    /\ gone = [s \in Series |-> [n \in Seq |-> 0]]
    /\ finished = {}

-----------------------------------------------------------------------------
(* When an occurrence is due.                                              *)

\* fixedAnchorForSeq: the series start, every Interval.
Anchor(n) == Interval * (n - 1)

\* isWithinLeadTime, and seqAllowed by the range of n.
DueAt(anchor, t) == anchor <= t + Lead

\* Mutant of FixedDue: goes on from the last one fired, as RelativeDue does.
FixedDueFromLast(fired, t) ==
    {n \in Seq \ fired : DueAt(Anchor(n), t) /\ \A m \in fired : m < n}

\* dueFixedSeqs
FixedDue(fired, t) == {n \in Seq \ fired : DueAt(Anchor(n), t)}

\* Mutant of RelativeDue: the latest need not be completed.
RelativeDueUnfinished(s, t) ==
    {n \in Seq :
        \/ rows[s] = {} /\ n = 1 /\ DueAt(Anchor(1), t)
        \/ /\ n - 1 \in rows[s] /\ \A m \in rows[s] : m < n
           /\ DueAt(doneAt[s][n - 1] + Interval, t)}

\* Mutant of RelativeDue: seqAllowed is not asked.
RelativeDueUnlimited(s, t) ==
    {n \in 1 .. MaxSeq + 1 :
        \/ rows[s] = {} /\ n = 1 /\ DueAt(Anchor(1), t)
        \/ /\ n - 1 \in rows[s] /\ \A m \in rows[s] : m < n
           /\ task[s][n - 1] = "done"
           /\ DueAt(doneAt[s][n - 1] + Interval, t)}

\* The next occurrence of a relative series: the first at its start, another
\* once the latest is completed.
RelativeDue(s, t) ==
    {n \in Seq :
        \/ rows[s] = {} /\ n = 1 /\ DueAt(Anchor(1), t)
        \/ /\ n - 1 \in rows[s] /\ \A m \in rows[s] : m < n
           /\ task[s][n - 1] = "done"
           /\ DueAt(doneAt[s][n - 1] + Interval, t)}

Due(s, t) == IF s \in Fixed THEN FixedDue(rows[s], t) ELSE RelativeDue(s, t)

-----------------------------------------------------------------------------
(* Making an occurrence.                                                   *)

\* Mutant of Make: no unique index behind the reads.
MakeUnclaimed(s, n) ==
    /\ rows' = [rows EXCEPT ![s] = @ \cup {n}]
    /\ task' = [task EXCEPT ![s][n] = "open"]
    /\ made' = [made EXCEPT ![s][n] = @ + 1]
    /\ UNCHANGED <<rule, doneAt, gone, finished>>

\* generateOccurrence and generateTaskOccurrence: the row is inserted with the
\* tasks, or the unique index refuses it (P2002) and nothing is written.
Make(s, n) ==
    IF n \in rows[s] THEN UNCHANGED <<db, log>>
    ELSE /\ rows' = [rows EXCEPT ![s] = @ \cup {n}]
         /\ task' = [task EXCEPT ![s][n] = "open"]
         /\ made' = [made EXCEPT ![s][n] = @ + 1]
         /\ UNCHANGED <<rule, doneAt, gone, finished>>

\* Its template, or its source task, is still there to make it from.
Exists(s) == IF s \in Template THEN rule[s] # "none" ELSE task[s][1] # "gone"

-----------------------------------------------------------------------------
(* A pass of the scheduler.                                                *)

\* runScheduler reads the active templates.
StartPass(i) ==
    /\ pass[i].pc = "rest"
    /\ pass' = [pass EXCEPT ![i] =
          [Resting EXCEPT !.pc = "templates", !.at = now,
                          !.todo = {s \in Template : rule[s] = "active"}]]
    /\ UNCHANGED <<now, db, click, alarm, faults, log>>

\* materializeDueForTemplate, for the next one: reads what has been made.
OpenTemplate(i) ==
    /\ pass[i].pc = "templates" /\ pass[i].seqs = {}
    /\ \E s \in pass[i].todo :
          pass' = [pass EXCEPT ![i].todo = @ \ {s}, ![i].cur = {s},
                               ![i].seqs = Due(s, pass[i].at)]
    /\ UNCHANGED <<now, db, click, alarm, faults, log>>

\* When the task was completed, if it is.
DoneTimes(s, n) == IF task[s][n] = "done" THEN {doneAt[s][n]} ELSE {}

\* materializeDueTaskRecurrences reads the active sources and their occurrences.
OpenSources(i) ==
    /\ pass[i].pc = "templates" /\ pass[i].seqs = {} /\ pass[i].todo = {}
    /\ pass' = [pass EXCEPT ![i].pc = "sources", ![i].fired = [s \in Source |-> rows[s]],
                            ![i].own = [s \in Source |-> DoneTimes(s, 1)],
                            ![i].todo = {s \in Source : rule[s] = "active"}]
    /\ UNCHANGED <<now, db, click, alarm, faults, log>>

SecondDue(i, s) ==
    {n \in {2} \cap Seq : \E t \in pass[i].own[s] : DueAt(t + Interval, pass[i].at)}

\* materializeDueForSource: a fixed series goes by the occurrences read with the
\* list, a relative one by the latest occurrence, read now, or by the state of the
\* source read with the list.
OpenSource(i) ==
    /\ pass[i].pc = "sources" /\ pass[i].seqs = {}
    /\ \E s \in pass[i].todo :
          pass' = [pass EXCEPT ![i].todo = @ \ {s}, ![i].cur = {s},
                               ![i].seqs = IF s \in Fixed
                                           THEN FixedDue(pass[i].fired[s], pass[i].at)
                                           ELSE IF rows[s] \subseteq {1} THEN SecondDue(i, s)
                                           ELSE RelativeDue(s, pass[i].at)]
    /\ UNCHANGED <<now, db, click, alarm, faults, log>>

\* fireOccurrence: the lowest seq left; a series that is gone fails (and is
\* dropped by the catch of its loop).
Fire(i) ==
    /\ pass[i].seqs # {}
    /\ \E s \in pass[i].cur, n \in pass[i].seqs :
          /\ \A m \in pass[i].seqs : n <= m
          /\ IF Exists(s)
             THEN Make(s, n) /\ pass' = [pass EXCEPT ![i].seqs = @ \ {n}]
             ELSE UNCHANGED <<db, log>> /\ pass' = [pass EXCEPT ![i].seqs = {}, ![i].calm = FALSE]
    /\ UNCHANGED <<now, click, alarm, faults>>

\* A statement fails: the catch drops the rest of this series.
FailSeries(i) ==
    /\ "fail" \in Ops /\ faults < MaxFaults
    /\ pass[i].seqs # {}
    /\ pass' = [pass EXCEPT ![i].seqs = {}, ![i].calm = FALSE]
    /\ faults' = faults + 1
    /\ UNCHANGED <<now, db, click, alarm, log>>

\* Mutant of EndPass: measures against the clock instead of the time of the pass.
EndPassByClock(i) ==
    /\ pass[i].pc = "sources" /\ pass[i].seqs = {} /\ pass[i].todo = {}
    /\ alarm' = IF \E s \in Series : rule[s] = "active" /\ Due(s, now) # {}
                THEN alarm \cup {IF pass[i].calm THEN "calm" ELSE "disturbed"} ELSE alarm
    /\ pass' = [pass EXCEPT ![i] = Resting]
    /\ UNCHANGED <<now, db, click, faults, log>>

\* The second measureOverdue, by the time of the pass: anything left is reported.
EndPass(i) ==
    /\ pass[i].pc = "sources" /\ pass[i].seqs = {} /\ pass[i].todo = {}
    /\ alarm' = IF \E s \in Series : rule[s] = "active" /\ Due(s, pass[i].at) # {}
                THEN alarm \cup {IF pass[i].calm THEN "calm" ELSE "disturbed"} ELSE alarm
    /\ pass' = [pass EXCEPT ![i] = Resting]
    /\ UNCHANGED <<now, db, click, faults, log>>

\* The process dies: what it was doing is forgotten, what it made stays.
Crash(i) ==
    /\ "crash" \in Ops /\ faults < MaxFaults
    /\ pass[i].pc # "rest"
    /\ pass' = [pass EXCEPT ![i] = Resting]
    /\ faults' = faults + 1
    /\ UNCHANGED <<now, db, click, alarm, log>>

-----------------------------------------------------------------------------
(* A ghost is clicked through.                                             *)

\* materializeGhost and materializeTaskOccurrence: a fixed series, and an
\* occurrence that is not there yet.
StartClick(c) ==
    /\ "click" \in Ops
    /\ click[c].pc = "idle"
    /\ \E s \in Fixed : \E n \in Seq \ rows[s] :
          /\ rule[s] # "none"
          /\ click' = [click EXCEPT ![c] = [pc |-> "make", s |-> {s}, n |-> n]]
    /\ UNCHANGED <<now, db, pass, alarm, faults, log>>

FinishClick(c) ==
    /\ click[c].pc = "make"
    /\ \E s \in click[c].s :
          IF Exists(s) THEN Make(s, click[c].n) ELSE UNCHANGED <<db, log>>
    /\ click' = [click EXCEPT ![c] = NoClick]
    /\ UNCHANGED <<now, pass, alarm, faults>>

-----------------------------------------------------------------------------
(* The users, and the clock.                                               *)

\* The passes under way no longer see the series as they found it.
Disturb == pass' = [i \in Pass |-> IF pass[i].pc = "rest" THEN pass[i]
                                   ELSE [pass[i] EXCEPT !.calm = FALSE]]

\* updateTask to Completed.
Complete(s, n) ==
    /\ "complete" \in Ops
    /\ task[s][n] = "open"
    /\ task' = [task EXCEPT ![s][n] = "done"]
    /\ doneAt' = [doneAt EXCEPT ![s][n] = now]
    /\ finished' = finished \cup {<<s, n>>}
    /\ Disturb
    /\ UNCHANGED <<now, rule, rows, click, alarm, faults, made, gone>>

Reopen(s, n) ==
    /\ "reopen" \in Ops
    /\ task[s][n] = "done"
    /\ task' = [task EXCEPT ![s][n] = "open"]
    /\ UNCHANGED <<now, rule, rows, doneAt, pass, click, alarm, faults, log>>

\* deleteTask: the row of a template's occurrence stays (rootTask: SetNull); the
\* task a source generated was itself the claim.
DeleteTask(s, n) ==
    /\ "delete" \in Ops /\ gone[s][n] < MaxDeletes
    /\ task[s][n] \in {"open", "done"}
    /\ s \in Source => n # 1
    /\ task' = [task EXCEPT ![s][n] = "gone"]
    /\ rows' = [rows EXCEPT ![s] = IF s \in Source THEN @ \ {n} ELSE @]
    /\ gone' = [gone EXCEPT ![s][n] = IF s \in Source THEN @ + 1 ELSE @]
    /\ IF s \in Source THEN Disturb ELSE UNCHANGED pass
    /\ UNCHANGED <<now, rule, doneAt, click, alarm, faults, made, finished>>

\* deleteTask of a source: its rule goes with it, its occurrences are on their own.
DeleteSource(s) ==
    /\ "delete" \in Ops
    /\ s \in Source /\ task[s][1] \in {"open", "done"}
    /\ rule' = [rule EXCEPT ![s] = "none"]
    /\ task' = [task EXCEPT ![s] = [n \in Seq |-> "gone"]]
    /\ rows' = [rows EXCEPT ![s] = {}]
    /\ UNCHANGED <<now, doneAt, pass, click, alarm, faults, log>>

\* deleteTemplate: the occurrence rows go with it, the tasks are on their own.
DeleteTemplate(s) ==
    /\ "delete" \in Ops
    /\ s \in Template /\ rule[s] # "none"
    /\ rule' = [rule EXCEPT ![s] = "none"]
    /\ task' = [task EXCEPT ![s] = [n \in Seq |-> "gone"]]
    /\ rows' = [rows EXCEPT ![s] = {}]
    /\ UNCHANGED <<now, doneAt, pass, click, alarm, faults, log>>

\* updateTemplate or setTaskRecurrence: isActive, both ways; a task's rule can
\* also be cleared and set again.
SetRule(s, r) ==
    /\ "rule" \in Ops
    /\ Exists(s) /\ r # rule[s]
    /\ r = "none" => s \in Source
    /\ rule' = [rule EXCEPT ![s] = r]
    /\ IF r = "active" THEN Disturb ELSE UNCHANGED pass
    /\ UNCHANGED <<now, rows, task, doneAt, click, alarm, faults, log>>

Tick ==
    /\ now < MaxTime
    /\ now' = now + 1
    /\ UNCHANGED <<db, pass, click, alarm, faults, log>>

-----------------------------------------------------------------------------
Step(i) == StartPass(i) \/ OpenTemplate(i) \/ OpenSources(i) \/ OpenSource(i)
           \/ Fire(i) \/ EndPass(i)

Next ==
    \/ \E i \in Pass : Step(i) \/ FailSeries(i) \/ Crash(i)
    \/ \E c \in Click : StartClick(c) \/ FinishClick(c)
    \/ \E s \in Series :
         \/ DeleteSource(s) \/ DeleteTemplate(s)
         \/ \E r \in {"active", "paused", "none"} : SetRule(s, r)
         \/ \E n \in Seq : Complete(s, n) \/ Reopen(s, n) \/ DeleteTask(s, n)
    \/ Tick

Spec == Init /\ [][Next]_vars

\* The timer is armed again after every pass, whatever became of it, and a
\* process that dies is started again.
FairSpec == Spec /\ \A i \in Pass : WF_vars(Step(i))

-----------------------------------------------------------------------------
PassState ==
    [pc : {"rest", "templates", "sources"}, at : Nat, todo : SUBSET Series,
     cur : SUBSET Series, seqs : SUBSET Seq, fired : [Source -> SUBSET Seq],
     own : [Source -> SUBSET Nat], calm : BOOLEAN]

ClickState == {NoClick} \cup [pc : {"make"}, s : SUBSET Fixed, n : Seq]

\* Types; what the clocks of a pass and of a series can be; and that a row, a task
\* and a series that is gone agree.
TypeOK ==
    /\ now \in Nat /\ faults \in Nat /\ alarm \subseteq {"calm", "disturbed"}
    /\ rule \in [Series -> {"active", "paused", "none"}]
    /\ rows \in [Series -> SUBSET Seq]
    /\ task \in [Series -> [Seq -> {"none", "open", "done", "gone"}]]
    /\ doneAt \in [Series -> [Seq -> Nat]]
    /\ pass \in [Pass -> PassState] /\ click \in [Click -> ClickState]
    /\ made \in [Series -> [Seq -> Nat]] /\ gone \in [Series -> [Seq -> Nat]]
    /\ finished \in SUBSET (Series \X Seq)

\* No occurrence is made twice by the passes and clicks that race for it, or by a
\* pass that starts over after a crash; one of a recurring task can be made
\* again only when an administrator has deleted it.
OnceEach == \A s \in Series, n \in Seq : made[s][n] <= 1 + gone[s][n]

\* The strengthening: what has been made and not deleted is claimed, an open or
\* done task is claimed, and a relative series about to be fired has been completed.
ClaimsOK ==
    /\ \A s \in Series, n \in Seq :
          /\ (n \in rows[s] \/ ~Exists(s) \/ made[s][n] <= gone[s][n])
          /\ task[s][n] \in {"open", "done"} => n \in rows[s]
          /\ task[s][n] = "done" => <<s, n>> \in finished
    /\ \A i \in Pass : \A s \in pass[i].cur \ Fixed, n \in pass[i].seqs :
          n = 1 \/ <<s, n - 1>> \in finished
    /\ \A i \in Pass : \A s \in Source : pass[i].own[s] # {} => <<s, 1>> \in finished
    /\ \A i \in Pass : pass[i].pc = "sources" => pass[i].todo \subseteq Source

\* The series keep the promises of the ledger: what exists is not made again, and
\* a relative series goes on only after the previous occurrence was completed,
\* however stale the pass's reading of it is.
Ledger == INSTANCE OccurrenceLedger WITH issued <- rows
LedgerSpec == Ledger!Spec

\* A pass that no user disturbed, and in which nothing failed, leaves nothing
\* undone: neither the clock going on nor the other passes and clicks raise a
\* false alarm to the administrators.
AlarmMeansTrouble == "calm" \notin alarm

\* Occurrence n is owed: its date has come, or the one before it was completed an
\* interval ago.
Owed(s, n) ==
    /\ rule[s] = "active" /\ n \notin rows[s]
    /\ \/ (s \in Fixed \/ (rows[s] = {} /\ n = 1)) /\ Interval * (n - 1) <= now + Lead
       \/ /\ s \notin Fixed /\ n - 1 \in rows[s] /\ \A m \in rows[s] : m < n
          /\ task[s][n - 1] = "done" /\ doneAt[s][n - 1] + Interval <= now + Lead

\* What is owed is made, whoever crashes meanwhile, unless the series is paused or
\* its last task is reopened or deleted first.
DueIsMade == \A s \in Series, n \in Seq : Owed(s, n) ~> ~Owed(s, n)
=============================================================================
