--------------------------- MODULE SchedulerClock ---------------------------
(***************************************************************************)
(* When the scheduler runs: one timer per server process, armed again      *)
(* after every pass by the "fine clock" (the next moment something falls   *)
(* due) within a ceiling; the reports of a pass to the administrators; and *)
(* the watchdog on the notifications heartbeat.                            *)
(*                                                                         *)
(* What a pass does to an item (materialize, review, mail) is one flag     *)
(* here; Occurrences has it in detail.                                     *)
(***************************************************************************)
EXTENDS Integers, FiniteSets

CONSTANTS
    Item,       \* what can fall due: occurrences, goals, runs
    Clocked,    \* the ones computeNextWakeAt looks for
    Beat,       \* heartbeat requests
    MinSleep, MaxSleep, LateAfter, Cooldown, Grace,     \* SCHEDULER_*_MS
    MaxPass,    \* the longest a pass takes
    Dates,      \* the dates things fall due
    MaxTime, MaxFaults,     \* bounds of the runs
    Ops         \* the operations a run offers

ASSUME ClockAssumption ==
    /\ Clocked \subseteq Item /\ Dates \subseteq Nat
    /\ MinSleep \in Nat \ {0} /\ MaxSleep \in Nat /\ MinSleep <= MaxSleep
    /\ LateAfter \in Nat /\ Cooldown \in Nat /\ Grace \in Nat
    /\ MaxPass \in Nat \ {0} /\ MaxTime \in Nat /\ MaxFaults \in Nat

\* A pass and the shortest sleep are over before work counts as late.
ASSUME LateAssumption == MinSleep + MaxPass <= LateAfter

VARIABLES
    now,        \* the clock
    state,      \* per item: "none", "pending", "done"
    dueAt, setUpAt,     \* when it falls due, and when it was set up or changed
    since,      \* since when it has been there to be done
    trouble,    \* what has gone wrong since it was set up, for its being late: its
                \* copy deleted, the fine clock failing, or an outage
    timer,      \* when the timer fires (a set, empty when disarmed)
    lastTick, nextWake,     \* the process's memory of its last pass (sets)
    pass,       \* the pass under way
    up,         \* the process runs
    lastHealth, \* when it last reported (a set, in memory)
    reports,    \* what the passes reported
    beat,       \* the heartbeats that found the scheduler down
    lastAlert,  \* SchedulerState.lastAlertAt (a set)
    mails,      \* the outage mails: when the heartbeat came, and which it was
    faults

items == <<state, dueAt, setUpAt, since, trouble>>
memory == <<lastTick, nextWake, lastHealth>>
watch == <<beat, lastAlert, mails>>
vars == <<now, items, timer, memory, pass, up, reports, watch, faults>>

Asleep == [pc |-> "rest", at |-> 0, late |-> {}]

\* The process is about to start; the database may already hold items.
Init ==
    /\ now = 0 /\ up = FALSE
    /\ state = [i \in Item |-> "none"]
    /\ dueAt = [i \in Item |-> 0] /\ setUpAt = [i \in Item |-> 0]
    /\ since = [i \in Item |-> 0] /\ trouble = [i \in Item |-> "none"]
    /\ timer = {} /\ lastTick = {} /\ nextWake = {} /\ lastHealth = {}
    /\ pass = Asleep /\ reports = {}
    /\ beat = [b \in Beat |-> {}] /\ lastAlert = {} /\ mails = {}
    /\ faults = 0

Later(a, b) == IF a >= b THEN a ELSE b
Sooner(a, b) == IF a <= b THEN a ELSE b
Clamp(t, low, high) == Sooner(Later(t, low), high)

-----------------------------------------------------------------------------
(* A pass.                                                                 *)

\* measureOverdue: eligible by the time of the pass, and not done.
Overdue(t) == {i \in Item : state[i] = "pending" /\ dueAt[i] <= t}

\* The last run; after a start, the longest it ever sleeps before.
LastRun(t) == IF lastTick = {} THEN {t - MaxSleep} ELSE lastTick

\* Mutant of Late: also what was set up since the last run.
LateAny(t) == {i \in Overdue(t) : t - Later(dueAt[i], setUpAt[i]) > LateAfter}

\* lateForScheduler: set up by the last run, and due or set up long ago.
Late(t) ==
    {i \in Overdue(t) : /\ \A last \in LastRun(t) : setUpAt[i] <= last
                        /\ t - Later(dueAt[i], setUpAt[i]) > LateAfter}

\* runScheduler begins: what is late is measured before any work.
StartPass ==
    /\ timer' = {}
    /\ pass' = [pc |-> "work", at |-> now, late |-> {trouble[i] : i \in Late(now)}]

\* startScheduler: a pass at once, to rebuild what the process remembers.
Start ==
    /\ ~up /\ up' = TRUE
    /\ StartPass
    /\ UNCHANGED <<now, items, memory, reports, watch, faults>>

\* tick: the timer fires.
Fire ==
    /\ up /\ now \in timer
    /\ StartPass
    /\ UNCHANGED <<now, items, memory, up, reports, watch, faults>>

\* Everything eligible is done, but what fails and is caught.
Work ==
    /\ pass.pc = "work"
    /\ \E failed \in IF "fail" \in Ops /\ faults < MaxFaults
                     THEN SUBSET Overdue(pass.at) ELSE {{}} :
          /\ state' = [i \in Item |->
                IF i \in Overdue(pass.at) \ failed THEN "done" ELSE state[i]]
          /\ trouble' = [i \in Item |-> IF i \in failed THEN "outage" ELSE trouble[i]]
          /\ faults' = IF failed = {} THEN faults ELSE faults + 1
    /\ pass' = [pass EXCEPT !.pc = "verify"]
    /\ UNCHANGED <<now, dueAt, setUpAt, since, timer, memory, up, reports, watch>>

\* The pass throws, some of the work done, and tick catches it: nothing is
\* remembered of this pass.
Throw ==
    /\ "fail" \in Ops /\ faults < MaxFaults
    /\ pass.pc = "work"
    /\ \E made \in SUBSET Overdue(pass.at) :
          state' = [i \in Item |-> IF i \in made THEN "done" ELSE state[i]]
    /\ pass' = [pass EXCEPT !.pc = "arm"]
    /\ faults' = faults + 1
    /\ UNCHANGED <<now, dueAt, setUpAt, since, trouble, timer, memory, up, reports, watch>>

\* The overdue invariant, and how late the pass woke: alertHealth, at most once
\* per cooldown.
Verify ==
    /\ pass.pc = "verify"
    /\ LET found == IF Overdue(pass.at) # {} THEN {"left"}
                    ELSE {IF c = "none" THEN "late" ELSE "lateAfterTrouble" : c \in pass.late}
       IN IF found = {} \/ \E h \in lastHealth : pass.at - h < Cooldown
          THEN UNCHANGED <<lastHealth, reports>>
          ELSE lastHealth' = {pass.at} /\ reports' = reports \cup found
    /\ pass' = [pass EXCEPT !.pc = "wake"]
    /\ UNCHANGED <<now, items, timer, lastTick, nextWake, up, watch, faults>>

\* The moments something falls due after t.
Wanted(t) == {dueAt[i] : i \in {j \in Clocked : state[j] = "pending" /\ dueAt[j] > t}}

\* Mutant of WakeAt: the fine clock is off.
WakeAtCeiling(t) == {t + MaxSleep}

\* computeNextWakeAt: the soonest of them, between the floor and the ceiling.
WakeAt(t) ==
    IF Wanted(t) = {} THEN {t + MaxSleep}
    ELSE {Clamp(w, t + MinSleep, t + MaxSleep) :
             w \in {x \in Wanted(t) : \A v \in Wanted(t) : x <= v}}

\* The heartbeat and the next wake; when that fails, the ceiling.
Compute ==
    /\ pass.pc = "wake"
    /\ lastTick' = {pass.at}
    /\ \/ nextWake' = WakeAt(pass.at) /\ UNCHANGED <<trouble, faults>>
       \/ /\ "fail" \in Ops /\ faults < MaxFaults
          /\ nextWake' = {pass.at + MaxSleep}
          /\ trouble' = [i \in Item |-> IF trouble[i] \in {"none", "freed"} THEN "clock" ELSE trouble[i]]
          /\ faults' = faults + 1
    /\ pass' = [pass EXCEPT !.pc = "arm"]
    /\ UNCHANGED <<now, state, dueAt, setUpAt, since, timer, lastHealth, up, reports, watch>>

\* Mutant of Delay: no ceiling on the sleep.
DelayUnbounded(target) == Later(target - now, MinSleep) + MaxSleep

\* tick, after the pass: how long to sleep.
Delay(target) == Clamp(target - now, MinSleep, MaxSleep)

\* When to wake: what the last pass that ended well has computed.
Target == IF nextWake = {} THEN {now + MaxSleep} ELSE nextWake

\* Mutant of Arm: a pass that threw does not arm the timer again.
ArmAfterSuccess ==
    /\ pass.pc = "arm" /\ now > pass.at
    /\ timer' = IF lastTick = {pass.at} THEN {now + Delay(w) : w \in Target} ELSE {}
    /\ pass' = Asleep
    /\ UNCHANGED <<now, items, memory, up, reports, watch, faults>>

\* tick ends, also after a pass that threw. A pass takes time.
Arm ==
    /\ pass.pc = "arm" /\ now > pass.at
    /\ timer' = {now + Delay(w) : w \in Target}
    /\ trouble' = IF lastTick = {pass.at} THEN trouble ELSE [i \in Item |-> "outage"]
    /\ pass' = Asleep
    /\ UNCHANGED <<now, state, dueAt, setUpAt, since, memory, up, reports, watch, faults>>

-----------------------------------------------------------------------------
(* What goes on meanwhile.                                                 *)

\* A pass starts, and a timer is set for the longest sleep, at a moment of its own.
Moment ==
    /\ pass.pc = "rest" \/ now > pass.at
    /\ now \notin timer /\ now + MaxSleep \notin timer

\* A series, a rule or a goal is saved, or an occurrence completed: something is
\* due at t.
SetUp(i, t) ==
    /\ Moment
    /\ state' = [state EXCEPT ![i] = "pending"]
    /\ dueAt' = [dueAt EXCEPT ![i] = t]
    /\ setUpAt' = [setUpAt EXCEPT ![i] = now] /\ since' = [since EXCEPT ![i] = now]
    /\ trouble' = [trouble EXCEPT ![i] = IF up THEN "none" ELSE "outage"]
    /\ UNCHANGED <<now, timer, memory, pass, up, reports, watch, faults>>

\* A generated copy is deleted: its place is free, and due as it ever was.
Free(i) ==
    /\ "delete" \in Ops
    /\ Moment
    /\ state[i] = "done"
    /\ state' = [state EXCEPT ![i] = "pending"] /\ since' = [since EXCEPT ![i] = now]
    /\ trouble' = [trouble EXCEPT ![i] = IF @ = "none" THEN "freed" ELSE @]
    /\ UNCHANGED <<now, dueAt, setUpAt, timer, memory, pass, up, reports, watch, faults>>

\* The process dies, and its memory with it.
Crash ==
    /\ "crash" \in Ops /\ faults < MaxFaults
    /\ up /\ up' = FALSE
    /\ timer' = {} /\ pass' = Asleep
    /\ lastTick' = {} /\ nextWake' = {} /\ lastHealth' = {}
    /\ beat' = [b \in Beat |-> {}]
    /\ trouble' = [i \in Item |-> "outage"]
    /\ faults' = faults + 1
    /\ UNCHANGED <<now, state, dueAt, setUpAt, since, reports, lastAlert, mails>>

\* The timer does not fire in time (a suspended host, a blocked loop).
Stall ==
    /\ "stall" \in Ops /\ faults < MaxFaults
    /\ now \in timer /\ now < MaxTime
    /\ timer' = {now + 1}
    /\ trouble' = [i \in Item |-> "outage"]
    /\ faults' = faults + 1
    /\ UNCHANGED <<now, state, dueAt, setUpAt, since, memory, pass, up, reports, watch>>

\* isSchedulerDown
Down(t) ==
    /\ lastTick # {}
    /\ \/ timer = {}
       \/ \E w \in nextWake : t > w + Grace

\* checkSchedulerHealth, to its first await.
Look(b) ==
    /\ "beat" \in Ops
    /\ up /\ beat[b] = {}
    /\ Down(now)
    /\ beat' = [beat EXCEPT ![b] = {now}]
    /\ UNCHANGED <<now, items, timer, memory, pass, up, reports, lastAlert, mails, faults>>

\* Mutant of Claim: the slot is not claimed by a conditional write.
ClaimAlways(b) ==
    /\ \E t \in beat[b] :
          /\ lastAlert' = {t} /\ mails' = mails \cup {<<t, b>>}
    /\ beat' = [beat EXCEPT ![b] = {}]
    /\ UNCHANGED <<now, items, timer, memory, pass, up, reports, faults>>

\* The claim of the alert slot: mails go out only with it.
Claim(b) ==
    /\ \E t \in beat[b] :
          IF \A a \in lastAlert : a < t - Cooldown
          THEN lastAlert' = {t} /\ mails' = mails \cup {<<t, b>>}
          ELSE UNCHANGED <<lastAlert, mails>>
    /\ beat' = [beat EXCEPT ![b] = {}]
    /\ UNCHANGED <<now, items, timer, memory, pass, up, reports, faults>>

\* A timer fires in time, and a pass takes no longer than MaxPass (at MaxTime, what
\* has a moment of its own still has it).
Tick ==
    /\ now < MaxTime \/ ~Moment
    /\ now \notin timer
    /\ pass.pc = "rest" \/ now < pass.at + MaxPass
    /\ now' = now + 1
    /\ UNCHANGED <<items, timer, memory, pass, up, reports, watch, faults>>

Next ==
    \/ Start \/ Fire \/ Work \/ Throw \/ Verify \/ Compute \/ Arm
    \/ \E i \in Item : Free(i) \/ \E t \in Dates : SetUp(i, t)
    \/ Crash \/ Stall
    \/ \E b \in Beat : Look(b) \/ Claim(b)
    \/ Tick

Spec == Init /\ [][Next]_vars

-----------------------------------------------------------------------------
Trouble == {"none", "freed", "clock", "outage"}

AtMostOne(S) == S \subseteq Nat /\ \A s, t \in S : s = t

\* Types, and what the process remembers when: a timer or a pass, never both.
TypeOK ==
    /\ now \in Nat /\ faults \in Nat /\ up \in BOOLEAN
    /\ state \in [Item -> {"none", "pending", "done"}]
    /\ dueAt \in [Item -> Nat] /\ setUpAt \in [Item -> Nat] /\ since \in [Item -> Nat]
    /\ trouble \in [Item -> Trouble]
    /\ AtMostOne(timer) /\ AtMostOne(lastTick) /\ AtMostOne(nextWake)
    /\ AtMostOne(lastHealth) /\ AtMostOne(lastAlert)
    /\ pass \in [pc : {"rest", "work", "verify", "wake", "arm"}, at : Nat,
                 late : SUBSET Trouble]
    /\ reports \subseteq {"left", "late", "lateAfterTrouble"}
    /\ beat \in [Beat -> SUBSET Nat] /\ \A b \in Beat : AtMostOne(beat[b])
    /\ mails \subseteq Nat \X Beat
    /\ timer = {} <=> (~up \/ pass.pc # "rest")

\* Nothing that is due waits longer than the longest sleep and two passes, whatever
\* the fine clock looks for, and also when it fails: unless the item itself fails, or
\* the process stops.
CeilingHolds ==
    \A i \in Item : state[i] = "pending" /\ trouble[i] # "outage" =>
        now <= Later(dueAt[i], since[i]) + MaxSleep + 2 * MaxPass

\* "The next-wake computation is likely wrong" is reported only after a failure, a
\* crash or a stall, or of a deleted copy, which is due again as of its old date: the
\* fine clock wakes in time for everything it looks for.
LateMeansTrouble == "late" \notin reports

\* The watchdog mails once per cooldown, however many heartbeats, of however many
\* processes and restarts, find the scheduler down.
OneAlertPerWindow ==
    \A x, y \in mails : x # y => x[1] > y[1] + Cooldown \/ y[1] > x[1] + Cooldown

=============================================================================
