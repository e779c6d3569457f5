------------------------ MODULE SchedulerClockProofs ------------------------
(***************************************************************************)
(* Proofs about SchedulerClock, for any items, dates, sleeps and lengths   *)
(* of a pass: what is due is never left beyond the ceiling, the fine clock *)
(* wakes in time for all it looks for, and an outage is mailed once per    *)
(* cooldown. And about Schedule, on its own: the dates of a series, what   *)
(* of them is due, and when the scheduler wakes for the next.              *)
(***************************************************************************)
EXTENDS SchedulerClock, Schedule, FiniteSetTheorems, WellFoundedInduction, TLAPS

\* A pass that ends well.
Ended == pass.pc = "arm" /\ lastTick = {pass.at}

\* Where a process is: what a pass, the timer and the memory of the last pass
\* have to do with the clock.
ClockOK ==
    /\ ~up => lastTick = {} /\ pass.pc = "rest"
    /\ ~up => \A i \in Item : state[i] # "none" => trouble[i] = "outage"
    /\ pass.pc # "rest" => pass.at <= now /\ now <= pass.at + MaxPass
    /\ \A t \in timer : now <= t /\ t <= now + MaxSleep
    /\ Ended => nextWake # {}
    /\ \A l \in lastTick :
          /\ l <= now /\ (~Ended => l < now)
          /\ pass.pc \in {"work", "verify", "wake"} => l < pass.at

\* Since when an item could have been done.
Due(i) == Later(dueAt[i], since[i])

\* How much of the wait of an item is left at most.
CeilingOK ==
    \A i \in Item : state[i] = "pending" /\ trouble[i] # "outage" =>
        /\ \A t \in timer : t <= Due(i) + MaxSleep + MaxPass
        /\ pass.pc \in {"work", "arm"} => pass.at <= Due(i) + MaxSleep + MaxPass
        /\ pass.pc \in {"verify", "wake"} \/ Ended => pass.at <= Due(i)

\* The mails of the watchdog are the old ones.
MailsOK ==
    /\ \A x \in mails : \E a \in lastAlert : x[1] <= a
    /\ OneAlertPerWindow

\* What the last run knew of is waited for.
FineOK ==
    /\ "none" \notin pass.late /\ "late" \notin reports
    /\ \A i \in Item : state[i] = "pending" /\ trouble[i] = "none" =>
        /\ \A t \in timer, l \in lastTick :
              setUpAt[i] <= l => t <= Later(dueAt[i], setUpAt[i]) + LateAfter
        /\ lastTick = {} => \A t \in timer : t - MaxSleep < setUpAt[i]
        /\ (pass.pc \in {"verify", "wake"} \/ Ended) /\ setUpAt[i] <= pass.at =>
              pass.at < dueAt[i]
        /\ Ended /\ setUpAt[i] <= pass.at =>
              \A w \in nextWake : w <= Later(dueAt[i], pass.at + MinSleep)

IInv == TypeOK /\ ClockOK /\ CeilingOK /\ MailsOK

-----------------------------------------------------------------------------
(* The arithmetic of the clocks.                                           *)

LEMMA LaterNat ==
    ASSUME NEW a \in Int, NEW b \in Int
    PROVE  Later(a, b) \in Int /\ Later(a, b) >= a /\ Later(a, b) >= b
BY DEF Later

\* The soonest of the wanted moments exists.
LEMMA HasSoonest ==
    ASSUME NEW S \in SUBSET Nat, S # {}
    PROVE  \E w \in S : \A v \in S : w <= v
<1>1. PICK w \in S : \A v \in S : <<v, w>> \notin OpToRel(<, Nat)
  BY NatLessThanWellFounded, WFMin
<1>2. ASSUME NEW v \in S PROVE w <= v
  <2>1. ASSUME v < w PROVE <<v, w>> \in OpToRel(<, Nat)
    <3>1. <<v, w>> \in Nat \X Nat /\ <<v, w>>[1] < <<v, w>>[2]
      BY <2>1
    <3> QED
      BY <3>1, Zenon DEF OpToRel
  <2>2. ~ (v < w)
    BY <1>1, <2>1
  <2> QED
    BY <2>2
<1> QED
  BY <1>2

LEMMA WakeAtBounds ==
    ASSUME TypeOK, NEW t \in Nat
    PROVE  /\ WakeAt(t) # {} /\ AtMostOne(WakeAt(t))
           /\ \A w \in WakeAt(t) : t + MinSleep <= w /\ w <= t + MaxSleep
           /\ \A w \in WakeAt(t), v \in Wanted(t) : w <= Later(v, t + MinSleep)
<1>1. Wanted(t) \subseteq Nat
  BY ClockAssumption DEF Wanted, TypeOK
<1>2. CASE Wanted(t) = {}
  BY <1>2, ClockAssumption DEF WakeAt, AtMostOne
<1>3. CASE Wanted(t) # {}
  <2>1. PICK w \in Wanted(t) : \A v \in Wanted(t) : w <= v
    BY <1>1, <1>3, HasSoonest
  <2>2. {x \in Wanted(t) : \A v \in Wanted(t) : x <= v} = {w}
    BY <1>1, <2>1
  <2>3. WakeAt(t) = {Clamp(w, t + MinSleep, t + MaxSleep)}
    BY <1>3, <2>2 DEF WakeAt
  <2>4. /\ Clamp(w, t + MinSleep, t + MaxSleep) \in Nat
        /\ t + MinSleep <= Clamp(w, t + MinSleep, t + MaxSleep)
        /\ Clamp(w, t + MinSleep, t + MaxSleep) <= t + MaxSleep
    BY <1>1, ClockAssumption DEF Clamp, Sooner, Later
  <2>5. \A v \in Wanted(t) : Clamp(w, t + MinSleep, t + MaxSleep) <= Later(v, t + MinSleep)
    BY <1>1, <2>1, ClockAssumption DEF Clamp, Sooner, Later
  <2> QED
    BY <2>3, <2>4, <2>5 DEF AtMostOne
<1> QED
  BY <1>2, <1>3

LEMMA DelayBounds ==
    ASSUME NEW w \in Nat, TypeOK
    PROVE  /\ now + Delay(w) \in Nat
           /\ now <= now + Delay(w) /\ now + Delay(w) <= now + MaxSleep
           /\ now + Delay(w) <= Later(w, now + MinSleep)
BY ClockAssumption DEF Delay, Clamp, Sooner, Later, TypeOK

-----------------------------------------------------------------------------
(* The steps of a pass.                                                    *)

LEMMA StartPassKeeps ==
    ASSUME IInv, Start \/ Fire
    PROVE  IInv'
<1>1. /\ timer' = {} /\ up' = TRUE
      /\ pass' = [pc |-> "work", at |-> now, late |-> {trouble[i] : i \in Late(now)}]
      /\ UNCHANGED <<now, items, memory, reports, watch, faults>>
  BY DEF Start, Fire, StartPass, IInv, TypeOK
<1>2. {trouble[i] : i \in Late(now)} \subseteq Trouble
  BY DEF Late, Overdue, IInv, TypeOK
<1>3. TypeOK'
  BY <1>1, <1>2 DEF IInv, TypeOK, AtMostOne, items, memory, watch
<1>4. ClockOK'
  <2>1. \A l \in lastTick : l < now
    <3>1. CASE Start
      BY <3>1 DEF Start, IInv, ClockOK, TypeOK
    <3>2. CASE Fire
      BY <3>2 DEF Fire, IInv, ClockOK, Ended, TypeOK
    <3> QED
      BY <3>1, <3>2
  <2> QED
    BY <1>1, <2>1, ClockAssumption DEF IInv, ClockOK, Ended, TypeOK, items, memory
<1>5. CeilingOK'
  <2> SUFFICES ASSUME NEW i \in Item, state[i] = "pending", trouble[i] # "outage"
               PROVE  now <= Due(i) + MaxSleep + MaxPass
    BY <1>1 DEF CeilingOK, Due, Ended, items
  <2>1. up /\ now \in timer
    BY DEF Start, Fire, IInv, ClockOK
  <2> QED
    BY <2>1 DEF IInv, CeilingOK
<1>6. MailsOK'
  BY <1>1 DEF IInv, MailsOK, OneAlertPerWindow, watch
<1> QED
  BY <1>3, <1>4, <1>5, <1>6 DEF IInv

LEMMA WorkKeeps ==
    ASSUME IInv, Work
    PROVE  IInv'
<1>1. PICK failed \in SUBSET Overdue(pass.at) :
         /\ state' = [i \in Item |->
               IF i \in Overdue(pass.at) \ failed THEN "done" ELSE state[i]]
         /\ trouble' = [i \in Item |-> IF i \in failed THEN "outage" ELSE trouble[i]]
         /\ faults' = IF failed = {} THEN faults ELSE faults + 1
  <2>1. \A S : (IF "fail" \in Ops /\ faults < MaxFaults THEN SUBSET S ELSE {{}}) \subseteq SUBSET S
    OBVIOUS
  <2> QED
    BY <2>1 DEF Work
<1>2. /\ pass.pc = "work" /\ pass' = [pass EXCEPT !.pc = "verify"]
      /\ UNCHANGED <<now, dueAt, setUpAt, since, timer, memory, up, reports, watch>>
  BY DEF Work
<1>3. pass'.pc = "verify" /\ pass'.at = pass.at /\ up
  BY <1>2 DEF IInv, TypeOK, ClockOK
<1>4. TypeOK'
  <2>1. pass' \in [pc : {"rest", "work", "verify", "wake", "arm"}, at : Nat,
                   late : SUBSET Trouble]
    BY <1>2 DEF IInv, TypeOK
  <2>2. state' \in [Item -> {"none", "pending", "done"}] /\ trouble' \in [Item -> Trouble]
    BY <1>1 DEF IInv, TypeOK, Trouble
  <2>3. faults' \in Nat
    BY <1>1 DEF IInv, TypeOK
  <2> QED
    BY <1>2, <1>3, <2>1, <2>2, <2>3 DEF IInv, TypeOK, AtMostOne, memory, watch
<1>5. ClockOK'
  BY <1>2, <1>3 DEF IInv, ClockOK, Ended, TypeOK, memory
<1>6. CeilingOK'
  <2> SUFFICES ASSUME NEW i \in Item, state'[i] = "pending", trouble'[i] # "outage"
               PROVE  pass.at <= Due(i)
    BY <1>2, <1>3 DEF CeilingOK, Due, Ended, IInv, TypeOK
  <2>1. i \notin Overdue(pass.at) /\ state[i] = "pending"
    BY <1>1
  <2>2. pass.at < dueAt[i]
    BY <2>1 DEF Overdue, IInv, TypeOK
  <2>3. dueAt[i] \in Nat /\ since[i] \in Nat /\ pass.at \in Nat
    BY DEF IInv, TypeOK
  <2> QED
    BY <2>2, <2>3 DEF Due, Later
<1>7. MailsOK'
  BY <1>2 DEF IInv, MailsOK, OneAlertPerWindow, watch
<1> QED
  BY <1>4, <1>5, <1>6, <1>7 DEF IInv

LEMMA ThrowKeeps ==
    ASSUME IInv, Throw
    PROVE  IInv'
<1>1. PICK made \in SUBSET Overdue(pass.at) :
         state' = [i \in Item |-> IF i \in made THEN "done" ELSE state[i]]
  BY DEF Throw
<1>2. /\ pass.pc = "work" /\ pass' = [pass EXCEPT !.pc = "arm"] /\ faults' = faults + 1
      /\ UNCHANGED <<now, dueAt, setUpAt, since, trouble, timer, memory, up, reports, watch>>
  BY DEF Throw
<1>3. pass'.pc = "arm" /\ pass'.at = pass.at /\ up
  BY <1>2 DEF IInv, TypeOK, ClockOK
<1>4. ~Ended'
  BY <1>2, <1>3 DEF IInv, ClockOK, TypeOK, AtMostOne, Ended, memory
<1>5. TypeOK'
  <2>1. pass' \in [pc : {"rest", "work", "verify", "wake", "arm"}, at : Nat,
                   late : SUBSET Trouble]
    BY <1>2 DEF IInv, TypeOK
  <2>2. state' \in [Item -> {"none", "pending", "done"}] /\ faults' \in Nat
    BY <1>1, <1>2 DEF IInv, TypeOK
  <2> QED
    BY <1>2, <1>3, <2>1, <2>2 DEF IInv, TypeOK, AtMostOne, memory, watch
<1>6. ClockOK'
  BY <1>2, <1>3 DEF IInv, ClockOK, Ended, TypeOK, memory
<1>7. CeilingOK'
  <2> SUFFICES ASSUME NEW i \in Item, state'[i] = "pending", trouble[i] # "outage"
               PROVE  /\ pass.at <= Due(i) + MaxSleep + MaxPass
                      /\ \A t \in timer : t <= Due(i) + MaxSleep + MaxPass
    BY <1>2, <1>3, <1>4 DEF CeilingOK, Due, IInv, TypeOK
  <2>1. state[i] = "pending"
    BY <1>1
  <2> QED
    BY <1>2, <2>1 DEF IInv, CeilingOK
<1>8. MailsOK'
  BY <1>2 DEF IInv, MailsOK, OneAlertPerWindow, watch
<1> QED
  BY <1>5, <1>6, <1>7, <1>8 DEF IInv

LEMMA VerifyKeeps ==
    ASSUME IInv, Verify
    PROVE  IInv'
<1>1. /\ pass.pc = "verify" /\ pass' = [pass EXCEPT !.pc = "wake"]
      /\ UNCHANGED <<now, items, timer, lastTick, nextWake, up, watch, faults>>
  BY DEF Verify
<1>2. pass'.pc = "wake" /\ pass'.at = pass.at
  BY <1>1 DEF IInv, TypeOK
<1>3. TypeOK'
  <2>1. pass' \in [pc : {"rest", "work", "verify", "wake", "arm"}, at : Nat,
                   late : SUBSET Trouble]
    BY <1>1 DEF IInv, TypeOK
  <2>2. AtMostOne(lastHealth)'
    <3>1. lastHealth' = lastHealth \/ lastHealth' = {pass.at}
      BY DEF Verify
    <3>2. AtMostOne(lastHealth) /\ AtMostOne({pass.at})
      BY DEF IInv, TypeOK, AtMostOne
    <3> QED
      BY <3>1, <3>2 DEF AtMostOne
  <2>3. reports' \subseteq {"left", "late", "lateAfterTrouble"}
    <3> DEFINE found == IF Overdue(pass.at) # {} THEN {"left"}
                        ELSE {IF c = "none" THEN "late" ELSE "lateAfterTrouble" : c \in pass.late}
    <3>1. found \subseteq {"left", "late", "lateAfterTrouble"}
      OBVIOUS
    <3>2. reports' = reports \/ reports' = reports \cup found
      BY Zenon DEF Verify
    <3>3. reports \subseteq {"left", "late", "lateAfterTrouble"}
      BY DEF IInv, TypeOK
    <3> HIDE DEF found
    <3> QED
      BY <3>1, <3>2, <3>3
  <2> QED
    BY <1>1, <1>2, <2>1, <2>2, <2>3 DEF IInv, TypeOK, AtMostOne, items, watch
<1>4. ClockOK'
  BY <1>1, <1>2 DEF IInv, ClockOK, Ended, TypeOK, items
<1>5. CeilingOK'
  BY <1>1, <1>2 DEF IInv, CeilingOK, Due, Ended, items
<1>6. MailsOK'
  BY <1>1 DEF IInv, MailsOK, OneAlertPerWindow, watch
<1> QED
  BY <1>3, <1>4, <1>5, <1>6 DEF IInv

LEMMA ComputeKeeps ==
    ASSUME IInv, Compute
    PROVE  IInv'
<1>1. /\ pass.pc = "wake" /\ pass' = [pass EXCEPT !.pc = "arm"] /\ lastTick' = {pass.at}
      /\ UNCHANGED <<now, state, dueAt, setUpAt, since, timer, lastHealth, up, reports, watch>>
  BY DEF Compute
<1>2. /\ pass'.pc = "arm" /\ pass'.at = pass.at /\ pass.at \in Nat /\ up
      /\ pass.at <= now
  BY <1>1 DEF IInv, TypeOK, ClockOK
<1>3. nextWake' # {} /\ AtMostOne(nextWake')
  <2>1. CASE nextWake' = WakeAt(pass.at)
    BY <1>2, <2>1, WakeAtBounds DEF IInv
  <2>2. CASE nextWake' = {pass.at + MaxSleep}
    BY <1>2, <2>2, ClockAssumption DEF AtMostOne
  <2> QED
    BY <2>1, <2>2 DEF Compute
<1>4. /\ trouble' \in [Item -> Trouble] /\ faults' \in Nat
      /\ \A i \in Item : trouble'[i] # "outage" <=> trouble[i] # "outage"
  <2>1. CASE UNCHANGED <<trouble, faults>>
    BY <2>1 DEF IInv, TypeOK
  <2>2. CASE /\ trouble' = [i \in Item |-> IF trouble[i] \in {"none", "freed"} THEN "clock" ELSE trouble[i]]
             /\ faults' = faults + 1
    BY <2>2 DEF IInv, TypeOK, Trouble
  <2> QED
    BY <2>1, <2>2 DEF Compute
<1>5. TypeOK'
  <2>1. pass' \in [pc : {"rest", "work", "verify", "wake", "arm"}, at : Nat,
                   late : SUBSET Trouble]
    BY <1>1 DEF IInv, TypeOK
  <2>2. AtMostOne(lastTick)' /\ AtMostOne(nextWake)'
    BY <1>1, <1>2, <1>3 DEF AtMostOne
  <2> QED
    BY <1>1, <1>2, <1>4, <2>1, <2>2 DEF IInv, TypeOK, AtMostOne, watch
<1>6. ClockOK'
  BY <1>1, <1>2, <1>3 DEF IInv, ClockOK, Ended, TypeOK
<1>7. CeilingOK'
  <2> SUFFICES ASSUME NEW i \in Item, state[i] = "pending", trouble'[i] # "outage"
               PROVE  pass.at <= Due(i) /\ pass.at <= Due(i) + MaxSleep + MaxPass
    BY <1>1, <1>2 DEF CeilingOK, Due, IInv, TypeOK
  <2>1. pass.at <= Due(i)
    BY <1>1, <1>4 DEF IInv, CeilingOK
  <2>2. Due(i) \in Nat
    BY DEF Due, Later, IInv, TypeOK
  <2> HIDE DEF Due
  <2> QED
    BY <1>2, <2>1, <2>2, ClockAssumption
<1>8. MailsOK'
  BY <1>1 DEF IInv, MailsOK, OneAlertPerWindow, watch
<1> QED
  BY <1>5, <1>6, <1>7, <1>8 DEF IInv

LEMMA ArmKeeps ==
    ASSUME IInv, Arm
    PROVE  IInv'
<1>1. /\ pass.pc = "arm" /\ now > pass.at /\ pass' = Asleep
      /\ timer' = {now + Delay(w) : w \in Target}
      /\ trouble' = IF lastTick = {pass.at} THEN trouble ELSE [i \in Item |-> "outage"]
      /\ UNCHANGED <<now, state, dueAt, setUpAt, since, memory, up, reports, watch, faults>>
  BY DEF Arm
<1>2. PICK w \in Nat : Target = {w}
  <2>1. CASE nextWake = {}
    BY <2>1, ClockAssumption DEF Target, IInv, TypeOK
  <2>2. CASE nextWake # {}
    <3>1. PICK w \in nextWake : TRUE
      BY <2>2
    <3>2. w \in Nat /\ \A v \in nextWake : v = w
      BY DEF IInv, TypeOK, AtMostOne
    <3>3. Target = {w}
      BY <2>2, <3>1, <3>2 DEF Target
    <3> QED
      BY <3>2, <3>3
  <2> QED
    BY <2>1, <2>2
<1>3. /\ timer' = {now + Delay(w)} /\ now + Delay(w) \in Nat
      /\ now <= now + Delay(w) /\ now + Delay(w) <= now + MaxSleep
  BY <1>1, <1>2, DelayBounds DEF IInv
<1>4. up /\ pass.at \in Nat /\ now \in Nat /\ now <= pass.at + MaxPass
  BY <1>1 DEF IInv, TypeOK, ClockOK
<1>5. TypeOK'
  <2>1. /\ pass' \in [pc : {"rest", "work", "verify", "wake", "arm"}, at : Nat,
                      late : SUBSET Trouble]
        /\ pass'.pc = "rest"
    BY <1>1 DEF Asleep
  <2>2. AtMostOne(timer)' /\ timer' # {}
    BY <1>3 DEF AtMostOne
  <2>3. trouble' \in [Item -> Trouble]
    BY <1>1 DEF IInv, TypeOK, Trouble
  <2> QED
    BY <1>1, <1>4, <2>1, <2>2, <2>3 DEF IInv, TypeOK, AtMostOne, memory, watch
<1>6. ClockOK'
  <2>1. \A l \in lastTick : l < now
    BY <1>1, <1>4 DEF IInv, ClockOK, TypeOK, AtMostOne, Ended
  <2> QED
    BY <1>1, <1>3, <1>4, <2>1 DEF IInv, ClockOK, Ended, Asleep, memory
<1>7. CeilingOK'
  <2> SUFFICES ASSUME NEW i \in Item, state[i] = "pending", trouble'[i] # "outage"
               PROVE  now + Delay(w) <= Due(i) + MaxSleep + MaxPass
    BY <1>1, <1>3 DEF CeilingOK, Due, Asleep, Ended
  <2>1. Ended /\ trouble[i] # "outage"
    BY <1>1 DEF Ended
  <2>2. pass.at <= Due(i)
    BY <2>1 DEF IInv, CeilingOK
  <2>3. Due(i) \in Nat
    BY DEF Due, Later, IInv, TypeOK
  <2> HIDE DEF Due
  <2> QED
    BY <1>3, <1>4, <2>2, <2>3, ClockAssumption
<1>8. MailsOK'
  BY <1>1 DEF IInv, MailsOK, OneAlertPerWindow, watch
<1> QED
  BY <1>5, <1>6, <1>7, <1>8 DEF IInv

-----------------------------------------------------------------------------
(* What goes on meanwhile.                                                 *)

LEMMA SetUpKeeps ==
    ASSUME IInv, NEW i \in Item, NEW d \in Nat, SetUp(i, d) \/ Free(i)
    PROVE  IInv'
<1>1. /\ state' = [state EXCEPT ![i] = "pending"]
      /\ since' = [since EXCEPT ![i] = now]
      /\ UNCHANGED <<now, timer, memory, pass, up, reports, watch, faults>>
      /\ \A j \in Item : j # i => dueAt'[j] = dueAt[j] /\ trouble'[j] = trouble[j]
      /\ (state[i] = "done" /\ (trouble[i] = "outage" => trouble'[i] = "outage"))
            \/ (~up => trouble'[i] = "outage")
  <2>1. CASE SetUp(i, d)
    BY <2>1 DEF SetUp, IInv, TypeOK
  <2>2. CASE Free(i)
    BY <2>2 DEF Free, IInv, TypeOK
  <2> QED
    BY <2>1, <2>2
<1>2. TypeOK'
  <2>1. /\ dueAt' \in [Item -> Nat] /\ setUpAt' \in [Item -> Nat]
        /\ trouble' \in [Item -> Trouble]
    BY DEF SetUp, Free, IInv, TypeOK, Trouble
  <2>2. state' \in [Item -> {"none", "pending", "done"}] /\ since' \in [Item -> Nat]
    BY <1>1 DEF IInv, TypeOK
  <2> QED
    BY <1>1, <2>1, <2>2 DEF IInv, TypeOK, AtMostOne, memory, watch
<1>3. ClockOK'
  <2>1. ~up => \A j \in Item : state'[j] # "none" => trouble'[j] = "outage"
    BY <1>1 DEF IInv, ClockOK, TypeOK
  <2> QED
    BY <1>1, <2>1 DEF IInv, ClockOK, Ended, memory
<1>4. CeilingOK'
  <2>1. ASSUME NEW j \in Item, state'[j] = "pending", trouble'[j] # "outage"
        PROVE  /\ \A t \in timer : t <= Due(j)' + MaxSleep + MaxPass
               /\ pass.pc \in {"work", "arm"} => pass.at <= Due(j)' + MaxSleep + MaxPass
               /\ pass.pc \in {"verify", "wake"} \/ Ended => pass.at <= Due(j)'
    <3>1. CASE j = i
      <4>1. Due(i)' \in Nat /\ now <= Due(i)'
        BY <1>1, <1>2 DEF Due, Later, IInv, TypeOK
      <4>2. \A t \in timer : t \in Nat /\ t <= now + MaxSleep
        BY DEF IInv, ClockOK, TypeOK, AtMostOne
      <4>3. now \in Nat /\ pass.at \in Nat /\ (pass.pc # "rest" => pass.at <= now)
        BY DEF IInv, ClockOK, TypeOK
      <4> HIDE DEF Due
      <4> QED
        BY <3>1, <4>1, <4>2, <4>3, ClockAssumption DEF Ended
    <3>2. CASE j # i
      <4>1. Due(j)' = Due(j) /\ state[j] = "pending" /\ trouble[j] # "outage"
        BY <1>1, <2>1, <3>2 DEF Due, IInv, TypeOK
      <4> QED
        BY <4>1 DEF IInv, CeilingOK
    <3> QED
      BY <3>1, <3>2
  <2> QED
    BY <1>1, <2>1 DEF CeilingOK, Ended, memory
<1>5. MailsOK'
  BY <1>1 DEF IInv, MailsOK, OneAlertPerWindow, watch
<1> QED
  BY <1>2, <1>3, <1>4, <1>5 DEF IInv

LEMMA CrashKeeps ==
    ASSUME IInv, Crash
    PROVE  IInv'
<1>1. /\ up' = FALSE /\ timer' = {} /\ pass' = Asleep
      /\ lastTick' = {} /\ nextWake' = {} /\ lastHealth' = {}
      /\ beat' = [b \in Beat |-> {}]
      /\ trouble' = [i \in Item |-> "outage"] /\ faults' = faults + 1
      /\ UNCHANGED <<now, state, dueAt, setUpAt, since, reports, lastAlert, mails>>
  BY DEF Crash
<1>2. TypeOK'
  <2>1. /\ pass' \in [pc : {"rest", "work", "verify", "wake", "arm"}, at : Nat,
                      late : SUBSET Trouble]
        /\ pass'.pc = "rest"
    BY <1>1 DEF Asleep
  <2>2. trouble' \in [Item -> Trouble] /\ faults' \in Nat
    BY <1>1 DEF Trouble, IInv, TypeOK
  <2> QED
    BY <1>1, <2>1, <2>2 DEF IInv, TypeOK, AtMostOne
<1>3. ClockOK' /\ CeilingOK'
  BY <1>1 DEF ClockOK, CeilingOK, Ended, Asleep
<1>4. MailsOK'
  BY <1>1 DEF IInv, MailsOK, OneAlertPerWindow
<1> QED
  BY <1>2, <1>3, <1>4 DEF IInv

LEMMA StallKeeps ==
    ASSUME IInv, Stall
    PROVE  IInv'
<1>1. /\ now \in timer /\ timer' = {now + 1}
      /\ trouble' = [i \in Item |-> "outage"] /\ faults' = faults + 1
      /\ UNCHANGED <<now, state, dueAt, setUpAt, since, memory, pass, up, reports, watch>>
  BY DEF Stall
<1>2. TypeOK'
  <2>1. trouble' \in [Item -> Trouble] /\ faults' \in Nat
    BY <1>1 DEF Trouble, IInv, TypeOK
  <2>2. AtMostOne(timer)' /\ timer' # {} /\ timer # {}
    BY <1>1 DEF AtMostOne, IInv, TypeOK
  <2> QED
    BY <1>1, <2>1, <2>2 DEF IInv, TypeOK, AtMostOne, memory, watch
<1>3. ClockOK'
  BY <1>1, ClockAssumption DEF IInv, ClockOK, Ended, TypeOK, memory
<1>4. CeilingOK'
  BY <1>1 DEF CeilingOK
<1>5. MailsOK'
  BY <1>1 DEF IInv, MailsOK, OneAlertPerWindow, watch
<1> QED
  BY <1>2, <1>3, <1>4, <1>5 DEF IInv

LEMMA LookKeeps ==
    ASSUME IInv, NEW b \in Beat, Look(b)
    PROVE  IInv'
<1>1. /\ beat' = [beat EXCEPT ![b] = {now}]
      /\ UNCHANGED <<now, items, timer, memory, pass, up, reports, lastAlert, mails, faults>>
  BY DEF Look
<1>2. TypeOK'
  <2>1. beat' \in [Beat -> SUBSET Nat] /\ \A c \in Beat : AtMostOne(beat'[c])
    BY <1>1 DEF IInv, TypeOK, AtMostOne
  <2> QED
    BY <1>1, <2>1 DEF IInv, TypeOK, AtMostOne, items, memory
<1>3. ClockOK' /\ CeilingOK'
  BY <1>1 DEF IInv, ClockOK, CeilingOK, Ended, Due, items, memory
<1>4. MailsOK'
  BY <1>1 DEF IInv, MailsOK, OneAlertPerWindow
<1> QED
  BY <1>2, <1>3, <1>4 DEF IInv

\* The claim is won only a cooldown after all the mails that went out.
LEMMA ClaimKeeps ==
    ASSUME IInv, NEW b \in Beat, Claim(b)
    PROVE  IInv'
<1>1. PICK t \in beat[b] :
         IF \A a \in lastAlert : a < t - Cooldown
         THEN lastAlert' = {t} /\ mails' = mails \cup {<<t, b>>}
         ELSE UNCHANGED <<lastAlert, mails>>
  BY DEF Claim
<1>2. /\ beat' = [beat EXCEPT ![b] = {}]
      /\ UNCHANGED <<now, items, timer, memory, pass, up, reports, faults>>
  BY DEF Claim
<1>3. t \in Nat
  BY DEF IInv, TypeOK
<1>4. TypeOK'
  <2>1. beat' \in [Beat -> SUBSET Nat] /\ \A c \in Beat : AtMostOne(beat'[c])
    BY <1>2 DEF IInv, TypeOK, AtMostOne
  <2>2. AtMostOne(lastAlert)' /\ mails' \subseteq Nat \X Beat
    <3>1. AtMostOne(lastAlert) /\ mails \subseteq Nat \X Beat
      BY DEF IInv, TypeOK
    <3>2. CASE lastAlert' = {t} /\ mails' = mails \cup {<<t, b>>}
      <4>1. AtMostOne({t})
        BY <1>3 DEF AtMostOne
      <4> QED
        BY <1>3, <3>1, <3>2, <4>1 DEF AtMostOne
    <3>3. CASE UNCHANGED <<lastAlert, mails>>
      BY <3>1, <3>3 DEF AtMostOne
    <3> QED
      BY <1>1, <3>2, <3>3
  <2> QED
    BY <1>2, <2>1, <2>2 DEF IInv, TypeOK, AtMostOne, items, memory
<1>5. ClockOK' /\ CeilingOK'
  BY <1>2 DEF IInv, ClockOK, CeilingOK, Ended, Due, items, memory
<1>6. MailsOK'
  <2>1. CASE ~ \A a \in lastAlert : a < t - Cooldown
    BY <1>1, <2>1 DEF IInv, MailsOK, OneAlertPerWindow
  <2>2. CASE \A a \in lastAlert : a < t - Cooldown
    <3>1. lastAlert' = {t} /\ mails' = mails \cup {<<t, b>>}
      BY <1>1, <2>2
    <3>2. ASSUME NEW x \in mails PROVE x[1] \in Nat /\ t > x[1] + Cooldown
      <4>1. PICK a \in lastAlert : x[1] <= a
        BY DEF IInv, MailsOK
      <4>2. x[1] \in Nat /\ a \in Nat /\ a < t - Cooldown
        BY <2>2 DEF IInv, TypeOK, AtMostOne
      <4> QED
        BY <1>3, <4>1, <4>2, ClockAssumption
    <3>3. \A x \in mails' : \E a \in lastAlert' : x[1] <= a
      BY <1>3, <3>1, <3>2, ClockAssumption
    <3>4. OneAlertPerWindow'
      <4> SUFFICES ASSUME NEW x \in mails', NEW y \in mails', x # y
                   PROVE  x[1] > y[1] + Cooldown \/ y[1] > x[1] + Cooldown
        BY DEF OneAlertPerWindow
      <4>1. CASE x \in mails /\ y \in mails
        BY <4>1 DEF IInv, MailsOK, OneAlertPerWindow
      <4>2. CASE x = <<t, b>> /\ y \in mails
        BY <3>2, <4>2
      <4>3. CASE x \in mails /\ y = <<t, b>>
        BY <3>2, <4>3
      <4> QED
        BY <3>1, <4>1, <4>2, <4>3
    <3> QED
      BY <3>3, <3>4 DEF MailsOK
  <2> QED
    BY <2>1, <2>2
<1> QED
  BY <1>4, <1>5, <1>6 DEF IInv

LEMMA TickKeeps ==
    ASSUME IInv, Tick
    PROVE  IInv'
<1>1. /\ now' = now + 1 /\ now \notin timer
      /\ pass.pc = "rest" \/ now < pass.at + MaxPass
      /\ UNCHANGED <<items, timer, memory, pass, up, reports, watch, faults>>
  BY DEF Tick
<1>2. TypeOK'
  BY <1>1 DEF IInv, TypeOK, AtMostOne, items, memory, watch
<1>3. ClockOK'
  <2>1. \A t \in timer : t \in Nat
    BY DEF IInv, TypeOK, AtMostOne
  <2>2. \A l \in lastTick : l \in Nat
    BY DEF IInv, TypeOK, AtMostOne
  <2>3. now \in Nat /\ pass.at \in Nat
    BY DEF IInv, TypeOK
  <2>4. \A t \in timer : now + 1 <= t /\ t <= now + 1 + MaxSleep
    BY <1>1, <2>1, <2>3, ClockAssumption DEF IInv, ClockOK
  <2>5. pass.pc # "rest" => pass.at <= now + 1 /\ now + 1 <= pass.at + MaxPass
    BY <1>1, <2>3, ClockAssumption DEF IInv, ClockOK
  <2>6. \A l \in lastTick : l <= now
    BY DEF IInv, ClockOK
  <2> QED
    BY <1>1, <2>2, <2>3, <2>4, <2>5, <2>6 DEF IInv, ClockOK, Ended, items, memory
<1>4. CeilingOK'
  BY <1>1 DEF IInv, CeilingOK, Ended, Due, items, memory
<1>5. MailsOK'
  BY <1>1 DEF IInv, MailsOK, OneAlertPerWindow, watch
<1> QED
  BY <1>2, <1>3, <1>4, <1>5 DEF IInv

LEMMA StutterKeeps ==
    ASSUME IInv, UNCHANGED vars
    PROVE  IInv'
<1>1. TypeOK'
  BY DEF IInv, TypeOK, AtMostOne, vars, items, memory, watch
<1>2. ClockOK' /\ CeilingOK' /\ MailsOK'
  BY DEF IInv, ClockOK, CeilingOK, Ended, Due, MailsOK, OneAlertPerWindow, vars, items, memory, watch
<1> QED
  BY <1>1, <1>2 DEF IInv

-----------------------------------------------------------------------------
(* The theorems.                                                           *)

LEMMA InitInv ==
    ASSUME Init
    PROVE  IInv
<1>1. TypeOK
  BY DEF Init, TypeOK, AtMostOne, Asleep, Trouble
<1>2. ClockOK /\ CeilingOK /\ MailsOK
  BY DEF Init, ClockOK, CeilingOK, Ended, MailsOK, OneAlertPerWindow, Asleep
<1> QED
  BY <1>1, <1>2 DEF IInv

LEMMA NextInv ==
    ASSUME IInv, [Next]_vars
    PROVE  IInv'
<1>1. CASE Start \/ Fire
  BY <1>1, StartPassKeeps
<1>2. CASE Work \/ Throw \/ Verify \/ Compute \/ Arm
  BY <1>2, WorkKeeps, ThrowKeeps, VerifyKeeps, ComputeKeeps, ArmKeeps
<1>3. CASE \E i \in Item : Free(i) \/ \E t \in Dates : SetUp(i, t)
  <2>1. PICK i \in Item : Free(i) \/ \E t \in Dates : SetUp(i, t)
    BY <1>3
  <2>2. \E t \in Nat : SetUp(i, t) \/ Free(i)
    BY <2>1, ClockAssumption
  <2> QED
    BY <2>2, SetUpKeeps
<1>4. CASE Crash \/ Stall
  BY <1>4, CrashKeeps, StallKeeps
<1>5. CASE \E b \in Beat : Look(b) \/ Claim(b)
  BY <1>5, LookKeeps, ClaimKeeps
<1>6. CASE Tick
  BY <1>6, TickKeeps
<1>7. CASE UNCHANGED vars
  BY <1>7, StutterKeeps
<1> QED
  BY <1>1, <1>2, <1>3, <1>4, <1>5, <1>6, <1>7 DEF Next

THEOREM InvHolds == Spec => []IInv
BY InitInv, NextInv, PTL DEF Spec

\* A timer or a pass, never both and never neither while the process runs; at
\* most one moment remembered of each kind.
THEOREM TypesHold == Spec => []TypeOK
<1>1. IInv => TypeOK
  BY DEF IInv
<1> QED
  BY <1>1, InvHolds, PTL

\* What is due waits for the longest sleep and two passes at most, though
\* computeNextWakeAt may look for none of it and may fail every time.
THEOREM CeilingTheorem == Spec => []CeilingHolds
<1>1. ASSUME IInv PROVE CeilingHolds
  <2> SUFFICES ASSUME NEW i \in Item, state[i] = "pending", trouble[i] # "outage"
               PROVE  now <= Later(dueAt[i], since[i]) + MaxSleep + 2 * MaxPass
    BY DEF CeilingHolds
  <2>1. Due(i) \in Nat /\ now \in Nat /\ pass.at \in Nat
    BY <1>1 DEF Due, Later, IInv, TypeOK
  <2>2. up
    BY <1>1 DEF IInv, ClockOK
  <2>3. now <= Due(i) + MaxSleep + 2 * MaxPass
    <3>1. CASE pass.pc = "rest"
      <4>1. PICK t \in timer : TRUE
        BY <1>1, <2>2, <3>1 DEF IInv, TypeOK
      <4>2. t \in Nat /\ now <= t /\ t <= Due(i) + MaxSleep + MaxPass
        BY <1>1 DEF IInv, TypeOK, AtMostOne, ClockOK, CeilingOK
      <4> HIDE DEF Due
      <4> QED
        BY <2>1, <4>2, ClockAssumption
    <3>2. CASE pass.pc # "rest"
      <4>1. now <= pass.at + MaxPass
        BY <1>1, <3>2 DEF IInv, ClockOK
      <4>2. pass.at <= Due(i) + MaxSleep + MaxPass \/ pass.at <= Due(i)
        BY <1>1, <3>2 DEF IInv, TypeOK, CeilingOK
      <4> HIDE DEF Due
      <4> QED
        BY <2>1, <4>1, <4>2, ClockAssumption
    <3> QED
      BY <3>1, <3>2
  <2> QED
    BY <2>3 DEF Due
<1> QED
  BY <1>1, InvHolds, PTL

\* One outage mail per cooldown, for any number of heartbeats, processes that come
\* and go, and whatever the clock of a pass is.
THEOREM OneAlertTheorem == Spec => []OneAlertPerWindow
<1>1. IInv => OneAlertPerWindow
  BY DEF IInv, MailsOK
<1> QED
  BY <1>1, InvHolds, PTL

-----------------------------------------------------------------------------
(* The fine clock: where it looks for every item.                          *)

\* The parts of FineOK that are about one item.
FineItem(i) ==
    /\ \A t \in timer, l \in lastTick :
          setUpAt[i] <= l => t <= Later(dueAt[i], setUpAt[i]) + LateAfter
    /\ lastTick = {} => \A t \in timer : t - MaxSleep < setUpAt[i]
    /\ (pass.pc \in {"verify", "wake"} \/ Ended) /\ setUpAt[i] <= pass.at =>
          pass.at < dueAt[i]
    /\ Ended /\ setUpAt[i] <= pass.at =>
          \A w \in nextWake : w <= Later(dueAt[i], pass.at + MinSleep)

\* A pass finds nothing late that had no trouble: the timer fired in time for what
\* the last run knew of, and after a start there is nothing without trouble.
LEMMA FineStart ==
    ASSUME IInv, FineOK, Start \/ Fire
    PROVE  FineOK'
<1>1. /\ timer' = {}
      /\ pass' = [pc |-> "work", at |-> now, late |-> {trouble[i] : i \in Late(now)}]
      /\ UNCHANGED <<now, items, memory, reports, watch, faults>>
  BY DEF Start, Fire, StartPass
<1>2. ASSUME NEW i \in Late(now), trouble[i] = "none"
      PROVE  FALSE
  <2>1. i \in Item /\ state[i] = "pending"
    BY DEF Late, Overdue
  <2>2. up /\ now \in timer
    BY <1>2, <2>1 DEF Start, Fire, IInv, ClockOK
  <2>3. PICK l \in lastTick : TRUE
    <3>1. ASSUME lastTick = {} PROVE FALSE
      <4>1. setUpAt[i] <= now - MaxSleep
        BY <3>1 DEF Late, LastRun
      <4>2. now - MaxSleep < setUpAt[i]
        BY <1>2, <2>1, <2>2, <3>1 DEF FineOK
      <4>3. setUpAt[i] \in Nat /\ now \in Nat
        BY <2>1 DEF IInv, TypeOK
      <4> QED
        BY <4>1, <4>2, <4>3, ClockAssumption
    <3> QED
      BY <3>1
  <2>4. setUpAt[i] <= l /\ now - Later(dueAt[i], setUpAt[i]) > LateAfter
    BY <2>3 DEF Late, LastRun
  <2>5. now <= Later(dueAt[i], setUpAt[i]) + LateAfter
    BY <1>2, <2>1, <2>2, <2>3, <2>4 DEF FineOK
  <2>6. Later(dueAt[i], setUpAt[i]) \in Nat /\ now \in Nat
    BY <2>1 DEF Later, IInv, TypeOK
  <2> HIDE DEF Later
  <2> QED
    BY <2>4, <2>5, <2>6, ClockAssumption
<1>3. "none" \notin pass'.late
  BY <1>1, <1>2
<1> QED
  BY <1>1, <1>3 DEF FineOK, Ended, items, memory

LEMMA FineWork ==
    ASSUME IInv, FineOK, Work
    PROVE  FineOK'
<1>1. PICK failed \in SUBSET Overdue(pass.at) :
         /\ state' = [i \in Item |->
               IF i \in Overdue(pass.at) \ failed THEN "done" ELSE state[i]]
         /\ trouble' = [i \in Item |-> IF i \in failed THEN "outage" ELSE trouble[i]]
  <2>1. \A S : (IF "fail" \in Ops /\ faults < MaxFaults THEN SUBSET S ELSE {{}}) \subseteq SUBSET S
    OBVIOUS
  <2> QED
    BY <2>1 DEF Work
<1>2. /\ pass.pc = "work" /\ pass' = [pass EXCEPT !.pc = "verify"]
      /\ UNCHANGED <<now, dueAt, setUpAt, since, timer, memory, up, reports, watch>>
  BY DEF Work
<1>3. /\ pass'.pc = "verify" /\ pass'.at = pass.at /\ pass'.late = pass.late
      /\ timer' = {}
  BY <1>2 DEF IInv, TypeOK
<1>4. ASSUME NEW i \in Item, state'[i] = "pending", trouble'[i] = "none"
      PROVE  pass.at < dueAt[i]
  <2>1. i \notin Overdue(pass.at) /\ state[i] = "pending"
    BY <1>1, <1>4
  <2> QED
    BY <2>1 DEF Overdue, IInv, TypeOK
<1> QED
  BY <1>2, <1>3, <1>4 DEF FineOK, Ended, memory

LEMMA FineThrow ==
    ASSUME IInv, FineOK, Throw
    PROVE  FineOK'
<1>1. PICK made \in SUBSET Overdue(pass.at) :
         state' = [i \in Item |-> IF i \in made THEN "done" ELSE state[i]]
  BY DEF Throw
<1>2. /\ pass.pc = "work" /\ pass' = [pass EXCEPT !.pc = "arm"]
      /\ UNCHANGED <<now, dueAt, setUpAt, since, trouble, timer, memory, up, reports, watch>>
  BY DEF Throw
<1>3. /\ pass'.pc = "arm" /\ pass'.at = pass.at /\ pass'.late = pass.late
      /\ timer' = {}
  BY <1>2 DEF IInv, TypeOK
<1>4. ~Ended'
  BY <1>2, <1>3 DEF IInv, ClockOK, TypeOK, AtMostOne, Ended, memory
<1> QED
  BY <1>2, <1>3, <1>4 DEF FineOK, memory

LEMMA FineVerify ==
    ASSUME IInv, FineOK, Verify
    PROVE  FineOK'
<1>1. /\ pass.pc = "verify" /\ pass' = [pass EXCEPT !.pc = "wake"]
      /\ UNCHANGED <<now, items, timer, lastTick, nextWake, up, watch, faults>>
  BY DEF Verify
<1>2. pass'.pc = "wake" /\ pass'.at = pass.at /\ pass'.late = pass.late
  BY <1>1 DEF IInv, TypeOK
<1>3. "late" \notin reports'
  <2>1. \A c \in pass.late : c # "none"
    BY DEF FineOK
  <2>2. "late" \notin (IF Overdue(pass.at) # {} THEN {"left"}
          ELSE {IF c = "none" THEN "late" ELSE "lateAfterTrouble" : c \in pass.late})
    BY <2>1
  <2> QED
    BY <2>2 DEF Verify, FineOK
<1> QED
  BY <1>1, <1>2, <1>3 DEF FineOK, Ended, items

LEMMA FineCompute ==
    ASSUME IInv, FineOK, Compute, Clocked = Item
    PROVE  FineOK'
<1>1. /\ pass.pc = "wake" /\ pass' = [pass EXCEPT !.pc = "arm"] /\ lastTick' = {pass.at}
      /\ UNCHANGED <<now, state, dueAt, setUpAt, since, timer, lastHealth, up, reports, watch>>
  BY DEF Compute
<1>2. /\ pass'.pc = "arm" /\ pass'.at = pass.at /\ pass'.late = pass.late
      /\ pass.at \in Nat /\ timer' = {}
  BY <1>1 DEF IInv, TypeOK
<1>3. ASSUME NEW i \in Item, state[i] = "pending", trouble'[i] = "none"
      PROVE  /\ trouble[i] = "none"
             /\ setUpAt[i] <= pass.at =>
                   \A w \in nextWake' : w <= Later(dueAt[i], pass.at + MinSleep)
  <2>1. CASE nextWake' = WakeAt(pass.at) /\ UNCHANGED <<trouble, faults>>
    <3>1. ASSUME setUpAt[i] <= pass.at PROVE dueAt[i] \in Wanted(pass.at)
      <4>1. pass.at < dueAt[i] /\ dueAt[i] \in Nat
        BY <1>1, <1>3, <2>1, <3>1 DEF FineOK, IInv, TypeOK
      <4> QED
        BY <1>2, <1>3, <4>1 DEF Wanted
    <3> QED
      BY <1>2, <1>3, <2>1, <3>1, WakeAtBounds DEF IInv
  <2>2. CASE trouble' = [j \in Item |-> IF trouble[j] \in {"none", "freed"} THEN "clock" ELSE trouble[j]]
    BY <1>3, <2>2
  <2> QED
    BY <2>1, <2>2 DEF Compute
<1>4. ASSUME NEW i \in Item, state[i] = "pending", trouble'[i] = "none", setUpAt[i] <= pass.at
      PROVE  pass.at < dueAt[i]
  BY <1>1, <1>3, <1>4 DEF FineOK
<1> QED
  BY <1>1, <1>2, <1>3, <1>4 DEF FineOK, Ended

\* What the pass waits for comes before the next run, but for the pass itself and
\* the shortest sleep.
LEMMA FineArm ==
    ASSUME IInv, FineOK, Arm
    PROVE  FineOK'
<1>1. /\ pass.pc = "arm" /\ pass' = Asleep
      /\ timer' = {now + Delay(w) : w \in Target}
      /\ trouble' = IF lastTick = {pass.at} THEN trouble ELSE [i \in Item |-> "outage"]
      /\ UNCHANGED <<now, state, dueAt, setUpAt, since, memory, up, reports, watch, faults>>
  BY DEF Arm
<1>2. /\ pass.at \in Nat /\ now \in Nat /\ now <= pass.at + MaxPass
  BY <1>1 DEF IInv, TypeOK, ClockOK
<1>3. ASSUME NEW i \in Item, state[i] = "pending", trouble[i] = "none",
             Ended, setUpAt[i] <= pass.at, NEW w \in Target
      PROVE  now + Delay(w) <= Later(dueAt[i], setUpAt[i]) + LateAfter
  <2>1. pass.at < dueAt[i] /\ w <= Later(dueAt[i], pass.at + MinSleep)
    BY <1>3 DEF FineOK, IInv, ClockOK, Target
  <2>2. w \in Nat /\ dueAt[i] \in Nat /\ setUpAt[i] \in Nat
    BY <1>3 DEF IInv, TypeOK, AtMostOne, ClockOK, Target
  <2>3. now + Delay(w) \in Nat /\ now + Delay(w) <= Later(w, now + MinSleep)
    BY <2>2, DelayBounds DEF IInv
  <2>4. w <= dueAt[i] + LateAfter
    BY <1>2, <2>1, <2>2, ClockAssumption, LateAssumption DEF Later
  <2>5. now + MinSleep <= dueAt[i] + LateAfter
    BY <1>2, <2>1, <2>2, ClockAssumption, LateAssumption
  <2>6. now + Delay(w) <= dueAt[i] + LateAfter
    BY <1>2, <2>2, <2>3, <2>4, <2>5, ClockAssumption DEF Later
  <2>7. dueAt[i] <= Later(dueAt[i], setUpAt[i]) /\ Later(dueAt[i], setUpAt[i]) \in Nat
    BY <2>2 DEF Later
  <2> HIDE DEF Later, Delay
  <2> QED
    BY <2>2, <2>3, <2>6, <2>7, ClockAssumption
<1>4. ASSUME NEW i \in Item, state[i] = "pending", trouble'[i] = "none"
      PROVE  Ended /\ trouble[i] = "none"
  BY <1>1, <1>4 DEF Ended
<1>5. ASSUME NEW i \in Item, state[i] = "pending", trouble'[i] = "none",
             NEW t \in timer', NEW l \in lastTick, setUpAt[i] <= l
      PROVE  t <= Later(dueAt[i], setUpAt[i]) + LateAfter
  <2>1. Ended /\ trouble[i] = "none" /\ setUpAt[i] <= pass.at
    BY <1>4, <1>5 DEF Ended
  <2> QED
    BY <1>1, <1>3, <1>5, <2>1
<1> QED
  BY <1>1, <1>4, <1>5 DEF FineOK, Ended, Asleep, memory

\* The last run cannot have known of what is set up now.
LEMMA FineSetUp ==
    ASSUME IInv, FineOK, NEW i \in Item, NEW d \in Nat, SetUp(i, d)
    PROVE  FineOK'
<1>1. /\ Moment /\ state' = [state EXCEPT ![i] = "pending"]
      /\ dueAt' = [dueAt EXCEPT ![i] = d] /\ setUpAt' = [setUpAt EXCEPT ![i] = now]
      /\ trouble' = [trouble EXCEPT ![i] = IF up THEN "none" ELSE "outage"]
      /\ UNCHANGED <<now, timer, memory, pass, up, reports, watch, faults>>
  BY DEF SetUp
<1>2. ASSUME NEW j \in Item, state'[j] = "pending", trouble'[j] = "none"
      PROVE  FineItem(j)'
  <2>1. CASE j = i
    <3>1. setUpAt'[i] = now /\ now \in Nat /\ pass.at \in Nat
      BY <1>1 DEF IInv, TypeOK
    <3>2. pass.pc # "rest" => ~ (now <= pass.at)
      BY <1>1, <3>1 DEF Moment
    <3>4. \A t \in timer : t - MaxSleep < now
      <4>1. ASSUME NEW t \in timer PROVE t \in Nat /\ t <= now + MaxSleep /\ t # now + MaxSleep
        BY <1>1 DEF IInv, TypeOK, AtMostOne, ClockOK, Moment
      <4> QED
        BY <3>1, <4>1, ClockAssumption
    <3>3. \A t \in timer, l \in lastTick : ~ (now <= l)
      <4>1. ASSUME NEW t \in timer, NEW l \in lastTick PROVE l < now /\ l \in Nat
        BY DEF IInv, TypeOK, AtMostOne, ClockOK, Ended
      <4> QED
        BY <3>1, <4>1
    <3> QED
      BY <1>1, <2>1, <3>1, <3>2, <3>3, <3>4 DEF FineItem, Ended, memory
  <2>2. CASE j # i
    <3>1. /\ state[j] = "pending" /\ trouble[j] = "none"
          /\ dueAt'[j] = dueAt[j] /\ setUpAt'[j] = setUpAt[j]
      BY <1>1, <1>2, <2>2 DEF IInv, TypeOK
    <3>2. FineItem(j)
      BY <3>1 DEF FineOK, FineItem
    <3> QED
      BY <1>1, <3>1, <3>2 DEF FineItem, Ended, memory
  <2> QED
    BY <2>1, <2>2
<1> QED
  BY <1>1, <1>2 DEF FineOK, FineItem

\* A deleted copy is not without trouble: its date may be long past.
LEMMA FineFree ==
    ASSUME IInv, FineOK, NEW i \in Item, Free(i)
    PROVE  FineOK'
<1>1. /\ state' = [state EXCEPT ![i] = "pending"]
      /\ trouble' = [trouble EXCEPT ![i] = IF @ = "none" THEN "freed" ELSE @]
      /\ UNCHANGED <<now, dueAt, setUpAt, timer, memory, pass, up, reports, watch, faults>>
  BY DEF Free
<1>2. ASSUME NEW j \in Item, state'[j] = "pending", trouble'[j] = "none"
      PROVE  state[j] = "pending" /\ trouble[j] = "none"
  BY <1>1, <1>2 DEF IInv, TypeOK
<1> QED
  BY <1>1, <1>2 DEF FineOK, Ended, memory

LEMMA FineNext ==
    ASSUME IInv, FineOK, [Next]_vars, Clocked = Item
    PROVE  FineOK'
<1>1. CASE Start \/ Fire
  BY <1>1, FineStart
<1>2. CASE Work \/ Throw \/ Verify \/ Compute \/ Arm
  BY <1>2, FineWork, FineThrow, FineVerify, FineCompute, FineArm
<1>3. CASE \E i \in Item : Free(i) \/ \E t \in Dates : SetUp(i, t)
  <2>1. PICK i \in Item : Free(i) \/ \E t \in Dates : SetUp(i, t)
    BY <1>3
  <2>2. CASE Free(i)
    BY <2>2, FineFree
  <2>3. CASE \E t \in Dates : SetUp(i, t)
    <3>1. \E t \in Nat : SetUp(i, t)
      BY <2>3, ClockAssumption
    <3> QED
      BY <3>1, FineSetUp
  <2> QED
    BY <2>1, <2>2, <2>3
<1>4. CASE Crash
  BY <1>4 DEF FineOK, Ended, Crash, Asleep
<1>5. CASE Stall
  BY <1>5 DEF FineOK, Stall
<1>6. CASE \E b \in Beat : Look(b) \/ Claim(b)
  BY <1>6 DEF FineOK, Ended, Look, Claim, items, memory
<1>7. CASE Tick
  BY <1>7 DEF FineOK, Ended, Tick, items, memory
<1>8. CASE UNCHANGED vars
  BY <1>8 DEF FineOK, Ended, vars, items, memory
<1> QED
  BY <1>1, <1>2, <1>3, <1>4, <1>5, <1>6, <1>7, <1>8 DEF Next

\* Where computeNextWakeAt looks for everything, the report that the next-wake
\* computation is likely wrong is never made unless a step failed, the process died
\* or its timer was held up, or of a deleted copy.
THEOREM FineTheorem ==
    ASSUME Clocked = Item
    PROVE  Spec => []LateMeansTrouble
<1>1. Init => IInv /\ FineOK
  <2>1. Init => FineOK
    BY DEF Init, FineOK, Asleep
  <2> QED
    BY <2>1, InitInv
<1>2. IInv /\ FineOK /\ [Next]_vars => (IInv /\ FineOK)'
  BY NextInv, FineNext
<1>3. IInv /\ FineOK => LateMeansTrouble
  BY DEF FineOK, LateMeansTrouble
<1> QED
  BY <1>1, <1>2, <1>3, PTL DEF Spec

-----------------------------------------------------------------------------
(* The calendar of the schedules.                                          *)

\* Induction, for a set.
LEMMA Climb ==
    ASSUME NEW S, 0 \in S, \A n \in Nat : n \in S => n + 1 \in S
    PROVE  \A n \in Nat : n \in S
<1> SUFFICES ASSUME Nat \ S # {} PROVE FALSE
  OBVIOUS
<1>1. PICK T \in SUBSET Nat : T = Nat \ S
  OBVIOUS
<1>2. PICK w \in T : \A v \in T : w <= v
  BY <1>1, HasSoonest
<1>3. w # 0 /\ w \in Nat
  BY <1>1
<1>4. w - 1 \in Nat /\ w - 1 \notin T
  BY <1>2, <1>3
<1>5. (w - 1) + 1 = w
  BY <1>3
<1> QED
  BY <1>1, <1>4, <1>5

\* The first day of a month, as far as one likes.
First(m) ==
    365 * (m \div 12) + ((m \div 12 + 2) \div 4) + Before[(m % 12) + 1]
    + IF m % 12 > 1 /\ Leap(2023 + m \div 12) THEN 1 ELSE 0

\* By year y and month k of the year.
FirstIn(y, k) ==
    365 * y + ((y + 2) \div 4)
    + (IF k = 0 THEN 0 ELSE IF k = 1 THEN 31 ELSE IF k = 2 THEN 59 ELSE IF k = 3 THEN 90
       ELSE IF k = 4 THEN 120 ELSE IF k = 5 THEN 151 ELSE IF k = 6 THEN 181
       ELSE IF k = 7 THEN 212 ELSE IF k = 8 THEN 243 ELSE IF k = 9 THEN 273
       ELSE IF k = 10 THEN 304 ELSE 334)
    + (IF k > 1 /\ (2023 + y) % 4 = 0 THEN 1 ELSE 0)

LEMMA FirstAt ==
    ASSUME NEW y \in Nat, NEW k \in 0 .. 11, NEW m, m = 12 * y + k
    PROVE  m \div 12 = y /\ m % 12 = k /\ First(m) = FirstIn(y, k) /\ First(m) \in Nat
<1>1. m \div 12 = y /\ m % 12 = k
  OBVIOUS
<1>2. First(m) = FirstIn(y, k)
  <2>1. First(m) = 365 * y + ((y + 2) \div 4)
             + <<0, 31, 59, 90, 120, 151, 181, 212, 243, 273, 304, 334>>[k + 1]
             + IF k > 1 /\ (2023 + y) % 4 = 0 THEN 1 ELSE 0
    BY <1>1 DEF First, Before, Leap
  <2>2. k = 0 \/ k = 1 \/ k = 2 \/ k = 3 \/ k = 4 \/ k = 5 \/ k = 6 \/ k = 7 \/ k = 8 \/ k = 9
        \/ k = 10 \/ k = 11
    OBVIOUS
  <2> QED
    BY <2>1, <2>2 DEF FirstIn
<1>3. FirstIn(y, k) \in Nat
  BY DEF FirstIn
<1> QED
  BY <1>1, <1>2, <1>3

LEMMA YearAndMonth ==
    ASSUME NEW m \in Nat
    PROVE  \E y \in Nat, k \in 0 .. 11 : m = 12 * y + k
<1>1. m \div 12 \in Nat /\ m % 12 \in 0 .. 11 /\ m = 12 * (m \div 12) + (m % 12)
  OBVIOUS
<1> QED
  BY <1>1

\* A month begins when the one before is over.
LEMMA NextFirst ==
    ASSUME NEW m \in Nat
    PROVE  /\ First(m) \in Nat /\ DaysIn(m) \in 28 .. 31
           /\ First(m + 1) = First(m) + DaysIn(m)
<1>1. PICK y \in Nat, k \in 0 .. 11 : m = 12 * y + k
  BY YearAndMonth
<1>2. m \div 12 = y /\ m % 12 = k /\ First(m) = FirstIn(y, k) /\ First(m) \in Nat
  BY <1>1, FirstAt
<1>3. First(m + 1) = IF k = 11 THEN FirstIn(y + 1, 0) ELSE FirstIn(y, k + 1)
  <2>1. CASE k = 11
    <3>1. m + 1 = 12 * (y + 1) + 0 /\ y + 1 \in Nat /\ 0 \in 0 .. 11
      BY <1>1, <2>1
    <3> QED
      BY <2>1, <3>1, FirstAt
  <2>2. CASE k # 11
    <3>1. m + 1 = 12 * y + (k + 1) /\ k + 1 \in 0 .. 11
      BY <1>1, <2>2
    <3> QED
      BY <2>2, <3>1, FirstAt
  <2> QED
    BY <2>1, <2>2
<1>4. DaysIn(m) = IF k = 1 THEN IF (2023 + y) % 4 = 0 THEN 29 ELSE 28
                  ELSE IF k = 3 \/ k = 5 \/ k = 8 \/ k = 10 THEN 30 ELSE 31
  BY <1>2 DEF DaysIn, Leap
<1>5. k # 11 => FirstIn(y, k + 1) = FirstIn(y, k) + DaysIn(m)
  <2>1. k = 0 \/ k = 1 \/ k = 2 \/ k = 3 \/ k = 4 \/ k = 5 \/ k = 6 \/ k = 7 \/ k = 8 \/ k = 9
        \/ k = 10 \/ k = 11
    OBVIOUS
  <2> QED
    BY <1>4, <2>1 DEF FirstIn
<1>6. k = 11 => FirstIn(y + 1, 0) = FirstIn(y, k) + DaysIn(m)
  BY <1>4 DEF FirstIn
<1> QED
  BY <1>2, <1>3, <1>4, <1>5, <1>6

LEMMA FirstsRise ==
    ASSUME NEW m \in Nat, NEW n \in Nat, m < n
    PROVE  First(m) + 28 <= First(m + 1) /\ First(m + 1) <= First(n)
<1> DEFINE S == {k \in Nat : First(m + 1) <= First(m + 1 + k)}
<1>1. 0 \in S
  BY NextFirst
<1>2. ASSUME NEW k \in Nat, k \in S PROVE k + 1 \in S
  <2>1. m + 1 + k \in Nat /\ m + 1 + (k + 1) = (m + 1 + k) + 1 /\ m + 1 \in Nat
    OBVIOUS
  <2>2. First(m + 1 + (k + 1)) = First(m + 1 + k) + DaysIn(m + 1 + k)
    BY <2>1, NextFirst
  <2>3. First(m + 1) \in Nat /\ First(m + 1 + k) \in Nat /\ DaysIn(m + 1 + k) \in 28 .. 31
    BY <2>1, NextFirst
  <2>4. First(m + 1) <= First(m + 1 + k)
    BY <1>2
  <2> QED
    BY <2>2, <2>3, <2>4
<1>3. n - m - 1 \in S
  <2>1. n - m - 1 \in Nat
    OBVIOUS
  <2> HIDE DEF S
  <2>2. \A k \in Nat : k \in S
    BY <1>1, <1>2, Climb
  <2> QED
    BY <2>1, <2>2
<1>4. m + 1 + (n - m - 1) = n
  OBVIOUS
<1> QED
  BY <1>3, <1>4, NextFirst

LEMMA FirstOfIs ==
    ASSUME NEW m \in 0 .. Months
    PROVE  FirstOf[m] = First(m) /\ m \in Nat /\ First(m) \in Nat
<1>1. Months \in Nat /\ m \in Nat
  BY ScheduleAssumption
<1>2. FirstOf[m] = First(m)
  BY Zenon DEF FirstOf, First
<1> QED
  BY <1>1, <1>2, NextFirst

LEMMA FirstZero == First(0) = 0
<1>1. 0 \in Nat /\ 0 \in 0 .. 11 /\ 0 = 12 * 0 + 0
  OBVIOUS
<1>2. First(0) = FirstIn(0, 0)
  BY <1>1, FirstAt
<1> QED
  BY <1>2 DEF FirstIn

\* Every day of the calendar is in exactly one month.
LEMMA MonthIs ==
    ASSUME NEW d \in Nat, NEW m \in 0 .. Months - 1, First(m) <= d, d < First(m + 1)
    PROVE  MonthOf[d] = m /\ DayOf(d) = d - First(m) /\ d < FirstOf[Months]
<1>1. Months \in Nat /\ m \in Nat /\ m + 1 \in 0 .. Months /\ Months \in 0 .. Months
  BY ScheduleAssumption
<1>2. d < FirstOf[Months]
  <2>1. First(m + 1) <= First(Months)
    BY <1>1, FirstsRise
  <2>2. First(m + 1) \in Nat /\ First(Months) \in Nat /\ FirstOf[Months] = First(Months)
    BY <1>1, FirstOfIs
  <2> QED
    BY <2>1, <2>2
<1>3. FirstOf[Months] \in Nat
  BY <1>1, FirstOfIs
<1>4. MonthOf[d] = CHOOSE n \in 0 .. Months - 1 : FirstOf[n] <= d /\ d < FirstOf[n + 1]
  BY <1>2, <1>3 DEF MonthOf
<1>5. FirstOf[m] <= d /\ d < FirstOf[m + 1]
  BY <1>1, FirstOfIs
<1>6. ASSUME NEW n \in 0 .. Months - 1, FirstOf[n] <= d, d < FirstOf[n + 1] PROVE n = m
  <2>1. n \in Nat /\ n \in 0 .. Months /\ n + 1 \in 0 .. Months
    BY <1>1
  <2>2. First(n) <= d /\ d < First(n + 1)
    BY <1>6, <2>1, FirstOfIs
  <2>3. First(n) \in Nat /\ First(n + 1) \in Nat /\ First(m) \in Nat /\ First(m + 1) \in Nat
    BY <1>1, <2>1, FirstOfIs
  <2>4. ~ (n < m)
    BY <1>1, <2>1, <2>2, <2>3, FirstsRise
  <2>5. ~ (m < n)
    BY <1>1, <2>1, <2>2, <2>3, FirstsRise
  <2> QED
    BY <1>1, <2>1, <2>4, <2>5
<1>7. MonthOf[d] = m
  BY <1>4, <1>5, <1>6
<1>8. DayOf(d) = d - First(m)
  BY <1>1, <1>7, FirstOfIs DEF DayOf
<1> QED
  BY <1>2, <1>7, <1>8

LEMMA MonthThere ==
    ASSUME NEW d \in Nat, d < FirstOf[Months]
    PROVE  \E m \in 0 .. Months - 1 : First(m) <= d /\ d < First(m + 1) /\ MonthOf[d] = m
<1> DEFINE T == {m \in Nat : d < First(m)}
<1>1. Months \in Nat /\ FirstOf[Months] = First(Months) /\ First(Months) \in Nat
  BY ScheduleAssumption, FirstOfIs
<1>2. Months \in T
  BY <1>1
<1>3. PICK w \in T : \A v \in T : w <= v
  <2> HIDE DEF T
  <2>1. T \in SUBSET Nat
    BY DEF T
  <2> QED
    BY <1>2, <2>1, HasSoonest
<1>4. w \in Nat /\ d < First(w) /\ w <= Months
  BY <1>2, <1>3
<1>5. w # 0
  BY <1>4, FirstZero
<1>6. w - 1 \in 0 .. Months - 1 /\ w - 1 \in Nat /\ (w - 1) + 1 = w
  BY <1>1, <1>4, <1>5
<1>7. First(w - 1) \in Nat
  BY <1>6, NextFirst
<1>8. First(w - 1) <= d
  BY <1>3, <1>6, <1>7
<1>9. MonthOf[d] = w - 1
  BY <1>4, <1>6, <1>8, MonthIs
<1> QED
  BY <1>4, <1>6, <1>8, <1>9

-----------------------------------------------------------------------------
(* The dates of a series.                                                  *)

\* In dates that are listed in order, as many are before the n-th as one counts.
LEMMA NthOfDates ==
    ASSUME NEW D \in SUBSET Int, NEW N \in Nat, NEW A \in [1 .. N -> D],
           \A m, n \in 1 .. N : m < n => A[m] < A[n],
           \A d \in D : \E k \in 1 .. N : d = A[k],
           NEW n \in 1 .. N
    PROVE  Cardinality({d \in D : d < A[n]}) = n - 1
<1> DEFINE E == {d \in D : d < A[n]}
<1>1. PICK f : f = [k \in 1 .. n - 1 |-> A[k]]
  OBVIOUS
<1>2. \A k \in 1 .. n - 1 : k \in 1 .. N /\ f[k] = A[k] /\ A[k] \in E
  BY <1>1
<1>3. f \in Injection(1 .. n - 1, E)
  <2>1. f \in [1 .. n - 1 -> E]
    BY <1>1, <1>2
  <2>2. ASSUME NEW k \in 1 .. n - 1, NEW m \in 1 .. n - 1, f[k] = f[m] PROVE k = m
    <3>1. A[k] = A[m] /\ A[k] \in Int /\ k \in 1 .. N /\ m \in 1 .. N
      BY <1>2, <2>2
    <3> QED
      BY <3>1
  <2> QED
    BY <2>1, <2>2 DEF Injection, IsInjective
<1>4. f \in Surjection(1 .. n - 1, E)
  <2>1. f \in [1 .. n - 1 -> E]
    BY <1>1, <1>2
  <2>2. ASSUME NEW d \in E PROVE \E k \in 1 .. n - 1 : f[k] = d
    <3>1. PICK k \in 1 .. N : d = A[k]
      OBVIOUS
    <3>2. A[k] < A[n] /\ A[k] \in Int /\ A[n] \in Int
      BY <3>1
    <3>3. k < n
      BY <3>2
    <3> QED
      BY <1>2, <3>1, <3>3
  <2> QED
    BY <2>1, <2>2 DEF Surjection
<1>5. ExistsBijection(1 .. n - 1, E)
  BY <1>3, <1>4 DEF ExistsBijection, Bijection
<1>6. n - 1 \in Nat
  OBVIOUS
<1> HIDE DEF E
<1>7. Cardinality(E) = n - 1
  BY <1>5, <1>6, FS_CountingElements
<1> QED
  BY <1>7 DEF E

\* Multiples of a step.
LEMMA StepsOf ==
    ASSUME NEW s \in Nat \ {0}
    PROVE  /\ \A k \in Nat : s * k \in Nat /\ (s * k) % s = 0
           /\ \A x \in Nat : x % s = 0 => \E k \in Nat : x = s * k
           /\ \A k, n \in Nat : k < n => s * k + s <= s * n
<1>1. \A x \in Nat : x = s * (x \div s) + (x % s) /\ x \div s \in Nat /\ x % s \in 0 .. s - 1
  OBVIOUS
<1>2. ASSUME NEW k \in Nat, NEW n \in Nat, k < n PROVE s * k + s <= s * n
  <2>1. PICK j \in Nat : n = k + 1 + j
    <3>1. n - k - 1 \in Nat /\ n = k + 1 + (n - k - 1)
      BY <1>2
    <3> QED
      BY <3>1
  <2>2. s * n = s * k + s + s * j /\ s * j \in Nat /\ s * k \in Nat
    BY <2>1
  <2> QED
    BY <2>2
<1>3. ASSUME NEW k \in Nat PROVE s * k \in Nat /\ (s * k) % s = 0
  <2>1. PICK x \in Nat : x = s * k
    OBVIOUS
  <2>2. PICK q \in Nat, e \in 0 .. s - 1 : x = s * q + e /\ e = x % s
    BY <1>1
  <2>3. s * k \in Nat /\ s * q \in Nat
    OBVIOUS
  <2>4. ~ (k < q)
    BY <1>2, <2>1, <2>2, <2>3
  <2>5. ~ (q < k)
    BY <1>2, <2>1, <2>2, <2>3
  <2>6. k = q
    BY <2>4, <2>5
  <2>7. s * q = x
    BY <2>1, <2>6
  <2>8. e = 0
    BY <2>2, <2>7
  <2> QED
    BY <2>1, <2>2, <2>3, <2>8
<1>4. ASSUME NEW x \in Nat, x % s = 0 PROVE \E k \in Nat : x = s * k
  <2>1. PICK k \in Nat, e \in 0 .. s - 1 : x = s * k + e /\ e = x % s
    BY <1>1
  <2>2. s * k \in Nat /\ e = 0
    BY <1>4, <2>1
  <2>3. x = s * k
    BY <2>1, <2>2
  <2> QED
    BY <2>3
<1> QED
  BY <1>2, <1>3, <1>4

\* A schedule that no weekdays are chosen for.
Plain(p) == p.unit = "Week" => p.weekdays = {}

PlanSet ==
    [unit : {"Day", "Week", "Month", "Year"}, count : Nat \ {0},
     weekdays : SUBSET (0 .. 6), anchor : Nat, offset : Int, lead : Nat,
     endType : {"Never", "AfterOccurrences", "OnDate"}, end : Nat]

LEMMA PlansAre ==
    ASSUME NEW p \in Plan
    PROVE  /\ p \in PlanSet /\ MaxSeq \in Nat \ {0}
           /\ \A n \in 1 .. MaxSeq : Anchors[p][n] = AnchorForSeq(p, n)
BY ScheduleAssumption DEF PlanSet, Anchors

\* What is left to show of a schedule: that its dates are in order, that it falls on each,
\* and on no other as far as they go.
LEMMA NoDriftFrom ==
    ASSUME NEW p \in Plan,
           \A n \in 1 .. MaxSeq : Anchors[p][n] \in Int /\ p.anchor <= Anchors[p][n] /\ Falls(p, Anchors[p][n]),
           \A m, n \in 1 .. MaxSeq : m < n => Anchors[p][m] < Anchors[p][n],
           \A d \in p.anchor .. Anchors[p][MaxSeq] :
               Falls(p, d) => \E k \in 1 .. MaxSeq : d = Anchors[p][k]
    PROVE  NoDrift[p]
<1>1. MaxSeq \in Nat \ {0} /\ p.anchor \in Nat
  BY PlansAre DEF PlanSet
<1>2. PICK D : D = {d \in p.anchor .. Anchors[p][MaxSeq] : Falls(p, d)}
  OBVIOUS
<1>3. PICK A : A = [n \in 1 .. MaxSeq |-> Anchors[p][n]]
  OBVIOUS
<1>4. Anchors[p][MaxSeq] \in Int /\ MaxSeq \in 1 .. MaxSeq
  BY <1>1
<1>5. \A n \in 1 .. MaxSeq : Anchors[p][n] <= Anchors[p][MaxSeq]
  <2> SUFFICES ASSUME NEW n \in 1 .. MaxSeq PROVE Anchors[p][n] <= Anchors[p][MaxSeq]
    OBVIOUS
  <2>1. n = MaxSeq \/ n < MaxSeq
    BY <1>1
  <2>2. Anchors[p][n] \in Int
    OBVIOUS
  <2> QED
    BY <1>4, <2>1, <2>2
<1>6. D \in SUBSET Int /\ A \in [1 .. MaxSeq -> D]
  BY <1>1, <1>2, <1>3, <1>4, <1>5
<1>7. \A n \in 1 .. MaxSeq : A[n] = Anchors[p][n]
  BY <1>3
<1>8. \A m, n \in 1 .. MaxSeq : m < n => A[m] < A[n]
  BY <1>7
<1>9. \A d \in D : \E k \in 1 .. MaxSeq : d = A[k]
  BY <1>2, <1>7
<1>10. \A n \in 1 .. MaxSeq : Cardinality({d \in D : d < A[n]}) = n - 1
  BY <1>1, <1>6, <1>8, <1>9, NthOfDates
<1>11. \A n \in 1 .. MaxSeq : Anchors[p][n] \in D /\ Cardinality({d \in D : d < Anchors[p][n]}) = n - 1
  BY <1>6, <1>7, <1>10
<1> QED
  BY <1>2, <1>11, Zenon DEF NoDrift

\* Days and whole weeks.
LEMMA StepsDoNotDrift ==
    ASSUME NEW p \in Plan, NEW s \in Nat \ {0},
           \A n \in 1 .. MaxSeq : AnchorForSeq(p, n) = p.anchor + s * (n - 1),
           \A d \in Nat : Falls(p, d) <=> (d - p.anchor) % s = 0
    PROVE  NoDrift[p]
<1>1. MaxSeq \in Nat \ {0} /\ p.anchor \in Nat
  BY PlansAre DEF PlanSet
<1>2. \A n \in 1 .. MaxSeq : n - 1 \in Nat /\ s * (n - 1) \in Nat /\ Anchors[p][n] = p.anchor + s * (n - 1)
  BY PlansAre
<1>3. ASSUME NEW n \in 1 .. MaxSeq
      PROVE  Anchors[p][n] \in Int /\ p.anchor <= Anchors[p][n] /\ Falls(p, Anchors[p][n])
  <2>1. PICK x \in Nat : x = s * (n - 1)
    BY <1>2
  <2>2. x % s = 0
    BY <1>2, <2>1, StepsOf
  <2>3. Anchors[p][n] = p.anchor + x
    BY <1>2, <2>1
  <2>4. (p.anchor + x) - p.anchor = x /\ p.anchor + x \in Nat
    BY <1>1
  <2> QED
    BY <1>1, <2>2, <2>3, <2>4
<1>4. ASSUME NEW m \in 1 .. MaxSeq, NEW n \in 1 .. MaxSeq, m < n PROVE Anchors[p][m] < Anchors[p][n]
  <2>1. m - 1 \in Nat /\ n - 1 \in Nat /\ m - 1 < n - 1
    BY <1>4
  <2>2. PICK x \in Nat, y \in Nat : x = s * (m - 1) /\ y = s * (n - 1)
    BY <1>2
  <2>3. x + s <= y
    BY <2>1, <2>2, StepsOf
  <2>4. Anchors[p][m] = p.anchor + x /\ Anchors[p][n] = p.anchor + y
    BY <1>2, <2>2
  <2> QED
    BY <1>1, <2>3, <2>4
<1>5. ASSUME NEW d \in p.anchor .. Anchors[p][MaxSeq], Falls(p, d)
      PROVE  \E k \in 1 .. MaxSeq : d = Anchors[p][k]
  <2>1. MaxSeq \in 1 .. MaxSeq /\ MaxSeq - 1 \in Nat
    BY <1>1
  <2>2. Anchors[p][MaxSeq] = p.anchor + s * (MaxSeq - 1) /\ s * (MaxSeq - 1) \in Nat
    BY <1>2, <2>1
  <2>3. d \in Nat /\ d - p.anchor \in Nat /\ d - p.anchor <= s * (MaxSeq - 1)
    BY <1>1, <2>2
  <2>4. (d - p.anchor) % s = 0
    BY <1>5, <2>3
  <2>5. PICK k \in Nat : d - p.anchor = s * k
    BY <2>3, <2>4, StepsOf
  <2>6. ~ (MaxSeq - 1 < k)
    <3> SUFFICES ASSUME MaxSeq - 1 < k PROVE FALSE
      OBVIOUS
    <3>1. s * (MaxSeq - 1) + s <= s * k
      BY <2>1, StepsOf
    <3> QED
      BY <2>2, <2>3, <2>5, <3>1
  <2>7. k + 1 \in 1 .. MaxSeq /\ (k + 1) - 1 = k
    BY <1>1, <2>6
  <2>8. d = p.anchor + s * k
    BY <1>1, <2>3, <2>5
  <2> QED
    BY <1>2, <2>7, <2>8
<1> QED
  BY <1>3, <1>4, <1>5, NoDriftFrom

LEMMA DaysDoNotDrift ==
    ASSUME NEW p \in Plan, Plain(p), p.unit \in {"Day", "Week"}
    PROVE  NoDrift[p]
<1>1. p.count \in Nat \ {0} /\ p.anchor \in Nat
  BY PlansAre DEF PlanSet
<1>2. PICK s \in Nat \ {0} : s = IF p.unit = "Day" THEN p.count ELSE 7 * p.count
  BY <1>1
<1>3. ASSUME NEW n \in 1 .. MaxSeq PROVE AnchorForSeq(p, n) = p.anchor + s * (n - 1)
  <2>1. AnchorForSeq(p, n) = AddInterval(p.anchor, p.unit, p.count * (n - 1))
    BY DEF AnchorForSeq, Plain
  <2>2. CASE p.unit = "Day"
    BY <1>2, <2>1, <2>2 DEF AddInterval
  <2>3. CASE p.unit = "Week"
    <3>1. AnchorForSeq(p, n) = p.anchor + 7 * (p.count * (n - 1))
      BY <2>1, <2>3 DEF AddInterval
    <3>2. 7 * (p.count * (n - 1)) = (7 * p.count) * (n - 1)
      BY <1>1
    <3> QED
      BY <1>2, <2>3, <3>1, <3>2
  <2> QED
    BY <2>2, <2>3
<1>4. ASSUME NEW d \in Nat PROVE Falls(p, d) <=> (d - p.anchor) % s = 0
  BY <1>2 DEF Falls, Plain
<1> QED
  BY <1>3, <1>4, StepsDoNotDrift

\* The day of month m that stands for the anchor's.
Fitting(p, m) == First(m) + (IF DayOf(p.anchor) < DaysIn(m) THEN DayOf(p.anchor) ELSE DaysIn(m) - 1)

LEMMA FittingDay ==
    ASSUME NEW p \in Plan, p.anchor < FirstOf[Months], NEW m \in 0 .. Months - 1
    PROVE  /\ Fitting(p, m) \in Nat /\ DayOf(p.anchor) \in Nat
           /\ First(m) <= Fitting(p, m) /\ Fitting(p, m) < First(m + 1)
           /\ MonthOf[Fitting(p, m)] = m /\ DayOf(Fitting(p, m)) = Fitting(p, m) - First(m)
<1>1. p.anchor \in Nat /\ Months \in Nat /\ m \in Nat
  BY PlansAre, ScheduleAssumption DEF PlanSet
<1>2. PICK a \in 0 .. Months - 1 : First(a) <= p.anchor /\ p.anchor < First(a + 1) /\ MonthOf[p.anchor] = a
  BY <1>1, MonthThere
<1>3. DayOf(p.anchor) = p.anchor - First(a) /\ a \in Nat
  BY <1>1, <1>2, MonthIs
<1>4. First(a) \in Nat
  BY <1>3, NextFirst
<1>5. DayOf(p.anchor) \in Nat
  BY <1>1, <1>2, <1>3, <1>4
<1>6. First(m) \in Nat /\ DaysIn(m) \in 28 .. 31 /\ First(m + 1) = First(m) + DaysIn(m)
  BY <1>1, NextFirst
<1>7. Fitting(p, m) \in Nat /\ First(m) <= Fitting(p, m) /\ Fitting(p, m) < First(m + 1)
  BY <1>5, <1>6 DEF Fitting
<1> QED
  BY <1>5, <1>7, MonthIs

LEMMA MonthsDoNotDrift ==
    ASSUME NEW p \in Plan, p.unit \in {"Month", "Year"}
    PROVE  NoDrift[p]
<1>1. /\ p.count \in Nat \ {0} /\ p.anchor \in Nat /\ MaxSeq \in Nat \ {0} /\ Months \in Nat
      /\ MaxSeq \in 1 .. MaxSeq
  BY PlansAre, ScheduleAssumption DEF PlanSet
<1>2. PICK s \in Nat \ {0} : s = (IF p.unit = "Month" THEN 1 ELSE 12) * p.count
  BY <1>1
<1>3. p.anchor < FirstOf[Months] /\ MonthOf[p.anchor] + s * (MaxSeq - 1) + 1 < Months
  BY <1>2, CalendarAssumption
<1>4. PICK a \in 0 .. Months - 1 : First(a) <= p.anchor /\ p.anchor < First(a + 1) /\ MonthOf[p.anchor] = a
  BY <1>1, <1>3, MonthThere
<1>5. DayOf(p.anchor) = p.anchor - First(a) /\ a \in Nat
  BY <1>1, <1>4, MonthIs
<1>6. First(a) \in Nat /\ DaysIn(a) \in 28 .. 31 /\ First(a + 1) = First(a) + DaysIn(a)
  BY <1>5, NextFirst
<1>7. Fitting(p, a) = p.anchor
  BY <1>1, <1>4, <1>5, <1>6 DEF Fitting
\* The months of the dates.
<1>8. PICK g : g = [n \in 1 .. MaxSeq |-> a + s * (n - 1)]
  OBVIOUS
<1>9. ASSUME NEW m \in 1 .. MaxSeq, NEW n \in 1 .. MaxSeq, m < n PROVE g[m] + s <= g[n]
  <2>1. m - 1 \in Nat /\ n - 1 \in Nat /\ m - 1 < n - 1
    BY <1>9
  <2>2. PICK x \in Nat, y \in Nat : x = s * (m - 1) /\ y = s * (n - 1)
    BY <2>1, StepsOf
  <2>3. x + s <= y
    BY <2>1, <2>2, StepsOf
  <2>4. g[m] = a + x /\ g[n] = a + y
    BY <1>8, <2>2
  <2> QED
    BY <1>5, <2>3, <2>4
<1>10. \A n \in 1 .. MaxSeq : g[n] \in Nat /\ a <= g[n]
  <2> SUFFICES ASSUME NEW n \in 1 .. MaxSeq PROVE g[n] \in Nat /\ a <= g[n]
    OBVIOUS
  <2>1. PICK x \in Nat : x = s * (n - 1)
    <3>1. n - 1 \in Nat
      OBVIOUS
    <3> QED
      BY <3>1, StepsOf
  <2> QED
    BY <1>5, <1>8, <2>1
<1>11. g[MaxSeq] + 1 < Months
  BY <1>1, <1>3, <1>4, <1>8
<1>12. \A n \in 1 .. MaxSeq : g[n] \in 0 .. Months - 1 /\ g[n] + 1 \in 0 .. Months - 1
  <2> SUFFICES ASSUME NEW n \in 1 .. MaxSeq PROVE g[n] + 1 < Months
    BY <1>1, <1>10
  <2>1. n = MaxSeq \/ n < MaxSeq
    BY <1>1
  <2>2. g[n] <= g[MaxSeq]
    BY <1>1, <1>9, <1>10, <2>1
  <2> QED
    BY <1>1, <1>10, <1>11, <2>2
<1>13. ASSUME NEW n \in 1 .. MaxSeq PROVE Anchors[p][n] = Fitting(p, g[n])
  <2>1. Anchors[p][n] = AddInterval(p.anchor, p.unit, p.count * (n - 1))
    BY <1>13, PlansAre DEF AnchorForSeq
  <2>2. AddInterval(p.anchor, p.unit, p.count * (n - 1)) = AddMonths(p.anchor, s * (n - 1))
    <3>1. CASE p.unit = "Month"
      <4>1. s = p.count
        BY <1>1, <1>2, <3>1
      <4> QED
        BY <3>1, <4>1 DEF AddInterval
    <3>2. CASE p.unit = "Year"
      <4>1. s = 12 * p.count
        BY <1>2, <3>2
      <4>2. AddInterval(p.anchor, p.unit, p.count * (n - 1)) = AddMonths(p.anchor, 12 * (p.count * (n - 1)))
        BY <3>2 DEF AddInterval
      <4>3. 12 * (p.count * (n - 1)) = (12 * p.count) * (n - 1)
        BY <1>1
      <4> QED
        BY <4>1, <4>2, <4>3
    <3> QED
      BY <3>1, <3>2
  <2>3. MonthOf[p.anchor] + s * (n - 1) = g[n]
    BY <1>4, <1>8
  <2>4. FirstOf[g[n]] = First(g[n])
    <3>1. g[n] \in 0 .. Months
      BY <1>1, <1>12
    <3> QED
      BY <3>1, FirstOfIs
  <2> QED
    BY <2>1, <2>2, <2>3, <2>4 DEF AddMonths, Fitting
<1>14. ASSUME NEW n \in 1 .. MaxSeq
       PROVE  /\ Anchors[p][n] \in Nat /\ First(g[n]) <= Anchors[p][n] /\ Anchors[p][n] < First(g[n] + 1)
              /\ MonthOf[Anchors[p][n]] = g[n] /\ DayOf(Anchors[p][n]) = Anchors[p][n] - First(g[n])
  BY <1>3, <1>12, <1>13, FittingDay
\* A later month has the later date.
<1>15. ASSUME NEW m \in 1 .. MaxSeq, NEW n \in 1 .. MaxSeq, m < n PROVE Anchors[p][m] < Anchors[p][n]
  <2>1. g[m] \in Nat /\ g[n] \in Nat /\ g[m] < g[n]
    BY <1>9, <1>10, <1>15
  <2>2. First(g[m] + 1) <= First(g[n])
    BY <2>1, FirstsRise
  <2>3. First(g[m] + 1) \in Nat /\ First(g[n]) \in Nat
    BY <2>1, NextFirst
  <2> QED
    BY <1>14, <2>2, <2>3
<1>16. ASSUME NEW n \in 1 .. MaxSeq PROVE p.anchor <= Anchors[p][n]
  <2>1. 1 \in 1 .. MaxSeq /\ g[1] = a
    <3>1. 1 \in 1 .. MaxSeq /\ g[1] = a + s * (1 - 1)
      BY <1>1, <1>8
    <3> QED
      BY <1>2, <1>5, <3>1
  <2>2. Anchors[p][1] = p.anchor
    BY <1>7, <1>13, <2>1
  <2>3. n = 1 \/ 1 < n
    OBVIOUS
  <2> QED
    BY <1>1, <1>14, <1>15, <2>1, <2>2, <2>3
\* The schedule falls on them.
<1>17. \A d : Falls(p, d) <=>
          /\ (MonthOf[d] - a) % s = 0
          /\ \/ DayOf(d) = DayOf(p.anchor)
             \/ DayOf(d) < DayOf(p.anchor) /\ DayOf(d + 1) = 0
  <2>1. CASE p.unit = "Month"
    <3>1. s = p.count
      BY <1>1, <1>2, <2>1
    <3> QED
      BY <1>4, <2>1, <3>1 DEF Falls
  <2>2. CASE p.unit = "Year"
    BY <1>2, <1>4, <2>2 DEF Falls
  <2> QED
    BY <2>1, <2>2
<1>18. DayOf(p.anchor) \in Nat
  BY <1>3, <1>4, FittingDay
<1>19. ASSUME NEW n \in 1 .. MaxSeq PROVE Falls(p, Anchors[p][n])
  <2>1. PICK m \in Nat, d \in Nat : m = g[n] /\ d = Anchors[p][n]
    BY <1>10, <1>14
  <2>2. First(m) \in Nat /\ DaysIn(m) \in 28 .. 31 /\ First(m + 1) = First(m) + DaysIn(m)
    BY <2>1, NextFirst
  <2>3. MonthOf[d] = m /\ DayOf(d) = d - First(m)
    BY <1>14, <2>1
  <2>4. (m - a) % s = 0
    <3>1. PICK x \in Nat : x = s * (n - 1) /\ x % s = 0
      <4>1. n - 1 \in Nat
        OBVIOUS
      <4> QED
        BY <4>1, StepsOf
    <3>2. m - a = x
      BY <1>5, <1>8, <2>1, <3>1
    <3> QED
      BY <3>1, <3>2
  <2>5. d = First(m) + (IF DayOf(p.anchor) < DaysIn(m) THEN DayOf(p.anchor) ELSE DaysIn(m) - 1)
    BY <1>13, <2>1 DEF Fitting
  <2>6. CASE DayOf(p.anchor) < DaysIn(m)
    <3>1. DayOf(d) = DayOf(p.anchor)
      BY <1>18, <2>2, <2>3, <2>5, <2>6
    <3> QED
      BY <1>17, <2>1, <2>3, <2>4, <3>1
  <2>7. CASE ~(DayOf(p.anchor) < DaysIn(m))
    <3>1. DayOf(d) < DayOf(p.anchor) \/ DayOf(d) = DayOf(p.anchor)
      BY <1>18, <2>2, <2>3, <2>5, <2>7
    <3>2. d + 1 = First(m + 1)
      BY <2>2, <2>5, <2>7
    <3>3. m + 1 \in 0 .. Months - 1 /\ m + 1 \in Nat /\ d + 1 \in Nat
      BY <1>12, <2>1
    <3>4. First(m + 1) \in Nat /\ DaysIn(m + 1) \in 28 .. 31 /\ First(m + 1 + 1) = First(m + 1) + DaysIn(m + 1)
      BY <3>3, NextFirst
    <3>5. First(m + 1) <= d + 1 /\ d + 1 < First(m + 1 + 1)
      BY <3>2, <3>4
    <3>6. DayOf(d + 1) = (d + 1) - First(m + 1)
      BY <3>3, <3>5, MonthIs
    <3>7. DayOf(d + 1) = 0
      BY <3>2, <3>4, <3>6
    <3> QED
      BY <1>17, <2>1, <2>3, <2>4, <3>1, <3>7
  <2> QED
    BY <2>6, <2>7
\* It falls on no other.
<1>20. ASSUME NEW d \in p.anchor .. Anchors[p][MaxSeq], Falls(p, d)
       PROVE  \E k \in 1 .. MaxSeq : d = Anchors[p][k]
  <2>1. PICK last \in Nat : last = g[MaxSeq] /\ last + 1 \in 0 .. Months - 1 /\ last \in 0 .. Months - 1
    BY <1>1, <1>10, <1>12
  <2>2. Anchors[p][MaxSeq] \in Nat /\ Anchors[p][MaxSeq] < First(last + 1)
    BY <1>1, <1>14, <2>1
  <2>3. d \in Nat /\ p.anchor <= d /\ d < First(last + 1)
    <3>1. First(last + 1) \in Nat
      BY <2>1, NextFirst
    <3> QED
      BY <1>1, <2>2, <3>1
  <2>4. /\ First(last + 1) <= First(Months) /\ FirstOf[Months] = First(Months)
        /\ First(Months) \in Nat /\ First(last + 1) \in Nat
    <3>1. last + 1 \in Nat /\ last + 1 < Months /\ Months \in 0 .. Months
      BY <1>1, <2>1
    <3>2. First(last + 1) + 28 <= First(last + 1 + 1) /\ First(last + 1 + 1) <= First(Months)
      BY <1>1, <3>1, FirstsRise
    <3>3. First(last + 1) \in Nat /\ First(last + 1 + 1) \in Nat
      BY <3>1, NextFirst
    <3> QED
      BY <3>1, <3>2, <3>3, FirstOfIs
  <2>5. d < FirstOf[Months]
    BY <2>3, <2>4
  <2>6. PICK m \in 0 .. Months - 1 : First(m) <= d /\ d < First(m + 1) /\ MonthOf[d] = m
    BY <2>3, <2>5, MonthThere
  <2>7. m \in Nat /\ DayOf(d) = d - First(m)
    BY <2>3, <2>6, MonthIs
  <2>8. First(m) \in Nat /\ DaysIn(m) \in 28 .. 31 /\ First(m + 1) = First(m) + DaysIn(m)
    BY <2>7, NextFirst
  <2>9. m <= last
    <3> SUFFICES ASSUME last < m PROVE FALSE
      BY <2>1, <2>7
    <3>1. First(last + 1) <= First(m)
      BY <2>1, <2>7, FirstsRise
    <3> QED
      BY <2>3, <2>4, <2>6, <2>8, <3>1
  <2>10. a <= m
    <3> SUFFICES ASSUME m < a PROVE FALSE
      BY <1>5, <2>7
    <3>1. First(m + 1) <= First(a)
      BY <1>5, <2>7, FirstsRise
    <3> QED
      BY <1>1, <1>4, <1>6, <2>3, <2>6, <2>8, <3>1
  <2>11. PICK k \in Nat : m - a = s * k
    <3>1. m - a \in Nat /\ (m - a) % s = 0
      BY <1>5, <1>17, <1>20, <2>6, <2>7, <2>10
    <3> QED
      BY <3>1, StepsOf
  <2>12. k <= MaxSeq - 1
    <3> SUFFICES ASSUME MaxSeq - 1 < k PROVE FALSE
      BY <1>1
    <3>1. PICK x \in Nat, y \in Nat : x = s * (MaxSeq - 1) /\ y = s * k
      BY <1>1, StepsOf
    <3>2. x + s <= y
      BY <1>1, <3>1, StepsOf
    <3>3. last = a + x /\ m = a + y
      BY <1>1, <1>5, <1>8, <2>1, <2>7, <2>11, <3>1
    <3> QED
      BY <1>5, <2>9, <3>2, <3>3
  <2>13. k + 1 \in 1 .. MaxSeq /\ g[k + 1] = m
    <3>1. k + 1 \in 1 .. MaxSeq /\ (k + 1) - 1 = k
      BY <1>1, <2>12
    <3>2. g[k + 1] = a + s * k
      BY <1>8, <3>1
    <3> QED
      BY <1>5, <2>7, <2>11, <3>1, <3>2
  <2>14. d = Fitting(p, m)
    <3>1. CASE DayOf(d) = DayOf(p.anchor)
      <4>1. DayOf(p.anchor) < DaysIn(m) /\ d = First(m) + DayOf(p.anchor)
        BY <1>18, <2>3, <2>6, <2>7, <2>8, <3>1
      <4> QED
        BY <4>1 DEF Fitting
    <3>2. CASE DayOf(d) < DayOf(p.anchor) /\ DayOf(d + 1) = 0
      <4>1. d + 1 \in Nat /\ d + 1 <= First(m + 1)
        BY <2>3, <2>6, <2>8
      <4>2. d + 1 = First(m + 1)
        <5> SUFFICES ASSUME d + 1 < First(m + 1) PROVE FALSE
          BY <2>8, <4>1
        <5>1. DayOf(d + 1) = d + 1 - First(m)
          BY <2>3, <2>6, <2>8, <4>1, MonthIs
        <5> QED
          BY <2>3, <2>6, <2>8, <3>2, <5>1
      <4>3. d = First(m) + DaysIn(m) - 1 /\ ~(DayOf(p.anchor) < DaysIn(m))
        BY <1>18, <2>3, <2>7, <2>8, <3>2, <4>2
      <4> QED
        BY <2>8, <4>3 DEF Fitting
    <3> QED
      BY <1>17, <1>20, <3>1, <3>2
  <2> QED
    BY <1>13, <2>13, <2>14
<1>21. \A n \in 1 .. MaxSeq : Anchors[p][n] \in Int /\ p.anchor <= Anchors[p][n] /\ Falls(p, Anchors[p][n])
  BY <1>14, <1>16, <1>19
<1> QED
  BY <1>15, <1>20, <1>21, NoDriftFrom

-----------------------------------------------------------------------------
(* What is due, previewed and woken for.                                   *)

\* The walks ask only that later occurrences have later dates.
Ascends(p) ==
    /\ \A n \in 1 .. MaxSeq : Anchors[p][n] \in Int
    /\ \A m, n \in 1 .. MaxSeq : m < n => Anchors[p][m] < Anchors[p][n]

LEMMA NoDriftAscends ==
    ASSUME NEW p \in Plan, NoDrift[p]
    PROVE  Ascends(p)
<1>1. p.anchor \in Nat /\ MaxSeq \in Nat \ {0} /\ MaxSeq \in 1 .. MaxSeq
  BY PlansAre DEF PlanSet
<1>2. PICK D : D = {d \in p.anchor .. Anchors[p][MaxSeq] : Falls(p, d)}
  OBVIOUS
<1>3. \A n \in 1 .. MaxSeq : Anchors[p][n] \in D /\ Cardinality({d \in D : d < Anchors[p][n]}) = n - 1
  BY <1>2, Zenon DEF NoDrift
<1>4. \A n \in 1 .. MaxSeq : Anchors[p][n] \in Int
  <2>1. \A d \in D : d \in p.anchor .. Anchors[p][MaxSeq]
    BY <1>2
  <2>2. \A lo, hi : \A d \in lo .. hi : d \in Int
    OBVIOUS
  <2>3. \A d \in D : d \in Int
    BY <2>1, <2>2, Zenon
  <2> QED
    BY <1>3, <2>3
<1>5. Anchors[p][MaxSeq] \in Int
  BY <1>1, <1>4
<1>6. IsFiniteSet(D) /\ D \subseteq Int
  <2>1. PICK lo \in Int, hi \in Int : lo = p.anchor /\ hi = Anchors[p][MaxSeq]
    BY <1>1, <1>5
  <2>2. IsFiniteSet(lo .. hi)
    BY FS_Interval
  <2>3. D \subseteq lo .. hi
    BY <1>2, <2>1
  <2>4. \A d \in lo .. hi : d \in Int
    OBVIOUS
  <2>5. D \subseteq Int
    BY <2>3, <2>4
  <2>6. IsFiniteSet(D)
    BY <2>2, <2>3, FS_Subset
  <2> QED
    BY <2>5, <2>6
<1>7. ASSUME NEW m \in 1 .. MaxSeq, NEW n \in 1 .. MaxSeq, m < n, ~(Anchors[p][m] < Anchors[p][n])
      PROVE  FALSE
  <2>1. PICK x \in Int, y \in Int : x = Anchors[p][m] /\ y = Anchors[p][n] /\ y <= x
    BY <1>4, <1>7
  <2>2. PICK M, N : M = {d \in D : d < x} /\ N = {d \in D : d < y}
    OBVIOUS
  <2>3. N \subseteq M /\ M \subseteq D
    <3>1. ASSUME NEW d \in D, d < y PROVE d < x
      <4>1. d \in Int
        BY <1>6
      <4> QED
        BY <2>1, <3>1, <4>1
    <3> QED
      BY <2>2, <3>1
  <2>4. IsFiniteSet(M)
    BY <1>6, <2>3, FS_Subset
  <2>5. Cardinality(N) <= Cardinality(M)
    BY <2>3, <2>4, FS_Subset
  <2>6. Cardinality(M) = m - 1 /\ Cardinality(N) = n - 1
    BY <1>3, <2>1, <2>2
  <2> QED
    BY <1>7, <2>5, <2>6
<1> QED
  BY <1>4, <1>7 DEF Ascends

SeriesInv == plan \in Plan /\ fired \in SUBSET (1 .. MaxSeq) /\ today \in Int

LEMMA WalksLemma ==
    ASSUME SeriesInv, Ascends(plan)
    PROVE  WalksFit
<1>1. /\ plan.endType \in {"Never", "AfterOccurrences", "OnDate"} /\ plan.end \in Nat
      /\ plan.offset \in Int /\ plan.lead \in Nat /\ MaxSeq \in Nat \ {0} /\ Horizon \in Nat \ {0}
  BY PlansAre, ScheduleAssumption DEF PlanSet, SeriesInv
<1>2. today \in Int /\ fired \in SUBSET (1 .. MaxSeq)
  BY DEF SeriesInv
<1>3. PICK elig : elig = [n \in 1 .. MaxSeq |-> EligibleAt(plan, n)]
  OBVIOUS
<1>4. \A n \in 1 .. MaxSeq : EligibleAt(plan, n) = elig[n] /\ elig[n] \in Int
  BY <1>1, <1>3 DEF EligibleAt, Ascends
<1>5. \A m, n \in 1 .. MaxSeq : m < n => elig[m] < elig[n]
  BY <1>1, <1>4 DEF EligibleAt, Ascends
<1>6. \A m, n \in 1 .. MaxSeq : m <= n /\ SeqAllowed(plan, n) => SeqAllowed(plan, m)
  <2> SUFFICES ASSUME NEW m \in 1 .. MaxSeq, NEW n \in 1 .. MaxSeq, m < n, SeqAllowed(plan, n)
               PROVE  SeqAllowed(plan, m)
    BY <1>1
  <2>1. Anchors[plan][m] < Anchors[plan][n] /\ Anchors[plan][m] \in Int /\ Anchors[plan][n] \in Int
    BY DEF Ascends
  <2>2. CASE plan.endType = "Never"
    BY <2>2 DEF SeqAllowed
  <2>3. CASE plan.endType = "AfterOccurrences"
    BY <1>1, <2>3 DEF SeqAllowed
  <2>4. CASE plan.endType = "OnDate"
    BY <1>1, <2>1, <2>4 DEF SeqAllowed
  <2> QED
    BY <1>1, <2>2, <2>3, <2>4
<1>7. PICK missing : missing = {n \in 1 .. MaxSeq \ fired : SeqAllowed(plan, n)}
  OBVIOUS
<1>8. missing = {n \in 1 .. MaxSeq : \A k \in 1 .. n : SeqAllowed(plan, k)} \ fired
  <2>1. \A n \in 1 .. MaxSeq : SeqAllowed(plan, n) => \A k \in 1 .. n : SeqAllowed(plan, k)
    BY <1>1, <1>6
  <2>2. \A n \in 1 .. MaxSeq : n \in 1 .. n
    OBVIOUS
  <2> QED
    BY <1>7, <2>1, <2>2
<1>9. PICK due : due = DueFixedSeqs(plan)
  OBVIOUS
<1>10. due = {n \in missing : IsWithinLeadTime(plan, n)}
  <2>1. ASSUME NEW n \in 1 .. MaxSeq, SeqAllowed(plan, n), IsWithinLeadTime(plan, n), NEW k \in 1 .. n
        PROVE  SeqAllowed(plan, k) /\ IsWithinLeadTime(plan, k)
    <3>1. k \in 1 .. MaxSeq /\ k <= n
      BY <1>1
    <3>2. elig[k] <= elig[n]
      BY <1>4, <1>5, <3>1
    <3> QED
      BY <1>2, <1>4, <1>6, <2>1, <3>1, <3>2 DEF IsWithinLeadTime
  <2>2. \A n \in 1 .. MaxSeq : n \in 1 .. n
    OBVIOUS
  <2> QED
    BY <1>7, <1>9, <2>1, <2>2 DEF DueFixedSeqs
<1>11. ASSUME Cardinality(due) < Horizon, NEW n \in missing, EligibleAt(plan, n) > today
       PROVE  \E d \in NextWake(plan) : d <= EligibleAt(plan, n)
  <2>1. PICK late : late = {k \in missing : elig[k] > today}
    OBVIOUS
  <2>2. late \in SUBSET Nat /\ late \subseteq 1 .. MaxSeq /\ n \in late
    BY <1>4, <1>7, <1>11, <2>1
  <2>3. PICK w \in late : \A v \in late : w <= v
    BY <2>2, HasSoonest
  <2>4. w \in 1 .. MaxSeq /\ w \in missing /\ n \in 1 .. MaxSeq
    BY <2>1, <2>2
  <2>5. w \in UpcomingFixedSeqs(plan)
    <3>1. CASE plan.endType # "Never"
      BY <1>8, <2>4, <3>1 DEF UpcomingFixedSeqs
    <3>2. CASE plan.endType = "Never"
      <4>1. PICK B : B = {k \in missing : k < w}
        OBVIOUS
      <4>2. B \subseteq due
        <5> SUFFICES ASSUME NEW k \in B PROVE k \in due
          OBVIOUS
        <5>1. k \in missing /\ k \in 1 .. MaxSeq /\ k \in Nat /\ k < w
          BY <1>7, <4>1
        <5>2. k \notin late
          BY <2>2, <2>3, <2>4, <5>1
        <5>3. ~(elig[k] > today) /\ elig[k] \in Int
          BY <1>4, <2>1, <5>1, <5>2
        <5> QED
          BY <1>2, <1>4, <1>10, <5>1, <5>3 DEF IsWithinLeadTime
      <4>3. IsFiniteSet(due)
        <5>1. due \subseteq 1 .. MaxSeq
          BY <1>7, <1>10
        <5>2. 1 \in Int /\ MaxSeq \in Int
          BY <1>1
        <5>3. IsFiniteSet(1 .. MaxSeq)
          BY <5>2, FS_Interval
        <5> QED
          BY <5>1, <5>3, FS_Subset
      <4>4. Cardinality(B) <= Cardinality(due)
        BY <4>2, <4>3, FS_Subset
      <4>5. Cardinality(B) \in Nat /\ Cardinality(due) \in Nat
        BY <4>2, <4>3, FS_Subset, FS_CardinalityType
      <4>6. Cardinality(B) < Horizon
        BY <1>1, <1>11, <4>4, <4>5
      <4>7. UpcomingFixedSeqs(plan) = {x \in missing : Cardinality({k \in missing : k < x}) < Horizon}
        BY <1>8, <3>2, Zenon DEF UpcomingFixedSeqs
      <4> QED
        BY <2>4, <4>1, <4>6, <4>7
    <3> QED
      BY <3>1, <3>2
  <2>6. UpcomingFixedSeqs(plan) \subseteq missing
    BY <1>8 DEF UpcomingFixedSeqs
  <2>7. PICK ahead : ahead = {k \in UpcomingFixedSeqs(plan) : EligibleAt(plan, k) > today}
    OBVIOUS
  <2>8. w \in ahead
    BY <1>4, <2>1, <2>4, <2>5, <2>7
  <2>9. \A k \in ahead : k \in late
    BY <1>4, <1>7, <2>1, <2>6, <2>7
  <2>10. EligibleAt(plan, w) \in NextWake(plan)
    <3>1. w \in {m \in ahead : \A k \in ahead : m <= k}
      BY <2>3, <2>8, <2>9
    <3> QED
      BY <2>7, <3>1, Zenon DEF NextWake
  <2>11. elig[w] <= elig[n]
    BY <1>4, <1>5, <2>2, <2>3, <2>4
  <2> QED
    BY <1>4, <2>4, <2>10, <2>11
<1> QED
  BY <1>7, <1>9, <1>10, <1>11, Zenon DEF WalksFit

LEMMA SeriesInitOK == ScheduleInit => SeriesInv
BY PlansAre DEF ScheduleInit, SeriesInv, PlanSet

LEMMA SeriesStep == SeriesInv /\ (\A p \in Plan : Ascends(p)) /\ [ScheduleNext]_series => SeriesInv'
<1> SUFFICES ASSUME SeriesInv, \A p \in Plan : Ascends(p), [ScheduleNext]_series PROVE SeriesInv'
  OBVIOUS
<1>1. CASE UNCHANGED series
  BY <1>1 DEF series, SeriesInv
<1>2. CASE Sleep
  <2>1. \A n \in 1 .. MaxSeq : EligibleAt(plan, n) \in Int
    BY PlansAre DEF EligibleAt, Ascends, SeriesInv, PlanSet
  <2>2. UpcomingFixedSeqs(plan) \subseteq 1 .. MaxSeq
    BY DEF UpcomingFixedSeqs
  <2>3. NextWake(plan) \subseteq Int
    <3>1. NextWake(plan) \subseteq {EligibleAt(plan, n) : n \in UpcomingFixedSeqs(plan)}
      BY Zenon DEF NextWake
    <3> QED
      BY <2>1, <2>2, <3>1
  <2>4. today + Ceiling \in Int
    <3>1. Ceiling \in Nat
      BY Zenon, ScheduleAssumption
    <3> QED
      BY <3>1 DEF SeriesInv
  <2> QED
    BY <1>2, <2>3, <2>4 DEF Sleep, SeriesInv
<1>3. ASSUME NEW n \in 1 .. MaxSeq, Materialize(n) \/ ClickGhost(n) \/ DeleteCopy(n) PROVE SeriesInv'
  BY <1>3 DEF Materialize, ClickGhost, DeleteCopy, DueFixedSeqs, UpcomingFixedSeqs, SeriesInv
<1> QED
  BY <1>1, <1>2, <1>3 DEF ScheduleNext

\* In any series whose later occurrences have later dates, also on chosen weekdays: a pass
\* makes all that is due, and the scheduler wakes in time for what is to come.
THEOREM WalksTheorem == (\A p \in Plan : Ascends(p)) => (ScheduleSpec => []WalksFit)
<1> SUFFICES ASSUME \A p \in Plan : Ascends(p) PROVE ScheduleSpec => []WalksFit
  OBVIOUS
<1>1. SeriesInv /\ [ScheduleNext]_series => SeriesInv'
  BY SeriesStep
<1>2. SeriesInv => WalksFit
  BY WalksLemma DEF SeriesInv
<1> QED
  BY <1>1, <1>2, SeriesInitOK, PTL DEF ScheduleSpec

\* For any schedules by days, whole weeks, months and years, with any anchor, step, end,
\* offset and lead time, and a calendar that is long enough: the dates do not drift, a
\* pass makes all that is due, and the scheduler wakes in time for what is to come.
THEOREM ScheduleTheorem == (\A p \in Plan : Plain(p)) => (ScheduleSpec => []ScheduleFits)
<1> SUFFICES ASSUME \A p \in Plan : Plain(p) PROVE ScheduleSpec => []ScheduleFits
  OBVIOUS
<1>1. \A p \in Plan : NoDrift[p]
  <2> SUFFICES ASSUME NEW p \in Plan PROVE NoDrift[p]
    OBVIOUS
  <2>1. p.unit \in {"Day", "Week", "Month", "Year"}
    BY PlansAre DEF PlanSet
  <2> QED
    BY <2>1, DaysDoNotDrift, MonthsDoNotDrift
<1>2. \A p \in Plan : Ascends(p)
  BY <1>1, NoDriftAscends
<1>3. SeriesInv /\ [ScheduleNext]_series => SeriesInv'
  BY <1>2, SeriesStep
<1>4. SeriesInv => ScheduleFits
  BY <1>1, <1>2, WalksLemma DEF SeriesInv, ScheduleFits
<1> QED
  BY <1>3, <1>4, SeriesInitOK, PTL DEF ScheduleSpec
=============================================================================
