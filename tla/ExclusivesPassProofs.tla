------------------------ MODULE ExclusivesPassProofs ------------------------
(***************************************************************************)
(* Proofs about ExclusivesPass: its types and the lock, the alert log that *)
(* replays the snapshots, and the alert book it implements.                *)
(***************************************************************************)
EXTENDS ExclusivesPass, SequenceTheorems, TLAPS

Budget == [{"change", "trouble"} -> Nat]

SetupTypes ==
    /\ owner \in [Listing -> SUBSET Group] /\ dropped \subseteq Listing
    /\ groups \subseteq Group /\ active \in [Group -> BOOLEAN] /\ mode \in [Group -> Modes]
    /\ recipe \in BOOLEAN

DataTypes ==
    /\ snap \in [Listing -> SUBSET Value] /\ base \in [Listing -> SUBSET Value]
    /\ log \in [Listing -> Seq(LogEntry)] /\ quiet \subseteq Listing

WorldTypes ==
    world \in [Listing -> Value] /\ day \in Nat /\ left \in Budget /\ overlap \in BOOLEAN

\* At most one process holds the lock, and all that are in a pass until one timed out.
LockOK ==
    /\ lock \subseteq Proc /\ \A p, q \in lock : p = q
    /\ \A p \in lock : pass[p].pc # "idle"
    /\ ~overlap => \A p \in Proc : pass[p].pc # "idle" => p \in lock

LEMMA TypeParts ==
    TypeOK <=> /\ SetupTypes /\ DataTypes /\ WorldTypes /\ LockOK
               /\ pass \in [Proc -> PassState] /\ maker \in [Proc -> [Kind -> MakerState]]
BY DEF TypeOK, SetupTypes, DataTypes, WorldTypes, LockOK, Budget

LEMMA TypePartsNext ==
    ASSUME SetupTypes', DataTypes', WorldTypes', LockOK', pass' \in [Proc -> PassState],
           maker' \in [Proc -> [Kind -> MakerState]]
    PROVE  TypeOK'
BY DEF TypeOK, SetupTypes, DataTypes, WorldTypes, LockOK, Budget

LEMMA SpendType ==
    ASSUME TypeOK, NEW what \in {"change", "trouble"}, Spend(what)
    PROVE  left' \in Budget
<1>1. left \in Budget /\ left[what] > 0 /\ left' = [left EXCEPT ![what] = left[what] - 1]
  BY DEF TypeOK, Spend, Budget
<1>2. left[what] \in Nat
  BY <1>1 DEF Budget
<1>3. left[what] - 1 \in Nat
  BY <1>1, <1>2
<1> QED
  BY <1>1, <1>3 DEF Budget

LEMMA AwayState == Away \in PassState /\ Away.pc = "idle"
<1>1. "idle" \in {"idle", "locked", "fetched", "read", "detected", "making"} /\ "off" \in Modes
  BY DEF Modes
<1> QED
  BY <1>1 DEF Away, PassState

LEMMA NotMakingState == NotMaking \in MakerState
BY DEF NotMaking, MakerState

LEMMA InitTypes == Init => TypeOK
<1> SUFFICES ASSUME Init PROVE TypeOK
  OBVIOUS
<1>1. WorldTypes
  <2>1. left = [change |-> MaxChanges, trouble |-> MaxTrouble] /\ MaxChanges \in Nat /\ MaxTrouble \in Nat
    BY PassAssumption DEF Init
  <2>2. left \in Budget
    BY <2>1 DEF Budget
  <2> QED
    BY <2>2 DEF Init, WorldTypes
<1>2. SetupTypes
  BY DEF Init, SetupTypes, Modes
<1>3. DataTypes
  <2>1. <<>> \in Seq(LogEntry)
    OBVIOUS
  <2> QED
    BY <2>1 DEF Init, DataTypes
<1>4. pass \in [Proc -> PassState] /\ maker \in [Proc -> [Kind -> MakerState]]
  BY AwayState, NotMakingState DEF Init
<1>5. LockOK
  BY AwayState DEF Init, LockOK
<1> QED
  BY <1>1, <1>2, <1>3, <1>4, <1>5, TypeParts

-----------------------------------------------------------------------------
(* The steps of a pass keep the types.                                     *)

\* A pass goes on.
LEMMA PassGoesOn ==
    ASSUME TypeOK, NEW p \in Proc, NEW q \in PassState, q.pc # "idle", pass[p].pc # "idle",
           pass' = [pass EXCEPT ![p] = q], UNCHANGED <<lock, overlap>>
    PROVE  pass' \in [Proc -> PassState] /\ LockOK'
<1>1. pass \in [Proc -> PassState] /\ LockOK
  BY TypeParts
<1>2. \A r \in Proc : pass'[r] = IF r = p THEN q ELSE pass[r]
  BY <1>1
<1> QED
  BY <1>1, <1>2 DEF LockOK

\* A pass is over.
LEMMA PassEnds ==
    ASSUME TypeOK, NEW p \in Proc, Finish(p), UNCHANGED overlap
    PROVE  pass' \in [Proc -> PassState] /\ LockOK'
<1>1. pass \in [Proc -> PassState] /\ LockOK
  BY TypeParts
<1>2. lock' = lock \ {p} /\ \A r \in Proc : pass'[r] = IF r = p THEN Away ELSE pass[r]
  BY <1>1 DEF Finish
<1>3. pass' \in [Proc -> PassState]
  BY <1>1, AwayState DEF Finish
<1> QED
  BY <1>1, <1>2, <1>3, AwayState DEF LockOK

\* What a pass leaves alone keeps its type.
LEMMA Untouched ==
    ASSUME TypeOK
    PROVE  /\ UNCHANGED setup => SetupTypes'
           /\ UNCHANGED data => DataTypes'
           /\ UNCHANGED <<amazon, left, overlap>> => WorldTypes'
           /\ UNCHANGED maker => maker' \in [Proc -> [Kind -> MakerState]]
           /\ UNCHANGED <<pass, lock, overlap>> => pass' \in [Proc -> PassState] /\ LockOK'
BY TypeParts DEF setup, data, amazon, SetupTypes, DataTypes, WorldTypes, LockOK

LEMMA PassTypes ==
    ASSUME TypeOK, NEW p \in Proc, TryLock(p) \/ Ingest(p) \/ Read(p)
    PROVE  TypeOK'
<1>0. /\ UNCHANGED <<amazon, setup, data, maker, left, overlap>> /\ pass[p] \in PassState
      /\ pass \in [Proc -> PassState] /\ LockOK /\ SetupTypes /\ DataTypes /\ WorldTypes
  BY TypeParts DEF TryLock, Ingest, Read
<1>1. SetupTypes' /\ DataTypes' /\ WorldTypes' /\ maker' \in [Proc -> [Kind -> MakerState]]
  BY <1>0, Untouched
<1>2. pass' \in [Proc -> PassState] /\ LockOK'
  <2>1. CASE TryLock(p)
    <3> DEFINE q == [pass[p] EXCEPT !.pc = "locked"]
    <3>1. q \in PassState /\ q.pc = "locked"
      BY <1>0 DEF PassState
    <3>2. pass' = [pass EXCEPT ![p] = q] /\ lock = {} /\ lock' = {p} /\ pass[p].pc = "idle"
      BY <1>0, <2>1 DEF TryLock
    <3> HIDE DEF q
    <3>3. \A r \in Proc : pass'[r] = IF r = p THEN q ELSE pass[r]
      BY <1>0, <3>2
    <3> QED
      BY <1>0, <3>1, <3>2, <3>3 DEF LockOK
  <2>2. CASE Ingest(p)
    <3>1. PICK S \in (IF "skip" \in Ops THEN SUBSET Watched ELSE {Watched}) :
              pass' = [pass EXCEPT ![p].pc = "fetched",
                          ![p].fresh = [l \in Listing |-> IF l \in S THEN {world[l]} ELSE {}]]
      BY <2>2 DEF Ingest
    <3> DEFINE fresh == [l \in Listing |-> IF l \in S THEN {world[l]} ELSE {}]
               q == [pass[p] EXCEPT !.pc = "fetched", !.fresh = fresh]
    <3>2. fresh \in [Listing -> SUBSET Value]
      BY <1>0 DEF WorldTypes
    <3>3. pass' = [pass EXCEPT ![p] = q]
      BY <1>0, <3>1
    <3> HIDE DEF fresh
    <3>4. q \in PassState /\ q.pc = "fetched"
      BY <1>0, <3>2 DEF PassState
    <3> HIDE DEF q
    <3> QED
      BY <1>0, <2>2, <3>3, <3>4, PassGoesOn DEF Ingest
  <2>3. CASE Read(p)
    <3> DEFINE S == {l \in Listing : pass[p].fresh[l] # {} /\ owner[l] # {}}
               G == [l \in Listing |-> IF l \in S THEN owner[l] ELSE {}]
               M == [l \in Listing |->
                       IF \E g \in owner[l] : mode[g] = "immediate" THEN "immediate"
                       ELSE IF \E g \in owner[l] : mode[g] = "daily" THEN "daily" ELSE "off"]
               V == [l \in Listing |-> IF l \in S THEN snap[l] ELSE {}]
               q == [pass[p] EXCEPT !.pc = "read", !.seen = S, !.day = day, !.group = G,
                                    !.mode = M, !.saved = V]
    <3>1. S \subseteq Listing /\ G \in [Listing -> SUBSET Group] /\ V \in [Listing -> SUBSET Value]
      BY <1>0 DEF SetupTypes, DataTypes
    <3>2. M \in [Listing -> Modes]
      BY DEF Modes
    <3>3. pass' = [pass EXCEPT ![p] = q]
      BY <1>0, <2>3 DEF Read
    <3> HIDE DEF S, G, M, V
    <3>4. q \in PassState /\ q.pc = "read"
      BY <1>0, <3>1, <3>2 DEF PassState, WorldTypes
    <3> HIDE DEF q
    <3> QED
      BY <1>0, <2>3, <3>3, <3>4, PassGoesOn DEF Read
  <2> QED
    BY <2>1, <2>2, <2>3
<1> QED
  BY <1>1, <1>2, TypePartsNext

\* An entry for entry rewriting of a log.
LEMMA Rewritten ==
    ASSUME NEW s \in Seq(LogEntry), NEW t, t = [i \in DOMAIN s |-> t[i]],
           \A i \in 1 .. Len(s) : t[i] \in LogEntry
    PROVE  t \in Seq(LogEntry) /\ Len(t) = Len(s)
<1>1. Len(s) \in Nat /\ DOMAIN s = 1 .. Len(s)
  BY LenProperties
<1>2. t \in [1 .. Len(s) -> LogEntry]
  BY <1>1
<1>3. t \in Seq(LogEntry)
  BY <1>1, <1>2, SeqDef
<1> QED
  BY <1>1, <1>2, <1>3, LenProperties

\* No alert is added, and none leads from or to something else.
SameSteps ==
    \A l \in Listing :
        /\ Len(log'[l]) = Len(log[l])
        /\ \A n \in 1 .. Len(log[l]) : log'[l][n].from = log[l][n].from /\ log'[l][n].to = log[l][n].to

\* What becomes of the alerts: the ones of A get an outcome and n tasks.
DealtAs(A, outcome, n) ==
    \A l \in Listing : \A i \in 1 .. Len(log[l]) :
        /\ log'[l][i].outcome = IF <<l, i>> \in A THEN outcome ELSE log[l][i].outcome
        /\ log'[l][i].tasks = IF <<l, i>> \in A THEN log[l][i].tasks + n ELSE log[l][i].tasks

LEMMA DealtLog ==
    ASSUME TypeOK, NEW A, NEW outcome \in {"task", "none"}, NEW n \in Nat, Dealt(A, outcome, n)
    PROVE  log' \in [Listing -> Seq(LogEntry)] /\ SameSteps /\ DealtAs(A, outcome, n)
<1>1. ASSUME NEW l \in Listing
      PROVE  /\ log'[l] \in Seq(LogEntry) /\ Len(log'[l]) = Len(log[l])
             /\ \A i \in 1 .. Len(log[l]) :
                   /\ log'[l][i].from = log[l][i].from /\ log'[l][i].to = log[l][i].to
                   /\ log'[l][i].outcome = IF <<l, i>> \in A THEN outcome ELSE log[l][i].outcome
                   /\ log'[l][i].tasks = IF <<l, i>> \in A THEN log[l][i].tasks + n
                                         ELSE log[l][i].tasks
  <2>1. log[l] \in Seq(LogEntry)
    BY DEF TypeOK
  <2>2. DOMAIN log[l] = 1 .. Len(log[l])
    BY <2>1, LenProperties
  <2>3. log'[l] = [i \in DOMAIN log[l] |->
                      IF <<l, i>> \in A
                      THEN [log[l][i] EXCEPT !.outcome = outcome, !.tasks = @ + n]
                      ELSE log[l][i]]
    BY DEF Dealt
  <2>4. ASSUME NEW i \in 1 .. Len(log[l])
        PROVE  /\ log'[l][i] \in LogEntry
               /\ log'[l][i].from = log[l][i].from /\ log'[l][i].to = log[l][i].to
               /\ log'[l][i].outcome = IF <<l, i>> \in A THEN outcome ELSE log[l][i].outcome
               /\ log'[l][i].tasks = IF <<l, i>> \in A THEN log[l][i].tasks + n
                                     ELSE log[l][i].tasks
    <3>1. log[l][i] \in LogEntry
      BY <2>1, ElementOfSeq
    <3>2. CASE <<l, i>> \in A
      <4>1. log'[l][i] = [log[l][i] EXCEPT !.outcome = outcome, !.tasks = @ + n]
        BY <2>2, <2>3, <3>2
      <4>2. log[l][i].tasks + n \in Nat
        BY <3>1 DEF LogEntry
      <4> QED
        BY <3>1, <3>2, <4>1, <4>2 DEF LogEntry
    <3>3. CASE <<l, i>> \notin A
      BY <2>2, <2>3, <3>1, <3>3
    <3> QED
      BY <3>2, <3>3
  <2>5. log'[l] = [i \in DOMAIN log[l] |-> log'[l][i]]
    BY <2>3
  <2>6. log'[l] \in Seq(LogEntry) /\ Len(log'[l]) = Len(log[l])
    BY <2>1, <2>4, <2>5, Rewritten
  <2> QED
    BY <2>4, <2>6
<1>2. log' = [l \in Listing |-> log'[l]]
  BY DEF Dealt
<1>3. log' \in [Listing -> Seq(LogEntry)]
  BY <1>1, <1>2
<1> QED
  BY <1>1, <1>3 DEF SameSteps, DealtAs

LEMMA UngroupedLog ==
    ASSUME TypeOK, NEW g, Ungrouped(g)
    PROVE  log' \in [Listing -> Seq(LogEntry)] /\ SameSteps /\ DealtAs({}, "none", 0)
<1>1. ASSUME NEW l \in Listing
      PROVE  /\ log'[l] \in Seq(LogEntry) /\ Len(log'[l]) = Len(log[l])
             /\ \A i \in 1 .. Len(log[l]) :
                   /\ log'[l][i].from = log[l][i].from /\ log'[l][i].to = log[l][i].to
                   /\ log'[l][i].outcome = log[l][i].outcome
                   /\ log'[l][i].tasks = log[l][i].tasks
  <2>1. log[l] \in Seq(LogEntry)
    BY DEF TypeOK
  <2>2. DOMAIN log[l] = 1 .. Len(log[l])
    BY <2>1, LenProperties
  <2>3. log'[l] = [i \in DOMAIN log[l] |-> [log[l][i] EXCEPT !.group = @ \ {g}]]
    BY DEF Ungrouped
  <2>4. ASSUME NEW i \in 1 .. Len(log[l])
        PROVE  /\ log'[l][i] \in LogEntry
               /\ log'[l][i].from = log[l][i].from /\ log'[l][i].to = log[l][i].to
               /\ log'[l][i].outcome = log[l][i].outcome
               /\ log'[l][i].tasks = log[l][i].tasks
    <3>1. log[l][i] \in LogEntry
      BY <2>1, ElementOfSeq
    <3>2. log'[l][i] = [log[l][i] EXCEPT !.group = @ \ {g}]
      BY <2>2, <2>3
    <3> QED
      BY <3>1, <3>2 DEF LogEntry
  <2>5. log'[l] = [i \in DOMAIN log[l] |-> log'[l][i]]
    BY <2>3
  <2>6. log'[l] \in Seq(LogEntry) /\ Len(log'[l]) = Len(log[l])
    BY <2>1, <2>4, <2>5, Rewritten
  <2> QED
    BY <2>4, <2>6
<1>2. log' = [l \in Listing |-> log'[l]]
  BY DEF Ungrouped
<1>3. log' \in [Listing -> Seq(LogEntry)]
  BY <1>1, <1>2
<1> QED
  BY <1>1, <1>3 DEF SameSteps, DealtAs

\* What a detection adds to the log.
LEMMA SavedLog ==
    ASSUME TypeOK, NEW p \in Proc, Save(p)
    PROVE  /\ log' \in [Listing -> Seq(LogEntry)]
           /\ \A l \in Listing : l \notin Alerted(p) => log'[l] = log[l]
           /\ \A l \in Alerted(p) : l \in Listing /\ log'[l] = Append(log[l], NewAlert(p, l))
           /\ \A l \in Alerted(p) : NewAlert(p, l) \in LogEntry
<1>1. Alerted(p) \subseteq Listing /\ pass[p] \in PassState /\ log \in [Listing -> Seq(LogEntry)]
  BY DEF TypeOK, Alerted, Changed, PassState
<1>2. ASSUME NEW l \in Listing PROVE NewAlert(p, l) \in LogEntry
  BY <1>1 DEF NewAlert, LogEntry, PassState
<1>3. log' = [l \in Listing |-> IF l \in Alerted(p) THEN Append(log[l], NewAlert(p, l)) ELSE log[l]]
  BY DEF Save
<1>4. \A l \in Listing : Append(log[l], NewAlert(p, l)) \in Seq(LogEntry)
  BY <1>1, <1>2, AppendProperties
<1>5. log' \in [Listing -> Seq(LogEntry)]
  BY <1>1, <1>3, <1>4
<1> QED
  BY <1>1, <1>2, <1>3, <1>5

LEMMA DetectTypes ==
    ASSUME TypeOK, NEW p \in Proc, Detect(p) \/ FailDetect(p) \/ EndPass(p) \/ Expire(p)
    PROVE  TypeOK'
<1>0. /\ pass[p] \in PassState /\ pass \in [Proc -> PassState]
      /\ LockOK /\ SetupTypes /\ DataTypes /\ WorldTypes
  BY TypeParts
<1>1. CASE Detect(p)
  <2>1. Save(p) /\ UNCHANGED <<amazon, setup, lock, maker, left, overlap>>
    BY <1>1 DEF Detect
  <2>2. log' \in [Listing -> Seq(LogEntry)]
    BY <2>1, SavedLog
  <2>3. snap' \in [Listing -> SUBSET Value] /\ base' \in [Listing -> SUBSET Value] /\ quiet' \subseteq Listing
    <3>1. Changed(p) \subseteq Listing /\ \A l \in Listing : pass[p].fresh[l] \subseteq Value
      BY <1>0 DEF Changed, PassState
    <3> QED
      BY <1>0, <2>1, <3>1 DEF Save, Note, DataTypes
  <2>4. pass' \in [Proc -> PassState] /\ LockOK'
    <3> DEFINE q == [Away EXCEPT !.pc = "detected"]
    <3>1. q \in PassState /\ q.pc = "detected"
      BY AwayState DEF PassState
    <3>2. pass' = [pass EXCEPT ![p] = q] /\ pass[p].pc = "read"
      BY <1>1 DEF Detect
    <3> HIDE DEF q
    <3> QED
      BY <2>1, <3>1, <3>2, PassGoesOn
  <2> QED
    BY <2>1, <2>2, <2>3, <2>4, Untouched, TypePartsNext DEF DataTypes
<1>2. CASE FailDetect(p)
  <2>1. left' \in Budget
    BY <1>0, <1>2, SpendType DEF FailDetect, WorldTypes
  <2>2. Finish(p) /\ UNCHANGED <<amazon, setup, data, maker, overlap>>
    BY <1>2 DEF FailDetect
  <2>3. WorldTypes'
    BY <1>0, <2>1, <2>2 DEF WorldTypes, amazon
  <2> QED
    BY <2>2, <2>3, PassEnds, Untouched, TypePartsNext
<1>3. CASE EndPass(p)
  BY <1>3, PassEnds, Untouched, TypePartsNext DEF EndPass
<1>4. CASE Expire(p)
  <2>1. left' \in Budget /\ lock' = {} /\ overlap' = TRUE /\ UNCHANGED <<amazon, setup, data, pass, maker>>
    BY <1>4, SpendType DEF Expire
  <2>2. WorldTypes' /\ LockOK'
    BY <1>0, <2>1 DEF WorldTypes, LockOK, amazon
  <2>3. pass' \in [Proc -> PassState]
    BY <1>0, <2>1
  <2> QED
    BY <2>1, <2>2, <2>3, Untouched, TypePartsNext
<1> QED
  BY <1>1, <1>2, <1>3, <1>4

-----------------------------------------------------------------------------
(* The makers and the rest of the system keep the types.                   *)

LEMMA AlertsType == TypeOK => Alerts \subseteq Listing \X Nat
<1> SUFFICES ASSUME TypeOK, NEW a \in Alerts PROVE a \in Listing \X Nat
  OBVIOUS
<1>1. PICK l \in Listing : a \in {l} \X DOMAIN log[l]
  BY DEF Alerts
<1>2. log[l] \in Seq(LogEntry)
  BY DEF TypeOK
<1>3. DOMAIN log[l] = 1 .. Len(log[l]) /\ Len(log[l]) \in Nat
  BY <1>2, LenProperties
<1> QED
  BY <1>1, <1>3

\* A maker goes on.
LEMMA MakerGoesOn ==
    ASSUME TypeOK, NEW p \in Proc, NEW k \in Kind, NEW q \in MakerState,
           maker' = [maker EXCEPT ![p][k] = q]
    PROVE  maker' \in [Proc -> [Kind -> MakerState]]
<1>1. maker \in [Proc -> [Kind -> MakerState]]
  BY DEF TypeOK
<1>2. [maker[p] EXCEPT ![k] = q] \in [Kind -> MakerState]
  BY <1>1
<1>3. maker' = [maker EXCEPT ![p] = [maker[p] EXCEPT ![k] = q]]
  BY <1>1
<1> QED
  BY <1>1, <1>2, <1>3

LEMMA LookTypes ==
    ASSUME TypeOK, NEW p \in Proc, NEW k \in Kind, Look(p, k)
    PROVE  maker' \in [Proc -> [Kind -> MakerState]]
<1> DEFINE mine == {a \in Waiting : k = "immediate" \/ Ended(a)}
           some == {a \in mine : ModeOf(a) = {k} /\ recipe}
           none == {a \in mine : \A m \in ModeOf(a) : m = "off" \/ (m = k /\ ~recipe)}
           of(a) == log[a[1]][a[2]]
           due == IF k = "immediate" THEN {{a} : a \in some}
                  ELSE {{b \in some : of(b).day = of(a).day /\ of(b).group = of(a).group} : a \in some}
           q == [pc |-> "marking", none |-> none, due |-> due]
<1>1. Waiting \subseteq Listing \X Nat
  BY AlertsType DEF Waiting
<1>2. none \subseteq Listing \X Nat /\ some \subseteq Listing \X Nat
  BY <1>1
<1>3. maker' = [maker EXCEPT ![p][k] = q]
  BY DEF Look
<1> HIDE DEF none, some, mine, of
<1>4. due \subseteq SUBSET (Listing \X Nat)
  <2>1. ASSUME NEW D \in due PROVE D \subseteq Listing \X Nat
    BY <1>2, <2>1
  <2> QED
    BY <2>1
<1> HIDE DEF due
<1>5. q \in MakerState
  BY <1>2, <1>4 DEF MakerState
<1> HIDE DEF q
<1> QED
  BY <1>3, <1>5, MakerGoesOn

LEMMA LookStepTypes ==
    ASSUME TypeOK, NEW p \in Proc, LookImmediate(p) \/ LookDaily(p)
    PROVE  TypeOK'
<1>1. CASE LookImmediate(p)
  <2> DEFINE q == [pass[p] EXCEPT !.pc = "making"]
  <2>1. pass[p] \in PassState /\ pass \in [Proc -> PassState]
    BY TypeParts
  <2>2. q \in PassState /\ q.pc = "making" /\ pass' = [pass EXCEPT ![p] = q] /\ pass[p].pc = "detected"
    BY <1>1, <2>1 DEF LookImmediate, PassState
  <2> HIDE DEF q
  <2>3. UNCHANGED <<amazon, setup, data, lock, left, overlap>> /\ Look(p, "immediate")
    BY <1>1 DEF LookImmediate
  <2>4. maker' \in [Proc -> [Kind -> MakerState]]
    BY <2>3, LookTypes DEF Kind
  <2>5. pass' \in [Proc -> PassState] /\ LockOK'
    BY <2>2, <2>3, PassGoesOn
  <2> QED
    BY <2>3, <2>4, <2>5, Untouched, TypePartsNext
<1>2. CASE LookDaily(p)
  <2>1. UNCHANGED <<amazon, setup, data, lock, pass, left, overlap>> /\ Look(p, "daily")
    BY <1>2 DEF LookDaily
  <2>2. maker' \in [Proc -> [Kind -> MakerState]]
    BY <2>1, LookTypes DEF Kind
  <2> QED
    BY <2>1, <2>2, Untouched, TypePartsNext
<1> QED
  BY <1>1, <1>2

LEMMA MakerTypes ==
    ASSUME TypeOK, NEW p \in Proc, NEW k \in Kind, MakerStep(p, k) \/ FailMake(p, k)
    PROVE  TypeOK'
<1>0. maker[p][k] \in MakerState /\ maker \in [Proc -> [Kind -> MakerState]] /\ WorldTypes /\ DataTypes
  BY TypeParts
<1>1. CASE Mark(p, k)
  <2> DEFINE q == [maker[p][k] EXCEPT !.pc = "making", !.none = {}]
  <2>1. q \in MakerState /\ maker' = [maker EXCEPT ![p][k] = q]
    BY <1>0, <1>1 DEF Mark, MakerState
  <2> HIDE DEF q
  <2>2. /\ Dealt(maker[p][k].none \cap Waiting, "none", 0)
        /\ UNCHANGED <<amazon, setup, snap, base, quiet, lock, pass, left, overlap>>
    BY <1>1 DEF Mark
  <2>3. log' \in [Listing -> Seq(LogEntry)]
    BY <2>2, DealtLog
  <2>4. DataTypes'
    BY <1>0, <2>2, <2>3 DEF DataTypes
  <2> QED
    BY <2>1, <2>2, <2>4, MakerGoesOn, Untouched, TypePartsNext
<1>2. CASE Make(p, k)
  <2>1. PICK A \in maker[p][k].due :
          /\ maker' = [maker EXCEPT ![p][k].due = @ \ {A}]
          /\ IF Claimed(A) /\ recipe /\ \A a \in A : log[a[1]][a[2]].group # {}
             THEN Dealt(A, "task", 1) ELSE UNCHANGED log
    BY <1>2 DEF Make
  <2> DEFINE q == [maker[p][k] EXCEPT !.due = @ \ {A}]
  <2>2. q \in MakerState /\ maker' = [maker EXCEPT ![p][k] = q]
    BY <1>0, <2>1 DEF MakerState
  <2> HIDE DEF q
  <2>3. UNCHANGED <<amazon, setup, snap, base, quiet, lock, pass, left, overlap>>
    BY <1>2 DEF Make
  <2>4. log' \in [Listing -> Seq(LogEntry)]
    BY <1>0, <2>1, DealtLog DEF DataTypes
  <2>5. DataTypes'
    BY <1>0, <2>3, <2>4 DEF DataTypes
  <2> QED
    BY <2>2, <2>3, <2>5, MakerGoesOn, Untouched, TypePartsNext
<1>3. CASE EndMake(p, k)
  BY <1>3, NotMakingState, MakerGoesOn, Untouched, TypePartsNext DEF EndMake
<1>4. CASE FailMake(p, k)
  <2>1. PICK A \in maker[p][k].due : maker' = [maker EXCEPT ![p][k].due = @ \ {A}]
    BY <1>4 DEF FailMake
  <2> DEFINE q == [maker[p][k] EXCEPT !.due = @ \ {A}]
  <2>2. q \in MakerState /\ maker' = [maker EXCEPT ![p][k] = q]
    BY <1>0, <2>1 DEF MakerState
  <2> HIDE DEF q
  <2>3. left' \in Budget /\ UNCHANGED <<amazon, setup, data, lock, pass, overlap>>
    BY <1>4, SpendType DEF FailMake
  <2>4. WorldTypes'
    BY <1>0, <2>3 DEF WorldTypes, amazon
  <2> QED
    BY <2>2, <2>3, <2>4, MakerGoesOn, Untouched, TypePartsNext
<1> QED
  BY <1>1, <1>2, <1>3, <1>4 DEF MakerStep

LEMMA CrashTypes ==
    ASSUME TypeOK, NEW p \in Proc, Crash(p)
    PROVE  TypeOK'
<1>1. left' \in Budget /\ Finish(p) /\ UNCHANGED <<amazon, setup, data, overlap>>
  BY SpendType DEF Crash
<1>2. maker' \in [Proc -> [Kind -> MakerState]]
  BY NotMakingState, TypeParts DEF Crash
<1>3. WorldTypes'
  BY <1>1, TypeParts DEF WorldTypes, amazon
<1> QED
  BY <1>1, <1>2, <1>3, PassEnds, Untouched, TypePartsNext

\* Amazon, the administrators and the calendar.
OtherStep ==
    \/ \E l \in Listing, v \in Value : Change(l, v)
    \/ \E g \in Group :
         \/ DeleteGroup(g)
         \/ \E m \in Modes, on \in BOOLEAN, drop, take \in SUBSET Listing :
               SaveGroup(g, m, on, drop, take)
    \/ SetRecipe \/ NextDay

LEMMA OtherTypes ==
    ASSUME TypeOK, OtherStep \/ UNCHANGED vars
    PROVE  TypeOK'
<1>0. UNCHANGED <<lock, pass, maker, overlap, base, quiet>> /\ SetupTypes /\ DataTypes /\ WorldTypes
  BY TypeParts DEF OtherStep, Change, DeleteGroup, SaveGroup, SetRecipe, NextDay, vars, data
<1>1. /\ pass' \in [Proc -> PassState] /\ LockOK'
      /\ maker' \in [Proc -> [Kind -> MakerState]]
  BY <1>0, Untouched
<1>2. WorldTypes'
  <2>1. left' \in Budget
    <3>1. CASE UNCHANGED left
      BY <1>0, <3>1 DEF WorldTypes
    <3>2. CASE Spend("change") \/ Spend("trouble")
      BY <3>2, SpendType
    <3> QED
      BY <3>1, <3>2 DEF OtherStep, Change, DeleteGroup, SaveGroup, SetRecipe, NextDay, vars
  <2>2. world' \in [Listing -> Value] /\ day' \in Nat
    BY <1>0 DEF OtherStep, Change, DeleteGroup, SaveGroup, SetRecipe, NextDay, vars, amazon, WorldTypes
  <2> QED
    BY <1>0, <2>1, <2>2 DEF WorldTypes
<1>3. SetupTypes' /\ DataTypes'
  <2>1. ASSUME NEW g \in Group, DeleteGroup(g) PROVE SetupTypes' /\ DataTypes'
    <3>1. log' \in [Listing -> Seq(LogEntry)]
      BY <2>1, UngroupedLog DEF DeleteGroup
    <3>2. SetupTypes'
      BY <1>0, <2>1 DEF DeleteGroup, SetupTypes
    <3>3. snap' \in [Listing -> SUBSET Value]
      BY <1>0, <2>1 DEF DeleteGroup, DataTypes
    <3> QED
      BY <1>0, <3>1, <3>2, <3>3 DEF DataTypes
  <2>2. ASSUME NEW g \in Group, NEW m \in Modes, NEW on \in BOOLEAN, NEW drop \in SUBSET Listing,
               NEW take \in SUBSET Listing, SaveGroup(g, m, on, drop, take)
        PROVE  SetupTypes' /\ DataTypes'
    <3>1. SetupTypes'
      BY <1>0, <2>2 DEF SaveGroup, SetupTypes
    <3>2. DataTypes'
      BY <1>0, <2>2 DEF SaveGroup, DataTypes
    <3> QED
      BY <3>1, <3>2
  <2>3. CASE SetRecipe
    <3>1. recipe' \in BOOLEAN
      BY <2>3 DEF SetRecipe
    <3> QED
      BY <1>0, <2>3, <3>1 DEF SetRecipe, SetupTypes, DataTypes, data
  <2>4. CASE UNCHANGED setup /\ UNCHANGED data
    BY <2>4, Untouched
  <2> QED
    BY <2>1, <2>2, <2>3, <2>4 DEF OtherStep, Change, NextDay, vars, setup, data
<1> QED
  BY <1>1, <1>2, <1>3, TypePartsNext

LEMMA NextTypes == TypeOK /\ [Next]_vars => TypeOK'
<1> SUFFICES ASSUME TypeOK, [Next]_vars PROVE TypeOK'
  OBVIOUS
<1>1. ASSUME NEW p \in Proc,
             PassStep(p) \/ Expire(p) \/ LookDaily(p) \/ Crash(p)
             \/ \E k \in Kind : MakerStep(p, k) \/ FailMake(p, k)
      PROVE  TypeOK'
  BY <1>1, PassTypes, DetectTypes, LookStepTypes, CrashTypes, MakerTypes DEF PassStep
<1>2. CASE OtherStep \/ UNCHANGED vars
  BY <1>2, OtherTypes
<1> QED
  BY <1>1, <1>2 DEF Next, OtherStep

\* For any processes, listings and groups: the types, and one pass at a time as long as
\* no lock has timed out.
THEOREM TypesHold == Spec => []TypeOK
BY InitTypes, NextTypes, PTL DEF Spec

-----------------------------------------------------------------------------
(* The alert log replays the snapshots.                                    *)

\* An alert leads to something.
ToOK == \A l \in Listing : \A n \in 1 .. Len(log[l]) : log[l][n].to # {}

\* What a pass has read is still saved, as long as it is alone.
ReadOK ==
    \A p \in Proc : pass[p].pc = "read" =>
        \A l \in pass[p].seen :
            /\ pass[p].fresh[l] # {}
            /\ overlap \/ l \in dropped \/ pass[p].saved[l] = snap[l]

\* The two halves of AlertsReplay, for one listing.
Chained(l) ==
    \A n \in 1 .. Len(log[l]) :
        /\ log[l][n].from = (IF n = 1 THEN base[l] ELSE log[l][n - 1].to)
        /\ log[l][n].from # log[l][n].to

LedTo(l) == l \notin dropped => snap[l] = (IF log[l] = <<>> THEN base[l] ELSE log[l][Len(log[l])].to)

LEMMA ReplayParts ==
    AlertsReplay <=> (~overlap => \A l \in Listing \ quiet : Chained(l) /\ LedTo(l))
BY DEF AlertsReplay, Chained, LedTo

ReplayInv == TypeOK /\ ToOK /\ ReadOK /\ AlertsReplay

LEMMA ReplayInit == Init => ReplayInv
<1> SUFFICES ASSUME Init PROVE ReplayInv
  OBVIOUS
<1>1. ToOK /\ AlertsReplay
  <2>1. \A l \in Listing : log[l] = <<>> /\ Len(log[l]) = 0 /\ snap[l] = base[l]
    BY DEF Init
  <2> QED
    BY <2>1 DEF ToOK, AlertsReplay
<1>2. ReadOK
  BY AwayState DEF Init, ReadOK
<1> QED
  BY <1>1, <1>2, InitTypes DEF ReplayInv

LEMMA LogLength ==
    ASSUME TypeOK, NEW l \in Listing
    PROVE  log[l] \in Seq(LogEntry) /\ Len(log[l]) \in Nat /\ (log[l] = <<>> <=> Len(log[l]) = 0)
<1>1. log[l] \in Seq(LogEntry)
  BY DEF TypeOK
<1> QED
  BY <1>1, LenProperties, EmptySeq

\* A step that saves no snapshot and adds no alert.
LEMMA ReplayKept ==
    ASSUME ReplayInv, TypeOK',
           \A l \in Listing :
              /\ Len(log'[l]) = Len(log[l])
              /\ \A n \in 1 .. Len(log[l]) :
                    log'[l][n].from = log[l][n].from /\ log'[l][n].to = log[l][n].to,
           base' = base, quiet' = quiet, dropped \subseteq dropped', overlap => overlap',
           \A l \in Listing \ dropped' : snap'[l] = snap[l],
           \A p \in Proc : pass'[p].pc = "read" => pass'[p] = pass[p]
    PROVE  ToOK' /\ ReadOK' /\ AlertsReplay'
<1>1. ToOK'
  BY DEF ReplayInv, ToOK
<1>2. ReadOK'
  <2> SUFFICES ASSUME NEW p \in Proc, pass'[p].pc = "read", NEW l \in pass'[p].seen
               PROVE  /\ pass'[p].fresh[l] # {}
                      /\ overlap' \/ l \in dropped' \/ pass'[p].saved[l] = snap'[l]
    BY DEF ReadOK
  <2>1. pass'[p] = pass[p] /\ pass[p] \in PassState
    BY DEF ReplayInv, TypeOK
  <2>2. l \in Listing
    BY <2>1 DEF PassState
  <2> QED
    BY <2>1, <2>2 DEF ReplayInv, ReadOK
<1>3. ASSUME NEW l \in Listing \ quiet, ~overlap' PROVE Chained(l)' /\ LedTo(l)'
  <2>1. Chained(l) /\ LedTo(l)
    BY <1>3, ReplayParts DEF ReplayInv
  <2>2. Len(log[l]) \in Nat /\ (log[l] = <<>> <=> Len(log[l]) = 0)
    BY LogLength DEF ReplayInv
  <2>3. log'[l] = <<>> <=> Len(log'[l]) = 0
    <3>1. log'[l] \in Seq(LogEntry)
      BY DEF TypeOK
    <3> QED
      BY <3>1, LenProperties, EmptySeq
  <2>4. ASSUME NEW n \in 1 .. Len(log[l])
        PROVE  /\ log'[l][n].from = (IF n = 1 THEN base[l] ELSE log'[l][n - 1].to)
               /\ log'[l][n].from # log'[l][n].to
    <3>1. /\ log[l][n].from = (IF n = 1 THEN base[l] ELSE log[l][n - 1].to)
          /\ log[l][n].from # log[l][n].to
      BY <2>1 DEF Chained
    <3>2. CASE n = 1
      BY <3>1, <3>2
    <3>3. CASE n # 1
      <4>1. n - 1 \in 1 .. Len(log[l])
        BY <2>2, <3>3
      <4> QED
        BY <3>1, <3>3, <4>1
    <3> QED
      BY <3>2, <3>3
  <2>5. Chained(l)'
    BY <2>4 DEF Chained
  <2>6. LedTo(l)'
    <3>1. CASE Len(log[l]) = 0
      BY <2>1, <2>2, <2>3, <3>1 DEF LedTo
    <3>2. CASE Len(log[l]) # 0
      <4>1. Len(log[l]) \in 1 .. Len(log[l])
        BY <2>2, <3>2
      <4> QED
        BY <2>1, <2>2, <2>3, <3>2, <4>1 DEF LedTo
    <3> QED
      BY <3>1, <3>2
  <2> QED
    BY <2>5, <2>6
<1>4. AlertsReplay'
  BY <1>3 DEF AlertsReplay, Chained, LedTo
<1> QED
  BY <1>1, <1>2, <1>4

LEMMA ReplayRead ==
    ASSUME ReplayInv, TypeOK', NEW p \in Proc, Read(p)
    PROVE  ToOK' /\ ReadOK' /\ AlertsReplay'
<1>1. UNCHANGED <<setup, data, overlap>>
  BY DEF Read
<1>2. ToOK' /\ AlertsReplay'
  <2>1. UNCHANGED <<log, snap, base, quiet, dropped, overlap>>
    BY <1>1 DEF setup, data
  <2>2. ToOK'
    BY <2>1 DEF ReplayInv, ToOK
  <2>3. AlertsReplay
    BY DEF ReplayInv
  <2>4. AlertsReplay'
    <3>1. ASSUME NEW l \in Listing \ quiet, ~overlap PROVE Chained(l)' /\ LedTo(l)'
      <4>1. Chained(l) /\ LedTo(l)
        BY <2>3, <3>1, ReplayParts
      <4> QED
        BY <2>1, <4>1 DEF Chained, LedTo
    <3> QED
      BY <2>1, <3>1 DEF AlertsReplay, Chained, LedTo
  <2> QED
    BY <2>2, <2>4
<1>3. ReadOK'
  <2> DEFINE S == {l \in Listing : pass[p].fresh[l] # {} /\ owner[l] # {}}
             V == [l \in Listing |-> IF l \in S THEN snap[l] ELSE {}]
  <2>1. /\ pass'[p].seen = S /\ pass'[p].saved = V /\ pass'[p].fresh = pass[p].fresh
        /\ \A q \in Proc \ {p} : pass'[q] = pass[q]
    <3>1. pass \in [Proc -> PassState]
      BY DEF ReplayInv, TypeOK
    <3>2. pass[p] \in PassState
      BY <3>1
    <3>3. \A q \in Proc \ {p} : pass'[q] = pass[q]
      BY <3>1 DEF Read
    <3>4. pass'[p] = [pass[p] EXCEPT !.pc = "read", !.seen = S, !.day = day,
                         !.group = [l \in Listing |-> IF l \in S THEN owner[l] ELSE {}],
                         !.mode = [l \in Listing |->
                           IF \E g \in owner[l] : mode[g] = "immediate" THEN "immediate"
                           ELSE IF \E g \in owner[l] : mode[g] = "daily" THEN "daily" ELSE "off"],
                         !.saved = V]
      BY <3>1 DEF Read
    <3> HIDE DEF S, V
    <3> QED
      BY <3>2, <3>3, <3>4 DEF PassState
  <2>2. ASSUME NEW l \in S PROVE pass'[p].fresh[l] # {} /\ pass'[p].saved[l] = snap'[l]
    BY <1>1, <2>1 DEF data
  <2>3. ASSUME NEW q \in Proc, q # p, pass'[q].pc = "read", NEW l \in pass'[q].seen
        PROVE  pass'[q].fresh[l] # {} /\ (overlap' \/ l \in dropped' \/ pass'[q].saved[l] = snap'[l])
    BY <1>1, <2>1, <2>3 DEF data, setup, ReplayInv, ReadOK
  <2> HIDE DEF S, V
  <2> QED
    BY <2>1, <2>2, <2>3 DEF ReadOK
<1> QED
  BY <1>2, <1>3

LEMMA ReplayDetect ==
    ASSUME ReplayInv, TypeOK', NEW p \in Proc, Detect(p)
    PROVE  ToOK' /\ ReadOK' /\ AlertsReplay'
<1>0. /\ pass[p].pc = "read" /\ ~Broken(p) /\ Save(p) /\ UNCHANGED <<setup, lock, overlap>>
      /\ pass' = [pass EXCEPT ![p] = [Away EXCEPT !.pc = "detected"]]
      /\ TypeOK /\ pass \in [Proc -> PassState] /\ pass[p] \in PassState /\ LockOK
  BY TypeParts DEF Detect, ReplayInv
<1>1. /\ Changed(p) \subseteq pass[p].seen /\ pass[p].seen \subseteq Listing
      /\ Changed(p) \cap dropped = {}
      /\ \A l \in Changed(p) : pass[p].fresh[l] # {} /\ pass[p].saved[l] # pass[p].fresh[l]
      /\ \A l \in Alerted(p) : l \in Changed(p) /\ pass[p].saved[l] # {}
  BY <1>0 DEF Changed, Alerted, Broken, PassState, ReplayInv, ReadOK
<1>2. /\ \A l \in Listing : l \notin Alerted(p) => log'[l] = log[l]
      /\ \A l \in Alerted(p) : log'[l] = Append(log[l], NewAlert(p, l)) /\ NewAlert(p, l) \in LogEntry
      /\ \A l \in Listing : snap'[l] = IF l \in Changed(p) THEN pass[p].fresh[l] ELSE snap[l]
      /\ \A l \in Listing : base'[l] = IF l \in Changed(p) /\ pass[p].saved[l] = {}
                                       THEN pass[p].fresh[l] ELSE base[l]
      /\ quiet' = quiet \cup {l \in Changed(p) \ Alerted(p) : pass[p].saved[l] # {}}
  <2>1. /\ snap' = [l \in Listing |-> IF l \in Changed(p) THEN pass[p].fresh[l] ELSE snap[l]]
        /\ Note(p)
    BY <1>0 DEF Save
  <2> QED
    BY <1>0, <2>1, SavedLog DEF Note
<1>3. ASSUME NEW l \in Alerted(p)
      PROVE  /\ Len(log'[l]) = Len(log[l]) + 1 /\ log'[l][Len(log[l]) + 1] = NewAlert(p, l)
             /\ \A n \in 1 .. Len(log[l]) : log'[l][n] = log[l][n]
             /\ NewAlert(p, l).from = pass[p].saved[l] /\ NewAlert(p, l).to = pass[p].fresh[l]
             /\ Len(log[l]) \in Nat /\ log'[l] # <<>> /\ l \in Listing
  <2>1. l \in Listing
    BY <1>1
  <2>2. log[l] \in Seq(LogEntry) /\ Len(log[l]) \in Nat
    BY <1>0, <2>1, LogLength
  <2>3. NewAlert(p, l).from = pass[p].saved[l] /\ NewAlert(p, l).to = pass[p].fresh[l]
    BY DEF NewAlert
  <2> QED
    BY <1>2, <2>1, <2>2, <2>3, AppendProperties
<1>4. ToOK'
  <2> SUFFICES ASSUME NEW l \in Listing, NEW n \in 1 .. Len(log'[l]) PROVE log'[l][n].to # {}
    BY DEF ToOK
  <2>1. CASE l \in Alerted(p)
    <3>1. n \in 1 .. Len(log[l]) \/ n = Len(log[l]) + 1
      BY <1>3, <2>1
    <3>2. pass[p].fresh[l] # {}
      BY <1>1, <2>1
    <3>3. CASE n = Len(log[l]) + 1
      BY <1>3, <2>1, <3>2, <3>3
    <3>4. CASE n \in 1 .. Len(log[l])
      BY <1>3, <2>1, <3>4 DEF ReplayInv, ToOK
    <3> QED
      BY <3>1, <3>3, <3>4
  <2>2. CASE l \notin Alerted(p)
    BY <1>2, <2>2 DEF ReplayInv, ToOK
  <2> QED
    BY <2>1, <2>2
<1>5. ReadOK'
  <2> SUFFICES ASSUME NEW q \in Proc, pass'[q].pc = "read", NEW l \in pass'[q].seen
               PROVE  pass'[q].fresh[l] # {} /\ (overlap' \/ l \in dropped' \/ pass'[q].saved[l] = snap'[l])
    BY DEF ReadOK
  <2>1. q # p /\ pass'[q] = pass[q]
    BY <1>0 DEF Away
  <2>2. overlap
    BY <1>0, <2>1 DEF LockOK
  <2> QED
    BY <1>0, <2>1, <2>2 DEF ReplayInv, ReadOK
<1>6. ASSUME NEW l \in Listing \ quiet', ~overlap PROVE Chained(l)' /\ LedTo(l)'
  <2>1. l \in Listing /\ l \notin quiet /\ Chained(l) /\ LedTo(l)
    BY <1>2, <1>6, ReplayParts DEF ReplayInv
  <2>2. log[l] \in Seq(LogEntry) /\ Len(log[l]) \in Nat /\ (log[l] = <<>> <=> Len(log[l]) = 0)
    BY <1>0, LogLength
  <2>3. CASE l \notin Changed(p)
    <3>1. l \notin Alerted(p) /\ dropped' = dropped
      BY <1>0, <1>1, <2>3 DEF setup
    <3> QED
      BY <1>2, <2>1, <2>3, <3>1 DEF Chained, LedTo
  <2>4. CASE l \in Changed(p) /\ pass[p].saved[l] = {}
    <3>1. l \notin dropped /\ snap[l] = {}
      BY <1>0, <1>1, <1>6, <2>4 DEF ReplayInv, ReadOK
    <3>2. log[l] = <<>>
      <4> SUFFICES ASSUME log[l] # <<>> PROVE FALSE
        OBVIOUS
      <4>1. Len(log[l]) \in 1 .. Len(log[l]) /\ snap[l] = log[l][Len(log[l])].to
        BY <2>1, <2>2, <3>1 DEF LedTo
      <4> QED
        BY <2>1, <3>1, <4>1 DEF ReplayInv, ToOK
    <3>3. log'[l] = <<>> /\ Len(log'[l]) = 0 /\ snap'[l] = pass[p].fresh[l] /\ base'[l] = pass[p].fresh[l]
      BY <1>1, <1>2, <2>2, <2>4, <3>2
    <3> QED
      BY <3>3 DEF Chained, LedTo
  <2>5. CASE l \in Changed(p) /\ pass[p].saved[l] # {}
    <3>1. l \in Alerted(p)
      BY <1>2, <1>6, <2>5
    <3>2. l \notin dropped /\ snap[l] = pass[p].saved[l] /\ pass[p].saved[l] # pass[p].fresh[l]
      BY <1>0, <1>1, <1>6, <2>5 DEF ReplayInv, ReadOK
    <3>3. /\ Len(log'[l]) = Len(log[l]) + 1
          /\ log'[l][Len(log[l]) + 1].from = snap[l] /\ log'[l][Len(log[l]) + 1].to = pass[p].fresh[l]
          /\ \A n \in 1 .. Len(log[l]) : log'[l][n] = log[l][n]
          /\ base'[l] = base[l] /\ snap'[l] = pass[p].fresh[l] /\ log'[l] # <<>>
      BY <1>2, <1>3, <2>5, <3>1, <3>2
    <3>4. ASSUME NEW n \in 1 .. Len(log'[l])
          PROVE  /\ log'[l][n].from = (IF n = 1 THEN base'[l] ELSE log'[l][n - 1].to)
                 /\ log'[l][n].from # log'[l][n].to
      <4>1. CASE n \in 1 .. Len(log[l])
        <5>1. /\ log[l][n].from = (IF n = 1 THEN base[l] ELSE log[l][n - 1].to)
              /\ log[l][n].from # log[l][n].to
          BY <2>1, <4>1 DEF Chained
        <5>2. n # 1 => n - 1 \in 1 .. Len(log[l])
          BY <2>2, <4>1
        <5> QED
          BY <3>3, <4>1, <5>1, <5>2
      <4>2. CASE n = Len(log[l]) + 1 /\ Len(log[l]) = 0
        BY <2>1, <2>2, <3>2, <3>3, <4>2 DEF LedTo
      <4>3. CASE n = Len(log[l]) + 1 /\ Len(log[l]) # 0
        <5>1. Len(log[l]) \in 1 .. Len(log[l]) /\ n # 1 /\ n - 1 = Len(log[l])
          BY <2>2, <4>3
        <5>2. snap[l] = log[l][Len(log[l])].to
          BY <2>1, <2>2, <3>2, <4>3 DEF LedTo
        <5> QED
          BY <3>2, <3>3, <4>3, <5>1, <5>2
      <4> QED
        BY <2>2, <3>3, <4>1, <4>2, <4>3
    <3> QED
      BY <3>3, <3>4 DEF Chained, LedTo
  <2> QED
    BY <2>3, <2>4, <2>5
<1>7. AlertsReplay'
  BY <1>0, <1>6 DEF AlertsReplay, Chained, LedTo
<1> QED
  BY <1>4, <1>5, <1>7

\* No other step of a process saves a snapshot.
LEMMA ReplayProcess ==
    ASSUME ReplayInv, TypeOK', NEW p \in Proc,
           \/ TryLock(p) \/ Ingest(p) \/ FailDetect(p) \/ LookImmediate(p) \/ EndPass(p)
           \/ Expire(p) \/ LookDaily(p) \/ Crash(p)
    PROVE  ToOK' /\ ReadOK' /\ AlertsReplay'
<1>1. UNCHANGED <<setup, data>> /\ (overlap => overlap')
  BY DEF TryLock, Ingest, FailDetect, LookImmediate, EndPass, Expire, LookDaily, Crash
<1>2. ASSUME NEW q \in Proc, pass'[q].pc = "read" PROVE pass'[q] = pass[q]
  <2>1. pass \in [Proc -> PassState] /\ pass[p] \in PassState
    BY DEF ReplayInv, TypeOK
  <2>2. q # p => pass'[q] = pass[q]
    BY <2>1 DEF TryLock, Ingest, FailDetect, LookImmediate, EndPass, Expire, LookDaily, Crash, Finish
  <2>3. pass' = pass \/ pass'[p].pc \in {"locked", "fetched", "making", "idle"}
    <3>1. CASE TryLock(p)
      BY <2>1, <3>1 DEF TryLock, PassState
    <3>2. CASE Ingest(p)
      <4>1. PICK f : pass' = [pass EXCEPT ![p].pc = "fetched", ![p].fresh = f]
        BY <3>2 DEF Ingest
      <4> QED
        BY <2>1, <4>1 DEF PassState
    <3>3. CASE LookImmediate(p)
      BY <2>1, <3>3 DEF LookImmediate, PassState
    <3>4. CASE FailDetect(p) \/ EndPass(p) \/ Crash(p)
      BY <2>1, <3>4, AwayState DEF FailDetect, EndPass, Crash, Finish
    <3>5. CASE Expire(p) \/ LookDaily(p)
      BY <3>5 DEF Expire, LookDaily
    <3> QED
      BY <3>1, <3>2, <3>3, <3>4, <3>5
  <2> QED
    BY <1>2, <2>2, <2>3
<1>3. /\ base' = base /\ quiet' = quiet /\ dropped' = dropped /\ snap' = snap /\ log' = log
  BY <1>1 DEF setup, data
<1> QED
  BY <1>1, <1>2, <1>3, ReplayKept

LEMMA ReplayMaker ==
    ASSUME ReplayInv, TypeOK', NEW p \in Proc, NEW k \in Kind, MakerStep(p, k) \/ FailMake(p, k)
    PROVE  ToOK' /\ ReadOK' /\ AlertsReplay'
<1>1. UNCHANGED <<setup, snap, base, quiet, pass, overlap>>
  BY DEF MakerStep, Mark, Make, EndMake, FailMake, data
<1>3. SameSteps
  <2>0. TypeOK /\ 0 \in Nat /\ 1 \in Nat /\ "none" \in {"task", "none"} /\ "task" \in {"task", "none"}
    BY DEF ReplayInv
  <2>1. CASE Mark(p, k)
    <3>1. Dealt(maker[p][k].none \cap Waiting, "none", 0)
      BY <2>1 DEF Mark
    <3> QED
      BY <2>0, <3>1, DealtLog
  <2>2. CASE Make(p, k)
    <3>1. PICK A \in maker[p][k].due : Dealt(A, "task", 1) \/ UNCHANGED log
      BY <2>2 DEF Make
    <3>2. CASE Dealt(A, "task", 1)
      BY <2>0, <3>2, DealtLog
    <3> QED
      BY <3>1, <3>2 DEF SameSteps
  <2>3. CASE EndMake(p, k) \/ FailMake(p, k)
    BY <2>3 DEF EndMake, FailMake, data, SameSteps
  <2> QED
    BY <2>1, <2>2, <2>3 DEF MakerStep
<1> QED
  BY <1>1, <1>3, ReplayKept DEF setup, SameSteps

LEMMA ReplayOther ==
    ASSUME ReplayInv, TypeOK', OtherStep \/ UNCHANGED vars
    PROVE  ToOK' /\ ReadOK' /\ AlertsReplay'
<1>1. CASE \/ \E l \in Listing, v \in Value : Change(l, v)
           \/ SetRecipe \/ NextDay \/ UNCHANGED vars
  <2>1. UNCHANGED <<dropped, snap, log, base, quiet, pass, overlap>>
    BY <1>1 DEF Change, SetRecipe, NextDay, vars, setup, data
  <2> QED
    BY <2>1, ReplayKept
<1>2. ASSUME NEW g \in Group, NEW m \in Modes, NEW on \in BOOLEAN, NEW drop \in SUBSET Listing,
             NEW take \in SUBSET Listing, SaveGroup(g, m, on, drop, take)
      PROVE  ToOK' /\ ReadOK' /\ AlertsReplay'
  <2>1. /\ UNCHANGED <<log, base, quiet, pass, overlap>> /\ dropped' = dropped \cup drop
        /\ \A l \in Listing \ dropped' : snap'[l] = snap[l]
    BY <1>2 DEF SaveGroup
  <2> QED
    BY <2>1, ReplayKept
<1>3. ASSUME NEW g \in Group, DeleteGroup(g) PROVE ToOK' /\ ReadOK' /\ AlertsReplay'
  <2>1. /\ UNCHANGED <<base, quiet, pass, overlap>> /\ dropped \subseteq dropped' /\ Ungrouped(g)
        /\ \A l \in Listing \ dropped' : snap'[l] = snap[l]
    BY <1>3 DEF DeleteGroup
  <2> QED
    BY <2>1, UngroupedLog, ReplayKept DEF ReplayInv, SameSteps
<1> QED
  BY <1>1, <1>2, <1>3 DEF OtherStep

LEMMA ReplayNext == ReplayInv /\ [Next]_vars => ReplayInv'
<1> SUFFICES ASSUME ReplayInv, [Next]_vars PROVE ToOK' /\ ReadOK' /\ AlertsReplay'
  BY NextTypes DEF ReplayInv
<1>0. TypeOK'
  BY NextTypes DEF ReplayInv
<1>1. ASSUME NEW p \in Proc,
             PassStep(p) \/ Expire(p) \/ LookDaily(p) \/ Crash(p)
             \/ \E k \in Kind : MakerStep(p, k) \/ FailMake(p, k)
      PROVE  ToOK' /\ ReadOK' /\ AlertsReplay'
  BY <1>0, <1>1, ReplayRead, ReplayDetect, ReplayProcess, ReplayMaker DEF PassStep
<1>2. CASE OtherStep \/ UNCHANGED vars
  BY <1>0, <1>2, ReplayOther
<1> QED
  BY <1>1, <1>2 DEF Next, OtherStep

\* For any processes, listings and groups: as long as no lock has timed out, the alerts
\* of a listing watched all along are the steps from one saved snapshot to the next.
THEOREM ReplayTheorem == Spec => []AlertsReplay
<1>1. ReplayInv => AlertsReplay
  BY DEF ReplayInv
<1> QED
  BY <1>1, ReplayInit, ReplayNext, PTL DEF Spec

-----------------------------------------------------------------------------
(* The makers implement the alert book.                                    *)

OutcomeSet == {"waiting", "task", "none"}

\* The tasks of an alert and what became of it fit.
OutcomeOK ==
    \A l \in Listing : \A n \in 1 .. Len(log[l]) :
        log[l][n].tasks = IF log[l][n].outcome = "task" THEN 1 ELSE 0

BookInv == TypeOK /\ OutcomeOK

\* What the book holds of a log.
LEMMA BookPage ==
    ASSUME NEW s \in Seq(LogEntry),
           \A n \in 1 .. Len(s) : s[n].tasks = IF s[n].outcome = "task" THEN 1 ELSE 0
    PROVE  /\ DOMAIN s = 1 .. Len(s)
           /\ [n \in DOMAIN s |-> Outcome(s[n])] \in Seq(OutcomeSet)
           /\ Len([n \in DOMAIN s |-> Outcome(s[n])]) = Len(s)
           /\ \A n \in 1 .. Len(s) : [i \in DOMAIN s |-> Outcome(s[i])][n] = s[n].outcome
<1>1. DOMAIN s = 1 .. Len(s) /\ Len(s) \in Nat
  BY LenProperties
<1>2. ASSUME NEW n \in 1 .. Len(s) PROVE Outcome(s[n]) = s[n].outcome /\ s[n].outcome \in OutcomeSet
  <2>1. s[n] \in LogEntry
    BY ElementOfSeq
  <2> QED
    BY <2>1 DEF Outcome, LogEntry, OutcomeSet
<1> DEFINE t == [n \in DOMAIN s |-> Outcome(s[n])]
<1>3. t \in [1 .. Len(s) -> OutcomeSet] /\ \A n \in 1 .. Len(s) : t[n] = s[n].outcome
  BY <1>1, <1>2
<1> HIDE DEF t
<1>4. t \in Seq(OutcomeSet)
  BY <1>1, <1>3, SeqDef
<1>5. Len(t) = Len(s)
  BY <1>1, <1>3, <1>4, LenProperties
<1> QED
  BY <1>1, <1>3, <1>4, <1>5 DEF t

LEMMA BookPages ==
    ASSUME BookInv
    PROVE  \A l \in Listing :
              /\ DOMAIN log[l] = 1 .. Len(log[l]) /\ Len(log[l]) \in Nat
              /\ Outcomes[l] \in Seq(OutcomeSet) /\ Len(Outcomes[l]) = Len(log[l])
              /\ DOMAIN Outcomes[l] = 1 .. Len(log[l])
              /\ \A n \in 1 .. Len(log[l]) : Outcomes[l][n] = log[l][n].outcome
<1> SUFFICES ASSUME NEW l \in Listing
             PROVE  /\ DOMAIN log[l] = 1 .. Len(log[l]) /\ Len(log[l]) \in Nat
                    /\ Outcomes[l] \in Seq(OutcomeSet) /\ Len(Outcomes[l]) = Len(log[l])
                    /\ DOMAIN Outcomes[l] = 1 .. Len(log[l])
                    /\ \A n \in 1 .. Len(log[l]) : Outcomes[l][n] = log[l][n].outcome
  OBVIOUS
<1>1. log[l] \in Seq(LogEntry)
  BY DEF BookInv, TypeOK
<1>2. \A n \in 1 .. Len(log[l]) : log[l][n].tasks = IF log[l][n].outcome = "task" THEN 1 ELSE 0
  BY DEF BookInv, OutcomeOK
<1> DEFINE t == [n \in DOMAIN log[l] |-> Outcome(log[l][n])]
<1>3. /\ DOMAIN log[l] = 1 .. Len(log[l]) /\ t \in Seq(OutcomeSet) /\ Len(t) = Len(log[l])
      /\ \A n \in 1 .. Len(log[l]) : t[n] = log[l][n].outcome
  BY <1>1, <1>2, BookPage
<1>4. Outcomes[l] = t
  BY DEF Outcomes
<1> HIDE DEF t
<1> QED
  BY <1>1, <1>3, <1>4, LenProperties

\* The same, after a step.
LEMMA BookPagesNext ==
    ASSUME BookInv'
    PROVE  \A l \in Listing :
              /\ DOMAIN log'[l] = 1 .. Len(log'[l]) /\ Len(log'[l]) \in Nat
              /\ Outcomes'[l] \in Seq(OutcomeSet) /\ Len(Outcomes'[l]) = Len(log'[l])
              /\ DOMAIN Outcomes'[l] = 1 .. Len(log'[l])
              /\ \A n \in 1 .. Len(log'[l]) : Outcomes'[l][n] = log'[l][n].outcome
<1> SUFFICES ASSUME NEW l \in Listing
             PROVE  /\ DOMAIN log'[l] = 1 .. Len(log'[l]) /\ Len(log'[l]) \in Nat
                    /\ Outcomes'[l] \in Seq(OutcomeSet) /\ Len(Outcomes'[l]) = Len(log'[l])
                    /\ DOMAIN Outcomes'[l] = 1 .. Len(log'[l])
                    /\ \A n \in 1 .. Len(log'[l]) : Outcomes'[l][n] = log'[l][n].outcome
  OBVIOUS
<1>1. log'[l] \in Seq(LogEntry)
  BY DEF BookInv, TypeOK
<1>2. \A n \in 1 .. Len(log'[l]) : log'[l][n].tasks = IF log'[l][n].outcome = "task" THEN 1 ELSE 0
  BY DEF BookInv, OutcomeOK
<1> DEFINE t == [n \in DOMAIN log'[l] |-> Outcome(log'[l][n])]
<1>3. /\ DOMAIN log'[l] = 1 .. Len(log'[l]) /\ t \in Seq(OutcomeSet) /\ Len(t) = Len(log'[l])
      /\ \A n \in 1 .. Len(log'[l]) : t[n] = log'[l][n].outcome
  BY <1>1, <1>2, BookPage
<1>4. Outcomes'[l] = t
  BY DEF Outcomes
<1> HIDE DEF t
<1> QED
  BY <1>1, <1>3, <1>4, LenProperties

\* Some waiting alerts are dealt with.
LEMMA DealSteps ==
    ASSUME BookInv, TypeOK', NEW A, NEW outcome \in {"task", "none"}, NEW n \in {0, 1},
           n = (IF outcome = "task" THEN 1 ELSE 0), A \subseteq Waiting,
           SameSteps, DealtAs(A, outcome, n)
    PROVE  OutcomeOK' /\ (Book!Next \/ UNCHANGED Outcomes)
<1>1. SameSteps /\ DealtAs(A, outcome, n) /\ TypeOK /\ log \in [Listing -> Seq(LogEntry)]
  BY DEF BookInv, TypeOK
<1>2. \A a \in A : /\ a \in Listing \X Nat /\ a = <<a[1], a[2]>>
                   /\ a[1] \in Listing /\ a[2] \in 1 .. Len(log[a[1]])
                   /\ log[a[1]][a[2]].outcome = "waiting"
  <2> SUFFICES ASSUME NEW a \in A
               PROVE  /\ a \in Listing \X Nat /\ a = <<a[1], a[2]>>
                      /\ a[1] \in Listing /\ a[2] \in 1 .. Len(log[a[1]])
                      /\ log[a[1]][a[2]].outcome = "waiting"
    OBVIOUS
  <2>1. a \in Alerts /\ log[a[1]][a[2]].outcome = "waiting"
    BY DEF Waiting
  <2>2. PICK l \in Listing : a \in {l} \X DOMAIN log[l]
    BY <2>1 DEF Alerts
  <2>3. DOMAIN log[l] = 1 .. Len(log[l]) /\ Len(log[l]) \in Nat
    BY BookPages
  <2> QED
    BY <2>1, <2>2, <2>3
<1>3. OutcomeOK'
  <2> SUFFICES ASSUME NEW l \in Listing, NEW i \in 1 .. Len(log'[l])
               PROVE  log'[l][i].tasks = IF log'[l][i].outcome = "task" THEN 1 ELSE 0
    BY DEF OutcomeOK
  <2>1. /\ i \in 1 .. Len(log[l])
        /\ log[l][i].tasks = IF log[l][i].outcome = "task" THEN 1 ELSE 0
    BY <1>1 DEF SameSteps, BookInv, OutcomeOK
  <2>2. CASE <<l, i>> \in A
    <3>1. log[l][i].outcome = "waiting" /\ log[l][i].tasks = 0
      BY <1>2, <2>1, <2>2
    <3>2. log'[l][i].outcome = outcome /\ log'[l][i].tasks = 0 + n
      BY <1>1, <2>1, <2>2, <3>1 DEF DealtAs
    <3> QED
      BY <3>2
  <2>3. CASE <<l, i>> \notin A
    BY <1>1, <2>1, <2>3 DEF DealtAs
  <2> QED
    BY <2>2, <2>3
<1>4. \A l \in Listing :
         /\ DOMAIN Outcomes'[l] = 1 .. Len(log[l]) /\ DOMAIN Outcomes[l] = 1 .. Len(log[l])
         /\ Outcomes'[l] \in Seq(OutcomeSet) /\ Outcomes[l] \in Seq(OutcomeSet)
         /\ \A i \in 1 .. Len(log[l]) :
               Outcomes'[l][i] = IF <<l, i>> \in A THEN outcome ELSE Outcomes[l][i]
  <2>1. BookInv'
    BY <1>3 DEF BookInv
  <2> SUFFICES ASSUME NEW l \in Listing
               PROVE  /\ DOMAIN Outcomes'[l] = 1 .. Len(log[l]) /\ DOMAIN Outcomes[l] = 1 .. Len(log[l])
                      /\ Outcomes'[l] \in Seq(OutcomeSet) /\ Outcomes[l] \in Seq(OutcomeSet)
                      /\ \A i \in 1 .. Len(log[l]) :
                            Outcomes'[l][i] = IF <<l, i>> \in A THEN outcome ELSE Outcomes[l][i]
    OBVIOUS
  <2>2. /\ DOMAIN Outcomes[l] = 1 .. Len(log[l]) /\ Outcomes[l] \in Seq(OutcomeSet)
        /\ \A i \in 1 .. Len(log[l]) : Outcomes[l][i] = log[l][i].outcome
    BY BookPages
  <2>3. /\ DOMAIN Outcomes'[l] = 1 .. Len(log'[l]) /\ Outcomes'[l] \in Seq(OutcomeSet)
        /\ \A i \in 1 .. Len(log'[l]) : Outcomes'[l][i] = log'[l][i].outcome
    BY <2>1, BookPagesNext
  <2>4. /\ Len(log'[l]) = Len(log[l])
        /\ \A i \in 1 .. Len(log[l]) :
              log'[l][i].outcome = IF <<l, i>> \in A THEN outcome ELSE log[l][i].outcome
    BY <1>1 DEF SameSteps, DealtAs
  <2> QED
    BY <2>2, <2>3, <2>4
<1>5. Outcomes' = [l \in Listing |-> [i \in DOMAIN Outcomes[l] |->
                      IF <<l, i>> \in A THEN outcome ELSE Outcomes[l][i]]]
  <2>1. ASSUME NEW l \in Listing
        PROVE  Outcomes'[l] = [i \in DOMAIN Outcomes[l] |->
                                  IF <<l, i>> \in A THEN outcome ELSE Outcomes[l][i]]
    <3>1. Outcomes'[l] = [i \in DOMAIN Outcomes'[l] |-> Outcomes'[l][i]]
      BY <1>4, LenProperties
    <3> QED
      BY <1>4, <3>1
  <2>2. Outcomes' = [l \in Listing |-> Outcomes'[l]]
    BY DEF Outcomes
  <2> QED
    BY <2>1, <2>2
<1>6. CASE A # {}
  <2>1. A \subseteq Book!Entries
    BY <1>2, <1>4 DEF Book!Entries
  <2>2. \A a \in A : Outcomes[a[1]][a[2]] = "waiting"
    BY <1>2, BookPages
  <2>3. Book!Deal(A, outcome)
    BY <1>5, <1>6, <2>2 DEF Book!Deal
  <2> QED
    BY <1>3, <2>1, <2>3 DEF Book!Next
<1>7. CASE A = {}
  <2>1. \A l \in Listing : Outcomes'[l] = Outcomes[l]
    <3> SUFFICES ASSUME NEW l \in Listing PROVE Outcomes'[l] = Outcomes[l]
      OBVIOUS
    <3>1. \A i \in 1 .. Len(log[l]) : Outcomes'[l][i] = Outcomes[l][i]
      BY <1>4, <1>7
    <3> QED
      BY <1>4, <3>1, LenProperties
  <2>2. Outcomes' = [l \in Listing |-> Outcomes'[l]] /\ Outcomes = [l \in Listing |-> Outcomes[l]]
    BY DEF Outcomes
  <2> QED
    BY <1>3, <2>1, <2>2
<1> QED
  BY <1>6, <1>7

\* A detection logs its alerts.
LEMMA LogSteps ==
    ASSUME BookInv, TypeOK', NEW p \in Proc, Save(p)
    PROVE  OutcomeOK' /\ (Book!Next \/ UNCHANGED Outcomes)
<1>1. /\ TypeOK /\ Alerted(p) \subseteq Listing
      /\ \A l \in Listing : l \notin Alerted(p) => log'[l] = log[l]
      /\ \A l \in Alerted(p) : log'[l] = Append(log[l], NewAlert(p, l)) /\ NewAlert(p, l) \in LogEntry
  <2>1. TypeOK
    BY DEF BookInv
  <2> QED
    BY <2>1, SavedLog
<1>2. ASSUME NEW l \in Alerted(p)
      PROVE  /\ Len(log'[l]) = Len(log[l]) + 1 /\ Len(log[l]) \in Nat
             /\ log'[l][Len(log[l]) + 1].outcome = "waiting" /\ log'[l][Len(log[l]) + 1].tasks = 0
             /\ \A n \in 1 .. Len(log[l]) : log'[l][n] = log[l][n]
  <2>1. log[l] \in Seq(LogEntry) /\ Len(log[l]) \in Nat
    BY <1>1, LogLength
  <2>2. NewAlert(p, l).outcome = "waiting" /\ NewAlert(p, l).tasks = 0
    BY DEF NewAlert
  <2>3. NewAlert(p, l) \in LogEntry /\ log'[l] = Append(log[l], NewAlert(p, l))
    BY <1>1
  <2>4. /\ Len(log'[l]) = Len(log[l]) + 1 /\ log'[l][Len(log[l]) + 1] = NewAlert(p, l)
        /\ \A n \in 1 .. Len(log[l]) : log'[l][n] = log[l][n]
    BY <2>1, <2>3, AppendProperties
  <2> QED
    BY <2>1, <2>2, <2>4
<1>3. OutcomeOK'
  <2> SUFFICES ASSUME NEW l \in Listing, NEW i \in 1 .. Len(log'[l])
               PROVE  log'[l][i].tasks = IF log'[l][i].outcome = "task" THEN 1 ELSE 0
    BY DEF OutcomeOK
  <2>1. CASE l \notin Alerted(p)
    BY <1>1, <2>1 DEF BookInv, OutcomeOK
  <2>2. CASE l \in Alerted(p)
    <3>1. i \in 1 .. Len(log[l]) \/ i = Len(log[l]) + 1
      BY <1>2, <2>2
    <3>2. CASE i \in 1 .. Len(log[l])
      BY <1>2, <2>2, <3>2 DEF BookInv, OutcomeOK
    <3>3. CASE i = Len(log[l]) + 1
      BY <1>2, <2>2, <3>3
    <3> QED
      BY <3>1, <3>2, <3>3
  <2> QED
    BY <2>1, <2>2
<1>4. BookInv'
  BY <1>3 DEF BookInv
<1>5. ASSUME NEW l \in Listing, l \notin Alerted(p) PROVE Outcomes'[l] = Outcomes[l]
  BY <1>1, <1>5 DEF Outcomes
<1>6. ASSUME NEW l \in Alerted(p) PROVE Outcomes'[l] = Append(Outcomes[l], "waiting")
  <2>1. /\ Outcomes[l] \in Seq(OutcomeSet) /\ Len(Outcomes[l]) = Len(log[l])
        /\ \A n \in 1 .. Len(log[l]) : Outcomes[l][n] = log[l][n].outcome
    BY <1>1, BookPages
  <2>2. /\ Outcomes'[l] \in Seq(OutcomeSet) /\ Len(Outcomes'[l]) = Len(log'[l])
        /\ \A n \in 1 .. Len(log'[l]) : Outcomes'[l][n] = log'[l][n].outcome
    BY <1>1, <1>4, BookPagesNext
  <2> DEFINE s == Append(Outcomes[l], "waiting")
  <2>3. /\ s \in Seq(OutcomeSet) /\ Len(s) = Len(log[l]) + 1 /\ s[Len(log[l]) + 1] = "waiting"
        /\ \A n \in 1 .. Len(log[l]) : s[n] = Outcomes[l][n]
    <3>1. "waiting" \in OutcomeSet
      BY DEF OutcomeSet
    <3> QED
      BY <2>1, <3>1, AppendProperties
  <2> HIDE DEF s
  <2>4. ASSUME NEW n \in 1 .. Len(s) PROVE Outcomes'[l][n] = s[n]
    <3>1. n \in 1 .. Len(log[l]) \/ n = Len(log[l]) + 1
      BY <1>2, <2>3
    <3> QED
      BY <1>2, <2>1, <2>2, <2>3, <3>1
  <2>5. Len(Outcomes'[l]) = Len(s)
    BY <1>2, <2>2, <2>3
  <2>6. Outcomes'[l] = s
    BY <2>2, <2>3, <2>4, <2>5, SeqEqual
  <2> QED
    BY <2>6 DEF s
<1>7. /\ Outcomes' = [l \in Listing |-> Outcomes'[l]] /\ Outcomes = [l \in Listing |-> Outcomes[l]]
  BY DEF Outcomes
<1>8. CASE Alerted(p) # {}
  <2>1. Outcomes' = [l \in Listing |->
                        IF l \in Alerted(p) THEN Append(Outcomes[l], "waiting") ELSE Outcomes[l]]
    BY <1>5, <1>6, <1>7
  <2>2. Book!Log(Alerted(p))
    BY <1>8, <2>1 DEF Book!Log
  <2> QED
    BY <1>1, <1>3, <2>2 DEF Book!Next
<1>9. CASE Alerted(p) = {}
  BY <1>3, <1>5, <1>7, <1>9
<1> QED
  BY <1>8, <1>9

LEMMA BookSteps ==
    ASSUME BookInv, [Next]_vars
    PROVE  BookInv' /\ (Book!Next \/ UNCHANGED Outcomes)
<1>0. TypeOK /\ TypeOK'
  BY NextTypes DEF BookInv
<1> SUFFICES OutcomeOK' /\ (Book!Next \/ UNCHANGED Outcomes)
  BY <1>0 DEF BookInv
<1>1. ASSUME UNCHANGED log PROVE OutcomeOK' /\ (Book!Next \/ UNCHANGED Outcomes)
  BY <1>1 DEF BookInv, OutcomeOK, Outcomes
<1>2. ASSUME NEW p \in Proc, PassStep(p) \/ Expire(p) \/ LookDaily(p) \/ Crash(p)
      PROVE  OutcomeOK' /\ (Book!Next \/ UNCHANGED Outcomes)
  <2>1. CASE Detect(p)
    BY <1>0, <2>1, LogSteps DEF Detect
  <2>2. CASE ~Detect(p)
    <3>1. UNCHANGED log
      BY <1>2, <2>2 DEF PassStep, TryLock, Ingest, Read, FailDetect, LookImmediate, EndPass,
                        Expire, LookDaily, Crash, data
    <3> QED
      BY <1>1, <3>1
  <2> QED
    BY <2>1, <2>2
<1>3. ASSUME NEW p \in Proc, NEW k \in Kind, MakerStep(p, k) \/ FailMake(p, k)
      PROVE  OutcomeOK' /\ (Book!Next \/ UNCHANGED Outcomes)
  <2>1. CASE Mark(p, k)
    <3> DEFINE A == maker[p][k].none \cap Waiting
    <3>1. Dealt(A, "none", 0)
      BY <2>1 DEF Mark
    <3>2. A \subseteq Waiting
      OBVIOUS
    <3> HIDE DEF A
    <3>3. SameSteps /\ DealtAs(A, "none", 0)
      BY <1>0, <3>1, DealtLog
    <3> QED
      BY <1>0, <3>2, <3>3, DealSteps
  <2>2. CASE Make(p, k)
    <3>1. PICK A \in maker[p][k].due :
             (Claimed(A) /\ Dealt(A, "task", 1)) \/ UNCHANGED log
      BY <2>2 DEF Make
    <3>2. CASE Claimed(A) /\ Dealt(A, "task", 1)
      <4>1. SameSteps /\ DealtAs(A, "task", 1)
        BY <1>0, <3>2, DealtLog
      <4>2. A \subseteq Waiting
        BY <3>2 DEF Claimed
      <4> QED
        BY <1>0, <4>1, <4>2, DealSteps
    <3> QED
      BY <1>1, <3>1, <3>2
  <2>3. CASE EndMake(p, k) \/ FailMake(p, k)
    BY <1>1, <2>3 DEF EndMake, FailMake, data
  <2> QED
    BY <1>3, <2>1, <2>2, <2>3 DEF MakerStep
<1>4. CASE OtherStep \/ UNCHANGED vars
  <2>1. ASSUME NEW g \in Group, DeleteGroup(g)
        PROVE  OutcomeOK' /\ (Book!Next \/ UNCHANGED Outcomes)
    <3>1. SameSteps /\ DealtAs({}, "none", 0)
      BY <1>0, <2>1, UngroupedLog DEF DeleteGroup
    <3> QED
      BY <1>0, <3>1, DealSteps
  <2>2. CASE UNCHANGED log
    BY <1>1, <2>2
  <2> QED
    BY <1>4, <2>1, <2>2 DEF OtherStep, Change, SaveGroup, SetRecipe, NextDay, vars, data
<1> QED
  BY <1>2, <1>3, <1>4 DEF Next, OtherStep

LEMMA BookInit == Init => BookInv /\ Book!Init
<1> SUFFICES ASSUME Init PROVE OutcomeOK /\ Book!Init
  BY InitTypes DEF BookInv
<1>1. \A l \in Listing : log[l] = <<>> /\ Len(log[l]) = 0
  BY DEF Init
<1>2. OutcomeOK
  BY <1>1 DEF OutcomeOK
<1>3. ASSUME NEW l \in Listing PROVE Outcomes[l] = <<>>
  <2>1. Outcomes[l] \in Seq(OutcomeSet) /\ Len(Outcomes[l]) = 0
    BY <1>1, <1>2, InitTypes, BookPages DEF BookInv
  <2> QED
    BY <2>1, EmptySeq
<1>4. Outcomes = [l \in Listing |-> Outcomes[l]]
  BY DEF Outcomes
<1> QED
  BY <1>2, <1>3, <1>4 DEF Book!Init

\* For any processes, listings and groups, whatever times out, fails or is deleted:
\* each alert is logged at the end of its listing's log and dealt with once and for good.
THEOREM BookTheorem == Spec => BookSpec
<1>1. BookInv /\ [Next]_vars => [Book!Next]_Outcomes
  BY BookSteps
<1>2. BookInv /\ [Next]_vars => BookInv'
  BY BookSteps
<1> QED
  BY <1>1, <1>2, BookInit, PTL DEF Spec, BookSpec, Book!Spec
=============================================================================
