------------------------- MODULE OccurrencesProofs -------------------------
(***************************************************************************)
(* Proofs about Occurrences, for any series, passes and clicks, any length *)
(* of the series and any lead: what is made is made once and in its turn.  *)
(***************************************************************************)
EXTENDS Occurrences, TLAPS

IInv == TypeOK /\ OnceEach /\ ClaimsOK

\* What was read as due is a place of the series.
LEMMA DueInSeq ==
    ASSUME NEW s \in Series, NEW t
    PROVE  Due(s, t) \subseteq Seq
BY DEF Due, FixedDue, RelativeDue

\* A relative series goes on from an occurrence that is completed.
LEMMA RelativeInTurn ==
    ASSUME TypeOK, ClaimsOK, NEW s \in Series, NEW t, NEW n \in RelativeDue(s, t)
    PROVE  n = 1 \/ <<s, n - 1>> \in finished
<1>1. CASE n = 1
  BY <1>1
<1>2. CASE n - 1 \in rows[s] /\ task[s][n - 1] = "done"
  <2>1. n - 1 \in Seq
    BY <1>2 DEF TypeOK
  <2> QED
    BY <1>2, <2>1 DEF ClaimsOK
<1> QED
  BY <1>1, <1>2 DEF RelativeDue

-----------------------------------------------------------------------------
(* Making an occurrence keeps types and claims.                            *)

LEMMA MakeKeeps ==
    ASSUME IInv, NEW s \in Series, NEW n \in Seq, Exists(s), Make(s, n)
    PROVE  /\ rows' \in [Series -> SUBSET Seq]
           /\ task' \in [Series -> [Seq -> {"none", "open", "done", "gone"}]]
           /\ made' \in [Series -> [Seq -> Nat]]
           /\ UNCHANGED <<rule, doneAt, gone, finished>>
           /\ OnceEach'
           /\ \A r \in Series, m \in Seq :
                 /\ (m \in rows[r] \/ ~Exists(r) \/ made[r][m] <= gone[r][m])'
                 /\ (task[r][m] \in {"open", "done"} => m \in rows[r])'
                 /\ (task[r][m] = "done" => <<r, m>> \in finished)'
<1>1. CASE n \in rows[s]
  <2>1. UNCHANGED <<db, log>>
    BY <1>1 DEF Make
  <2> QED
    BY <2>1 DEF IInv, TypeOK, OnceEach, ClaimsOK, Exists, db, log
<1>2. CASE n \notin rows[s]
  <2>1. /\ rows' = [rows EXCEPT ![s] = @ \cup {n}]
        /\ task' = [task EXCEPT ![s][n] = "open"]
        /\ made' = [made EXCEPT ![s][n] = @ + 1]
        /\ UNCHANGED <<rule, doneAt, gone, finished>>
    BY <1>2 DEF Make
  <2>2. made[s][n] <= gone[s][n]
    BY <1>2 DEF IInv, ClaimsOK
  <2>3. rows' \in [Series -> SUBSET Seq]
    BY <2>1 DEF IInv, TypeOK
  <2>4. task' \in [Series -> [Seq -> {"none", "open", "done", "gone"}]]
    BY <2>1 DEF IInv, TypeOK
  <2>5. made' \in [Series -> [Seq -> Nat]]
    BY <2>1 DEF IInv, TypeOK
  <2>6. ASSUME NEW r \in Series, NEW m \in Seq
        PROVE  /\ made'[r][m] <= 1 + gone[r][m]
               /\ m \in rows'[r] \/ ~Exists(r)' \/ made'[r][m] <= gone[r][m]
               /\ task'[r][m] \in {"open", "done"} => m \in rows'[r]
               /\ task'[r][m] = "done" => <<r, m>> \in finished
    <3>1. CASE r = s /\ m = n
      BY <2>1, <2>2, <3>1 DEF IInv, TypeOK
    <3>2. CASE ~(r = s /\ m = n)
      <4>1. /\ made'[r][m] = made[r][m] /\ task'[r][m] = task[r][m]
            /\ m \in rows'[r] <=> m \in rows[r]
        BY <2>1, <3>2 DEF IInv, TypeOK
      <4>2. Exists(r)' => Exists(r)
        BY <2>1 DEF Exists, IInv, TypeOK
      <4> QED
        BY <4>1, <4>2 DEF IInv, OnceEach, ClaimsOK
    <3> QED
      BY <3>1, <3>2
  <2> QED
    BY <2>1, <2>3, <2>4, <2>5, <2>6 DEF OnceEach
<1> QED
  BY <1>1, <1>2

-----------------------------------------------------------------------------
(* What a pass has read stays true.                                        *)

\* What pass q is about to fire, and has read of the sources, was completed.
Claimed(q) ==
    /\ \A s \in q.cur \ Fixed, n \in q.seqs : n = 1 \/ <<s, n - 1>> \in finished
    /\ \A s \in Source : q.own[s] # {} => <<s, 1>> \in finished
    /\ q.pc = "sources" => q.todo \subseteq Source

LEMMA RestingOK == Resting \in PassState /\ Claimed(Resting)
<1>1. Resting \in PassState
  BY DEF Resting, PassState
<1>2. Claimed(Resting)
  BY DEF Resting, Claimed
<1> QED
  BY <1>1, <1>2

LEMMA PassClaimed ==
    ASSUME ClaimsOK, NEW i \in Pass
    PROVE  Claimed(pass[i])
BY DEF ClaimsOK, Claimed

\* A step that changes only a pass, the clicks and the counters keeps the
\* invariant when the new pass does.
LEMMA PassTo ==
    ASSUME IInv, NEW i \in Pass, NEW q \in PassState, Claimed(q),
           pass' = [pass EXCEPT ![i] = q],
           UNCHANGED <<db, log, now, click>>, faults' \in Nat,
           alarm' \subseteq {"calm", "disturbed"}
    PROVE  IInv'
<1>1. pass' \in [Pass -> PassState]
  BY DEF IInv, TypeOK
<1>2. TypeOK'
  BY <1>1 DEF IInv, TypeOK, db, log
<1>3. OnceEach'
  BY DEF IInv, OnceEach, db, log
<1>4. \A j \in Pass : pass'[j] = IF j = i THEN q ELSE pass[j]
  BY DEF IInv, TypeOK
<1>5. \A j \in Pass : \A s \in pass'[j].cur \ Fixed, n \in pass'[j].seqs :
         n = 1 \/ <<s, n - 1>> \in finished'
  BY <1>4 DEF IInv, ClaimsOK, Claimed, log
<1>6. \A j \in Pass : \A s \in Source : pass'[j].own[s] # {} => <<s, 1>> \in finished'
  BY <1>4 DEF IInv, ClaimsOK, Claimed, log
<1>7. \A j \in Pass : pass'[j].pc = "sources" => pass'[j].todo \subseteq Source
  BY <1>4 DEF IInv, ClaimsOK, Claimed
<1>8. ClaimsOK'
  BY <1>5, <1>6, <1>7 DEF IInv, ClaimsOK, Exists, db, log
<1> QED
  BY <1>2, <1>3, <1>8 DEF IInv

LEMMA StartPassKeeps ==
    ASSUME IInv, NEW i \in Pass, StartPass(i)
    PROVE  IInv'
<1> DEFINE q == [Resting EXCEPT !.pc = "templates", !.at = now,
                                !.todo = {s \in Template : rule[s] = "active"}]
<1>1. q \in PassState
  BY RestingOK, ZenonT(30) DEF IInv, TypeOK, PassState, Series
<1>2. Claimed(q)
  BY DEF Claimed, Resting
<1>3. pass' = [pass EXCEPT ![i] = q] /\ UNCHANGED <<db, log, now, click, faults, alarm>>
  BY DEF StartPass
<1> HIDE DEF q
<1> QED
  BY <1>1, <1>2, <1>3, PassTo DEF IInv, TypeOK

LEMMA OpenTemplateKeeps ==
    ASSUME IInv, NEW i \in Pass, OpenTemplate(i)
    PROVE  IInv'
<1>1. PICK s \in pass[i].todo :
         pass' = [pass EXCEPT ![i].todo = @ \ {s}, ![i].cur = {s},
                              ![i].seqs = Due(s, pass[i].at)]
  BY DEF OpenTemplate
<1>2. pass[i] \in PassState /\ s \in Series
  BY DEF IInv, TypeOK, PassState
<1> DEFINE q == [pass[i] EXCEPT !.todo = @ \ {s}, !.cur = {s}, !.seqs = Due(s, pass[i].at)]
<1>3. q \in PassState
  BY <1>2, DueInSeq DEF PassState
<1>4. Claimed(q)
  <2>1. /\ q.cur = {s} /\ q.seqs = Due(s, pass[i].at) /\ q.own = pass[i].own
        /\ q.pc = "templates"
    BY <1>2 DEF PassState, OpenTemplate
  <2>2. ASSUME s \notin Fixed, NEW n \in Due(s, pass[i].at)
        PROVE  n = 1 \/ <<s, n - 1>> \in finished
    BY <1>2, <2>2, RelativeInTurn DEF Due, IInv
  <2> QED
    BY <2>1, <2>2, PassClaimed DEF Claimed, IInv
<1>5. pass' = [pass EXCEPT ![i] = q] /\ UNCHANGED <<db, log, now, click, faults, alarm>>
  BY <1>1 DEF OpenTemplate, IInv, TypeOK
<1> HIDE DEF q
<1> QED
  BY <1>3, <1>4, <1>5, PassTo DEF IInv, TypeOK

LEMMA OpenSourcesKeeps ==
    ASSUME IInv, NEW i \in Pass, OpenSources(i)
    PROVE  IInv'
<1> DEFINE q == [pass[i] EXCEPT !.pc = "sources", !.fired = [s \in Source |-> rows[s]],
                                !.own = [s \in Source |-> DoneTimes(s, 1)],
                                !.todo = {s \in Source : rule[s] = "active"}]
<1>1. pass[i] \in PassState /\ pass[i].seqs = {}
  BY DEF IInv, TypeOK, OpenSources
<1>2. 1 \in Seq
  BY TimeAssumption DEF Seq
<1>3. q \in PassState
  <2>1. [s \in Source |-> rows[s]] \in [Source -> SUBSET Seq]
    BY DEF IInv, TypeOK, Series
  <2>2. [s \in Source |-> DoneTimes(s, 1)] \in [Source -> SUBSET Nat]
    BY <1>2 DEF IInv, TypeOK, Series, DoneTimes
  <2>3. {s \in Source : rule[s] = "active"} \in SUBSET Series
    BY DEF Series
  <2> QED
    BY <1>1, <2>1, <2>2, <2>3 DEF PassState
<1>4. Claimed(q)
  <2>1. /\ q.seqs = {} /\ q.own = [s \in Source |-> DoneTimes(s, 1)]
        /\ q.todo \subseteq Source
    BY <1>1 DEF PassState
  <2>2. ASSUME NEW s \in Source, DoneTimes(s, 1) # {} PROVE <<s, 1>> \in finished
    BY <1>2, <2>2 DEF DoneTimes, IInv, ClaimsOK, Series
  <2> QED
    BY <2>1, <2>2 DEF Claimed
<1>5. pass' = [pass EXCEPT ![i] = q] /\ UNCHANGED <<db, log, now, click, faults, alarm>>
  BY DEF OpenSources, IInv, TypeOK
<1> HIDE DEF q
<1> QED
  BY <1>3, <1>4, <1>5, PassTo DEF IInv, TypeOK

LEMMA OpenSourceKeeps ==
    ASSUME IInv, NEW i \in Pass, OpenSource(i)
    PROVE  IInv'
<1> DEFINE N(s) == IF s \in Fixed THEN FixedDue(pass[i].fired[s], pass[i].at)
                   ELSE IF rows[s] \subseteq {1} THEN SecondDue(i, s)
                   ELSE RelativeDue(s, pass[i].at)
<1>1. PICK s \in pass[i].todo :
         pass' = [pass EXCEPT ![i].todo = @ \ {s}, ![i].cur = {s}, ![i].seqs = N(s)]
  BY DEF OpenSource
<1>2. pass[i] \in PassState /\ s \in Source /\ s \in Series
  BY DEF IInv, TypeOK, ClaimsOK, OpenSource, PassState
<1> DEFINE q == [pass[i] EXCEPT !.todo = @ \ {s}, !.cur = {s}, !.seqs = N(s)]
<1>3. N(s) \subseteq Seq
  BY DEF FixedDue, SecondDue, RelativeDue
<1>4. ASSUME s \notin Fixed, NEW n \in N(s) PROVE n = 1 \/ <<s, n - 1>> \in finished
  <2>1. CASE n \in RelativeDue(s, pass[i].at)
    BY <1>2, <2>1, RelativeInTurn DEF IInv
  <2>2. CASE n \in SecondDue(i, s)
    <3>1. n = 2 /\ pass[i].own[s] # {}
      BY <2>2 DEF SecondDue
    <3> QED
      BY <1>2, <3>1 DEF IInv, ClaimsOK
  <2> QED
    BY <1>4, <2>1, <2>2
<1> HIDE DEF N
<1>5. q \in PassState
  BY <1>2, <1>3 DEF PassState
<1>6. Claimed(q)
  <2>1. /\ q.cur = {s} /\ q.seqs = N(s) /\ q.own = pass[i].own
        /\ q.pc = pass[i].pc /\ q.todo \subseteq pass[i].todo
    BY <1>2 DEF PassState
  <2> QED
    BY <1>4, <2>1, PassClaimed DEF Claimed, IInv
<1>7. pass' = [pass EXCEPT ![i] = q] /\ UNCHANGED <<db, log, now, click, faults, alarm>>
  BY <1>1 DEF OpenSource, IInv, TypeOK
<1> HIDE DEF q
<1> QED
  BY <1>5, <1>6, <1>7, PassTo DEF IInv, TypeOK

\* A pass that stops, or drops what it was about to fire.
LEMMA StopKeeps ==
    ASSUME IInv, NEW i \in Pass, FailSeries(i) \/ EndPass(i) \/ Crash(i)
    PROVE  IInv'
<1>1. faults' \in Nat /\ alarm' \subseteq {"calm", "disturbed"}
  <2>1. CASE EndPass(i)
    BY <2>1 DEF EndPass, IInv, TypeOK
  <2>2. CASE FailSeries(i) \/ Crash(i)
    BY <2>2 DEF FailSeries, Crash, IInv, TypeOK
  <2> QED
    BY <2>1, <2>2
<1>2. UNCHANGED <<db, log, now, click>>
  BY DEF FailSeries, EndPass, Crash
<1>3. CASE EndPass(i) \/ Crash(i)
  <2>1. pass' = [pass EXCEPT ![i] = Resting]
    BY <1>3 DEF EndPass, Crash
  <2> QED
    BY <1>1, <1>2, <2>1, RestingOK, PassTo
<1>4. CASE FailSeries(i)
  <2> DEFINE q == [pass[i] EXCEPT !.seqs = {}, !.calm = FALSE]
  <2>1. q \in PassState
    <3>1. pass[i] \in PassState
      BY DEF IInv, TypeOK
    <3> QED
      BY <3>1 DEF PassState
  <2>2. Claimed(q)
    <3>1. /\ q.seqs = {} /\ q.own = pass[i].own
          /\ q.pc = pass[i].pc /\ q.todo = pass[i].todo
      BY DEF IInv, TypeOK, PassState
    <3> QED
      BY <3>1, PassClaimed DEF Claimed, IInv
  <2>3. pass' = [pass EXCEPT ![i] = q]
    BY <1>4 DEF FailSeries, IInv, TypeOK
  <2> HIDE DEF q
  <2> QED
    BY <1>1, <1>2, <2>1, <2>2, <2>3, PassTo
<1> QED
  BY <1>3, <1>4

-----------------------------------------------------------------------------
(* Steps that change the series.                                           *)

\* The passes under way stay right: each is as it was, or has fewer occurrences
\* to fire, and what was completed stays recorded.
PassesKept ==
    /\ pass' \in [Pass -> PassState]
    /\ finished \subseteq finished'
    /\ \A i \in Pass :
          /\ pass'[i].cur = pass[i].cur /\ pass'[i].seqs \subseteq pass[i].seqs
          /\ pass'[i].own = pass[i].own /\ pass'[i].pc = pass[i].pc
          /\ pass'[i].todo = pass[i].todo

LEMMA KeptClaims ==
    ASSUME IInv, PassesKept
    PROVE  /\ \A i \in Pass : \A s \in pass'[i].cur \ Fixed, n \in pass'[i].seqs :
                 n = 1 \/ <<s, n - 1>> \in finished'
           /\ \A i \in Pass : \A s \in Source :
                 pass'[i].own[s] # {} => <<s, 1>> \in finished'
           /\ \A i \in Pass : pass'[i].pc = "sources" => pass'[i].todo \subseteq Source
BY DEF PassesKept, IInv, ClaimsOK

LEMMA SamePass ==
    ASSUME IInv, pass' = pass, finished \subseteq finished'
    PROVE  PassesKept
BY DEF IInv, TypeOK, PassesKept

LEMMA DisturbedPass ==
    ASSUME IInv, Disturb, finished \subseteq finished'
    PROVE  PassesKept
<1> DEFINE q(i) == IF pass[i].pc = "rest" THEN pass[i] ELSE [pass[i] EXCEPT !.calm = FALSE]
<1>1. \A i \in Pass : pass'[i] = q(i)
  BY DEF Disturb
<1>2. ASSUME NEW i \in Pass
      PROVE  /\ q(i) \in PassState
             /\ q(i).cur = pass[i].cur /\ q(i).seqs = pass[i].seqs
             /\ q(i).own = pass[i].own /\ q(i).pc = pass[i].pc
             /\ q(i).todo = pass[i].todo
  BY DEF IInv, TypeOK, PassState
<1>3. pass' \in [Pass -> PassState]
  <2>1. pass' = [i \in Pass |-> q(i)]
    BY DEF Disturb
  <2> HIDE DEF q
  <2> QED
    BY <1>2, <2>1
<1> HIDE DEF q
<1> QED
  BY <1>1, <1>2, <1>3 DEF PassesKept

LEMMA FireKeeps ==
    ASSUME IInv, NEW i \in Pass, Fire(i)
    PROVE  IInv'
<1>1. PICK s \in pass[i].cur : \E n \in pass[i].seqs :
         IF Exists(s)
         THEN Make(s, n) /\ pass' = [pass EXCEPT ![i].seqs = @ \ {n}]
         ELSE UNCHANGED <<db, log>>
              /\ pass' = [pass EXCEPT ![i].seqs = {}, ![i].calm = FALSE]
  BY DEF Fire
<1>2. PICK n \in pass[i].seqs :
         IF Exists(s)
         THEN Make(s, n) /\ pass' = [pass EXCEPT ![i].seqs = @ \ {n}]
         ELSE UNCHANGED <<db, log>>
              /\ pass' = [pass EXCEPT ![i].seqs = {}, ![i].calm = FALSE]
  BY <1>1
<1>3. s \in Series /\ n \in Seq /\ pass[i] \in PassState
  BY DEF IInv, TypeOK, PassState
<1>4. UNCHANGED <<now, click, alarm, faults>>
  BY DEF Fire
<1>5. CASE Exists(s)
  <2>1. Make(s, n) /\ pass' = [pass EXCEPT ![i].seqs = @ \ {n}]
    BY <1>2, <1>5
  <2>2. PassesKept
    <3>1. [pass[i] EXCEPT !.seqs = @ \ {n}] \in PassState
      BY <1>3 DEF PassState
    <3>2. pass' \in [Pass -> PassState]
      BY <2>1, <3>1 DEF IInv, TypeOK
    <3>3. finished' = finished
      BY <1>3, <1>5, <2>1, MakeKeeps
    <3>4. \A j \in Pass :
             pass'[j] = IF j = i THEN [pass[i] EXCEPT !.seqs = @ \ {n}] ELSE pass[j]
      BY <2>1 DEF IInv, TypeOK
    <3> QED
      BY <1>3, <3>2, <3>3, <3>4 DEF PassesKept, PassState
  <2>3. TypeOK'
    BY <1>3, <1>4, <1>5, <2>1, <2>2, MakeKeeps DEF PassesKept, IInv, TypeOK
  <2>4. OnceEach'
    BY <1>3, <1>5, <2>1, MakeKeeps
  <2>5. ClaimsOK'
    BY <1>3, <1>5, <2>1, <2>2, MakeKeeps, KeptClaims DEF ClaimsOK
  <2> QED
    BY <2>3, <2>4, <2>5 DEF IInv
<1>6. CASE ~Exists(s)
  <2> DEFINE q == [pass[i] EXCEPT !.seqs = {}, !.calm = FALSE]
  <2>1. q \in PassState
    BY <1>3 DEF PassState
  <2>2. /\ q.seqs = {} /\ q.own = pass[i].own /\ q.pc = pass[i].pc
        /\ q.todo = pass[i].todo
    BY <1>3 DEF PassState
  <2>3. Claimed(q)
    BY <2>2, PassClaimed DEF Claimed, IInv
  <2>4. UNCHANGED <<db, log>> /\ pass' = [pass EXCEPT ![i] = q]
    BY <1>2, <1>6 DEF IInv, TypeOK
  <2> HIDE DEF q
  <2> QED
    BY <1>4, <2>1, <2>3, <2>4, PassTo DEF IInv, TypeOK
<1> QED
  BY <1>5, <1>6

LEMMA ClickKeeps ==
    ASSUME IInv, NEW c \in Click, StartClick(c) \/ FinishClick(c)
    PROVE  IInv'
<1>1. UNCHANGED <<now, pass, alarm, faults>>
  BY DEF StartClick, FinishClick
<1>2. CASE StartClick(c)
  <2>1. PICK s \in Fixed : \E n \in Seq \ rows[s] :
           click' = [click EXCEPT ![c] = [pc |-> "make", s |-> {s}, n |-> n]]
    BY <1>2 DEF StartClick
  <2>2. click' \in [Click -> ClickState]
    BY <2>1 DEF IInv, TypeOK, ClickState
  <2>3. UNCHANGED <<db, log>>
    BY <1>2 DEF StartClick
  <2>4. TypeOK'
    BY <1>1, <2>2, <2>3 DEF IInv, TypeOK, db, log
  <2>5. OnceEach' /\ ClaimsOK'
    BY <1>1, <2>3 DEF IInv, OnceEach, ClaimsOK, Exists, db, log
  <2> QED
    BY <2>4, <2>5 DEF IInv
<1>3. CASE FinishClick(c)
  <2>1. click[c] \in [pc : {"make"}, s : SUBSET Fixed, n : Seq]
    BY <1>3 DEF IInv, TypeOK, ClickState, FinishClick, NoClick
  <2>2. PICK s \in click[c].s :
           IF Exists(s) THEN Make(s, click[c].n) ELSE UNCHANGED <<db, log>>
    BY <1>3 DEF FinishClick
  <2>3. s \in Series /\ click[c].n \in Seq
    BY <2>1, SeriesAssumption
  <2>4. click' \in [Click -> ClickState]
    BY <1>3 DEF FinishClick, IInv, TypeOK, ClickState
  <2>5. CASE Exists(s)
    <3>1. Make(s, click[c].n)
      BY <2>2, <2>5
    <3>2. PassesKept
      BY <1>1, <2>3, <2>5, <3>1, MakeKeeps, SamePass
    <3>3. TypeOK'
      BY <1>1, <2>3, <2>4, <2>5, <3>1, MakeKeeps DEF IInv, TypeOK
    <3>4. OnceEach' /\ ClaimsOK'
      BY <2>3, <2>5, <3>1, <3>2, MakeKeeps, KeptClaims DEF ClaimsOK
    <3> QED
      BY <3>3, <3>4 DEF IInv
  <2>6. CASE ~Exists(s)
    <3>1. UNCHANGED <<db, log>>
      BY <2>2, <2>6
    <3>2. TypeOK'
      BY <1>1, <2>4, <3>1 DEF IInv, TypeOK, db, log
    <3>3. OnceEach' /\ ClaimsOK'
      BY <1>1, <3>1 DEF IInv, OnceEach, ClaimsOK, Exists, db, log
    <3> QED
      BY <3>2, <3>3 DEF IInv
  <2> QED
    BY <2>5, <2>6
<1> QED
  BY <1>2, <1>3

\* A series without its tasks and rows is as it should be.
LEMMA DeleteSeriesKeeps ==
    ASSUME IInv, NEW s \in Series, DeleteSource(s) \/ DeleteTemplate(s)
    PROVE  IInv'
<1>1. /\ rule' = [rule EXCEPT ![s] = "none"]
      /\ task' = [task EXCEPT ![s] = [n \in Seq |-> "gone"]]
      /\ rows' = [rows EXCEPT ![s] = {}]
      /\ UNCHANGED <<now, doneAt, pass, click, alarm, faults, log>>
  BY DEF DeleteSource, DeleteTemplate
<1>2. TypeOK'
  BY <1>1 DEF IInv, TypeOK, log
<1>3. OnceEach'
  BY <1>1 DEF IInv, OnceEach, log
<1>4. PassesKept
  BY <1>1, SamePass DEF log
<1>5. ~Exists(s)'
  <2>1. s \in Template \/ s \in Source
    BY DEF Series
  <2>2. rule'[s] = "none" /\ 1 \in Seq /\ task'[s][1] = "gone"
    BY <1>1, TimeAssumption DEF IInv, TypeOK, Seq
  <2> QED
    BY <2>2 DEF Exists
<1>6. ASSUME NEW r \in Series, NEW m \in Seq
      PROVE  /\ (m \in rows[r] \/ ~Exists(r) \/ made[r][m] <= gone[r][m])'
             /\ (task[r][m] \in {"open", "done"} => m \in rows[r])'
             /\ (task[r][m] = "done" => <<r, m>> \in finished)'
  <2>1. CASE r = s
    BY <1>1, <1>5, <2>1 DEF IInv, TypeOK
  <2>2. CASE r # s
    <3>1. rule'[r] = rule[r] /\ task'[r] = task[r] /\ rows'[r] = rows[r]
      BY <1>1, <2>2 DEF IInv, TypeOK
    <3> QED
      BY <1>1, <3>1 DEF IInv, ClaimsOK, Exists, log
  <2> QED
    BY <2>1, <2>2
<1>7. ClaimsOK'
  BY <1>4, <1>6, KeptClaims DEF ClaimsOK
<1> QED
  BY <1>2, <1>3, <1>7 DEF IInv

LEMMA SetRuleKeeps ==
    ASSUME IInv, NEW s \in Series, NEW r \in {"active", "paused", "none"}, SetRule(s, r)
    PROVE  IInv'
<1>1. /\ rule' = [rule EXCEPT ![s] = r]
      /\ UNCHANGED <<now, rows, task, doneAt, click, alarm, faults, log>>
      /\ Disturb \/ pass' = pass
  BY DEF SetRule
<1>2. PassesKept
  BY <1>1, SamePass, DisturbedPass DEF log
<1>3. TypeOK'
  BY <1>1, <1>2 DEF PassesKept, IInv, TypeOK, log
<1>4. OnceEach'
  BY <1>1 DEF IInv, OnceEach, log
<1>5. \A q \in Series : Exists(q)' => Exists(q)
  <2> TAKE q \in Series
  <2>1. CASE q = s
    BY <2>1 DEF SetRule
  <2>2. CASE q # s
    BY <1>1, <2>2 DEF Exists, IInv, TypeOK
  <2> QED
    BY <2>1, <2>2
<1>6. ClaimsOK'
  BY <1>1, <1>2, <1>5, KeptClaims DEF IInv, ClaimsOK, log
<1> QED
  BY <1>3, <1>4, <1>6 DEF IInv

LEMMA CompleteKeeps ==
    ASSUME IInv, NEW s \in Series, NEW n \in Seq, Complete(s, n)
    PROVE  IInv'
<1>1. /\ task[s][n] = "open"
      /\ task' = [task EXCEPT ![s][n] = "done"]
      /\ doneAt' = [doneAt EXCEPT ![s][n] = now]
      /\ finished' = finished \cup {<<s, n>>}
      /\ Disturb
      /\ UNCHANGED <<now, rule, rows, click, alarm, faults, made, gone>>
  BY DEF Complete
<1>2. PassesKept
  BY <1>1, DisturbedPass
<1>3. TypeOK'
  <2>1. task' \in [Series -> [Seq -> {"none", "open", "done", "gone"}]]
    BY <1>1 DEF IInv, TypeOK
  <2>2. doneAt' \in [Series -> [Seq -> Nat]]
    BY <1>1 DEF IInv, TypeOK
  <2>3. finished' \in SUBSET (Series \X Seq)
    BY <1>1 DEF IInv, TypeOK
  <2> QED
    BY <1>1, <1>2, <2>1, <2>2, <2>3 DEF PassesKept, IInv, TypeOK
<1>4. OnceEach'
  BY <1>1 DEF IInv, OnceEach
<1>5. n \in rows[s]
  BY <1>1 DEF IInv, ClaimsOK
<1>6. ASSUME NEW q \in Series, NEW m \in Seq
      PROVE  /\ (m \in rows[q] \/ ~Exists(q) \/ made[q][m] <= gone[q][m])'
             /\ (task[q][m] \in {"open", "done"} => m \in rows[q])'
             /\ (task[q][m] = "done" => <<q, m>> \in finished)'
  <2>1. CASE q = s /\ m = n
    BY <1>1, <1>5, <2>1
  <2>2. CASE ~(q = s /\ m = n)
    <3>1. task'[q][m] = task[q][m]
      BY <1>1, <2>2 DEF IInv, TypeOK
    <3>2. Exists(q)' => Exists(q)
      BY <1>1 DEF Exists, IInv, TypeOK
    <3> QED
      BY <1>1, <3>1, <3>2 DEF IInv, ClaimsOK
  <2> QED
    BY <2>1, <2>2
<1>7. ClaimsOK'
  BY <1>2, <1>6, KeptClaims DEF ClaimsOK
<1> QED
  BY <1>3, <1>4, <1>7 DEF IInv

LEMMA ReopenKeeps ==
    ASSUME IInv, NEW s \in Series, NEW n \in Seq, Reopen(s, n)
    PROVE  IInv'
<1>1. /\ task[s][n] = "done"
      /\ task' = [task EXCEPT ![s][n] = "open"]
      /\ UNCHANGED <<now, rule, rows, doneAt, pass, click, alarm, faults, log>>
  BY DEF Reopen
<1>2. PassesKept
  BY <1>1, SamePass DEF log
<1>3. TypeOK'
  <2>1. task' \in [Series -> [Seq -> {"none", "open", "done", "gone"}]]
    BY <1>1 DEF IInv, TypeOK
  <2> QED
    BY <1>1, <2>1 DEF IInv, TypeOK, log
<1>4. OnceEach'
  BY <1>1 DEF IInv, OnceEach, log
<1>5. ASSUME NEW q \in Series, NEW m \in Seq
      PROVE  /\ (m \in rows[q] \/ ~Exists(q) \/ made[q][m] <= gone[q][m])'
             /\ (task[q][m] \in {"open", "done"} => m \in rows[q])'
             /\ (task[q][m] = "done" => <<q, m>> \in finished)'
  <2>1. task'[q][m] = task[q][m] \/ (task[q][m] = "done" /\ task'[q][m] = "open")
    BY <1>1 DEF IInv, TypeOK
  <2>2. Exists(q)' => Exists(q)
    BY <1>1 DEF Exists, IInv, TypeOK
  <2> QED
    BY <1>1, <2>1, <2>2 DEF IInv, ClaimsOK, log
<1>6. ClaimsOK'
  BY <1>2, <1>5, KeptClaims DEF ClaimsOK
<1> QED
  BY <1>3, <1>4, <1>6 DEF IInv

\* The claim of a deleted occurrence goes with it, and is counted.
LEMMA DeleteTaskKeeps ==
    ASSUME IInv, NEW s \in Series, NEW n \in Seq, DeleteTask(s, n)
    PROVE  IInv'
<1>1. /\ task[s][n] \in {"open", "done"}
      /\ s \in Source => n # 1
      /\ task' = [task EXCEPT ![s][n] = "gone"]
      /\ rows' = [rows EXCEPT ![s] = IF s \in Source THEN @ \ {n} ELSE @]
      /\ gone' = [gone EXCEPT ![s][n] = IF s \in Source THEN @ + 1 ELSE @]
      /\ Disturb \/ pass' = pass
      /\ UNCHANGED <<now, rule, doneAt, click, alarm, faults, made, finished>>
  BY DEF DeleteTask
<1>2. PassesKept
  BY <1>1, SamePass, DisturbedPass
<1>3. TypeOK'
  <2>1. task' \in [Series -> [Seq -> {"none", "open", "done", "gone"}]]
    BY <1>1 DEF IInv, TypeOK
  <2>2. rows' \in [Series -> SUBSET Seq]
    BY <1>1 DEF IInv, TypeOK
  <2>3. gone' \in [Series -> [Seq -> Nat]]
    BY <1>1 DEF IInv, TypeOK
  <2> QED
    BY <1>1, <1>2, <2>1, <2>2, <2>3 DEF PassesKept, IInv, TypeOK
<1>4. ASSUME NEW q \in Series, NEW m \in Seq
      PROVE  /\ made'[q][m] <= 1 + gone'[q][m]
             /\ (m \in rows[q] \/ ~Exists(q) \/ made[q][m] <= gone[q][m])'
             /\ (task[q][m] \in {"open", "done"} => m \in rows[q])'
             /\ (task[q][m] = "done" => <<q, m>> \in finished)'
  <2>1. CASE q = s /\ m = n /\ s \in Source
    <3>1. gone'[q][m] = gone[q][m] + 1 /\ task'[q][m] = "gone"
      BY <1>1, <2>1 DEF IInv, TypeOK
    <3>2. made[q][m] <= 1 + gone[q][m] /\ made[q][m] \in Nat /\ gone[q][m] \in Nat
      BY DEF IInv, OnceEach, TypeOK
    <3> QED
      BY <1>1, <3>1, <3>2
  <2>2. CASE q = s /\ m = n /\ s \notin Source
    <3>1. gone'[q][m] = gone[q][m] /\ task'[q][m] = "gone" /\ rows'[q] = rows[q]
      BY <1>1, <2>2 DEF IInv, TypeOK
    <3>2. Exists(q)' = Exists(q)
      BY <1>1, <2>2 DEF Exists, Series
    <3> QED
      BY <1>1, <3>1, <3>2 DEF IInv, OnceEach, ClaimsOK
  <2>3. CASE ~(q = s /\ m = n)
    <3>1. gone'[q][m] = gone[q][m] /\ task'[q][m] = task[q][m]
      BY <1>1, <2>3 DEF IInv, TypeOK
    <3>2. m \in rows'[q] <=> m \in rows[q]
      BY <1>1, <2>3 DEF IInv, TypeOK
    <3>3. Exists(q)' => Exists(q)
      BY <1>1 DEF Exists, IInv, TypeOK
    <3> QED
      BY <1>1, <3>1, <3>2, <3>3 DEF IInv, OnceEach, ClaimsOK
  <2> QED
    BY <2>1, <2>2, <2>3
<1>5. OnceEach'
  BY <1>4 DEF OnceEach
<1>6. ClaimsOK'
  BY <1>2, <1>4, KeptClaims DEF ClaimsOK
<1> QED
  BY <1>3, <1>5, <1>6 DEF IInv

LEMMA TickKeeps ==
    ASSUME IInv, Tick
    PROVE  IInv'
<1>1. now' \in Nat /\ UNCHANGED <<db, pass, click, alarm, faults, log>>
  BY DEF Tick, IInv, TypeOK
<1>2. TypeOK'
  BY <1>1 DEF IInv, TypeOK, db, log
<1>3. OnceEach' /\ ClaimsOK'
  BY <1>1 DEF IInv, OnceEach, ClaimsOK, Exists, db, log
<1> QED
  BY <1>2, <1>3 DEF IInv

LEMMA StutterKeeps ==
    ASSUME IInv, UNCHANGED vars
    PROVE  IInv'
<1>1. TypeOK'
  BY DEF IInv, TypeOK, vars
<1>2. OnceEach' /\ ClaimsOK'
  BY DEF IInv, OnceEach, ClaimsOK, Exists, vars
<1> QED
  BY <1>1, <1>2 DEF IInv

-----------------------------------------------------------------------------
(* The theorems.                                                           *)

LEMMA InitInv == Init => IInv
<1> SUFFICES ASSUME Init PROVE IInv
  OBVIOUS
<1>1. 1 \in Seq
  BY TimeAssumption DEF Seq
<1>2. pass \in [Pass -> PassState] /\ click \in [Click -> ClickState]
  BY RestingOK DEF Init, ClickState
<1>3. rows \in [Series -> SUBSET Seq]
  BY <1>1 DEF Init
<1>4. task \in [Series -> [Seq -> {"none", "open", "done", "gone"}]]
  BY DEF Init
<1>5. TypeOK
  BY <1>2, <1>3, <1>4 DEF Init, TypeOK
<1>6. OnceEach
  BY DEF Init, OnceEach
<1>7. ClaimsOK
  <2>1. \A s \in Series, n \in Seq :
           /\ made[s][n] <= gone[s][n]
           /\ task[s][n] \in {"open", "done"} => n \in rows[s]
           /\ task[s][n] # "done"
    BY DEF Init
  <2>2. \A i \in Pass : pass[i] = Resting
    BY DEF Init
  <2> QED
    BY <2>1, <2>2 DEF ClaimsOK, Resting
<1> QED
  BY <1>5, <1>6, <1>7 DEF IInv

LEMMA NextInv == IInv /\ [Next]_vars => IInv'
<1> SUFFICES ASSUME IInv, [Next]_vars PROVE IInv'
  OBVIOUS
<1>1. CASE UNCHANGED vars
  BY <1>1, StutterKeeps
<1>2. ASSUME NEW i \in Pass, Step(i) \/ FailSeries(i) \/ Crash(i) PROVE IInv'
  BY <1>2, StartPassKeeps, OpenTemplateKeeps, OpenSourcesKeeps, OpenSourceKeeps,
     FireKeeps, StopKeeps DEF Step
<1>3. ASSUME NEW c \in Click, StartClick(c) \/ FinishClick(c) PROVE IInv'
  BY <1>3, ClickKeeps
<1>4. ASSUME NEW s \in Series, DeleteSource(s) \/ DeleteTemplate(s) PROVE IInv'
  BY <1>4, DeleteSeriesKeeps
<1>5. ASSUME NEW s \in Series, NEW r \in {"active", "paused", "none"}, SetRule(s, r)
      PROVE  IInv'
  BY <1>5, SetRuleKeeps
<1>6. ASSUME NEW s \in Series, NEW n \in Seq,
             Complete(s, n) \/ Reopen(s, n) \/ DeleteTask(s, n)
      PROVE  IInv'
  BY <1>6, CompleteKeeps, ReopenKeeps, DeleteTaskKeeps
<1>7. CASE Tick
  BY <1>7, TickKeeps
<1> QED
  BY <1>1, <1>2, <1>3, <1>4, <1>5, <1>6, <1>7 DEF Next

THEOREM InvHolds == Spec => []IInv
<1> QED
  BY InitInv, NextInv, PTL DEF Spec

\* The scheduler's passes, the clicks and the users' operations keep the types.
THEOREM TypesHold == Spec => []TypeOK
<1>1. IInv => TypeOK
  BY DEF IInv
<1> QED
  BY <1>1, InvHolds, PTL

\* However many passes and clicks race for an occurrence, crash and start over,
\* they make it once (again only when it was deleted with its claim).
THEOREM OnceEachHolds == Spec => []OnceEach
<1>1. IInv => OnceEach
  BY DEF IInv
<1> QED
  BY <1>1, InvHolds, PTL

\* What is made is claimed, and what a pass is about to fire in a relative
\* series follows an occurrence that was completed.
THEOREM ClaimsHold == Spec => []ClaimsOK
<1>1. IInv => ClaimsOK
  BY DEF IInv
<1> QED
  BY <1>1, InvHolds, PTL

-----------------------------------------------------------------------------
(* The scheduler implements the ledger.                                    *)

\* Making one issues it, or finds it issued.
LEMMA MakeIssues ==
    ASSUME IInv, NEW s \in Series, NEW n \in Seq, Make(s, n),
           s \in Fixed \/ n = 1 \/ <<s, n - 1>> \in finished
    PROVE  [Ledger!Next]_Ledger!vars
<1>1. CASE n \in rows[s]
  <2>1. UNCHANGED <<rows, finished>>
    BY <1>1 DEF Make, db, log
  <2> QED
    BY <2>1 DEF Ledger!vars
<1>2. CASE n \notin rows[s]
  <2>1. Ledger!Issue(s, n)
    BY <1>2 DEF Make, Ledger!Issue
  <2> QED
    BY <2>1 DEF Ledger!Next
<1> QED
  BY <1>1, <1>2

LEMMA StepRefines == IInv /\ [Next]_vars => [Ledger!Next]_Ledger!vars
<1> SUFFICES ASSUME IInv, [Next]_vars PROVE [Ledger!Next]_Ledger!vars
  OBVIOUS
<1>1. CASE UNCHANGED <<rows, finished>>
  BY <1>1 DEF Ledger!vars
<1>2. ASSUME NEW i \in Pass, Fire(i) PROVE [Ledger!Next]_Ledger!vars
  <2>1. PICK s \in pass[i].cur : \E n \in pass[i].seqs :
           IF Exists(s) THEN Make(s, n) ELSE UNCHANGED <<db, log>>
    BY <1>2 DEF Fire
  <2>2. PICK n \in pass[i].seqs :
           IF Exists(s) THEN Make(s, n) ELSE UNCHANGED <<db, log>>
    BY <2>1
  <2>3. s \in Series /\ n \in Seq
    BY DEF IInv, TypeOK, PassState
  <2>4. s \in Fixed \/ n = 1 \/ <<s, n - 1>> \in finished
    BY DEF IInv, ClaimsOK
  <2>5. CASE Exists(s)
    BY <2>2, <2>3, <2>4, <2>5, MakeIssues
  <2>6. CASE ~Exists(s)
    BY <1>1, <2>2, <2>6 DEF db, log
  <2> QED
    BY <2>5, <2>6
<1>3. ASSUME NEW c \in Click, FinishClick(c) PROVE [Ledger!Next]_Ledger!vars
  <2>1. click[c] \in [pc : {"make"}, s : SUBSET Fixed, n : Seq]
    BY <1>3 DEF IInv, TypeOK, ClickState, FinishClick, NoClick
  <2>2. PICK s \in click[c].s :
           IF Exists(s) THEN Make(s, click[c].n) ELSE UNCHANGED <<db, log>>
    BY <1>3 DEF FinishClick
  <2>3. s \in Fixed /\ s \in Series /\ click[c].n \in Seq
    BY <2>1, SeriesAssumption
  <2>4. CASE Exists(s)
    BY <2>2, <2>3, <2>4, MakeIssues
  <2>5. CASE ~Exists(s)
    BY <1>1, <2>2, <2>5 DEF db, log
  <2> QED
    BY <2>4, <2>5
<1>4. ASSUME NEW i \in Pass, Step(i) \/ FailSeries(i) \/ Crash(i), ~Fire(i)
      PROVE  UNCHANGED <<rows, finished>>
  BY <1>4 DEF Step, StartPass, OpenTemplate, OpenSources, OpenSource, EndPass,
              FailSeries, Crash, db, log
<1>5. ASSUME NEW c \in Click, StartClick(c) PROVE UNCHANGED <<rows, finished>>
  BY <1>5 DEF StartClick, db, log
<1>6. ASSUME NEW s \in Series, DeleteSource(s) \/ DeleteTemplate(s)
      PROVE  [Ledger!Next]_Ledger!vars
  <2>1. Ledger!Close(s)
    BY <1>6 DEF DeleteSource, DeleteTemplate, Ledger!Close, log
  <2> QED
    BY <2>1 DEF Ledger!Next
<1>7. ASSUME NEW s \in Series, NEW r \in {"active", "paused", "none"}, SetRule(s, r)
      PROVE  UNCHANGED <<rows, finished>>
  BY <1>7 DEF SetRule, log
<1>8. ASSUME NEW s \in Series, NEW n \in Seq, Complete(s, n)
      PROVE  [Ledger!Next]_Ledger!vars
  <2>1. n \in rows[s]
    BY <1>8 DEF Complete, IInv, ClaimsOK
  <2>2. Ledger!Finish(s, n)
    BY <1>8, <2>1 DEF Complete, Ledger!Finish
  <2> QED
    BY <2>2 DEF Ledger!Next
<1>9. ASSUME NEW s \in Series, NEW n \in Seq, Reopen(s, n)
      PROVE  UNCHANGED <<rows, finished>>
  BY <1>9 DEF Reopen, log
<1>10. ASSUME NEW s \in Series, NEW n \in Seq, DeleteTask(s, n)
       PROVE  [Ledger!Next]_Ledger!vars
  <2>1. CASE s \in Source
    <3>1. Ledger!Void(s, n)
      BY <1>10, <2>1 DEF DeleteTask, Ledger!Void
    <3> QED
      BY <3>1 DEF Ledger!Next
  <2>2. CASE s \notin Source
    BY <1>1, <1>10, <2>2 DEF DeleteTask, IInv, TypeOK
  <2> QED
    BY <2>1, <2>2
<1>11. CASE Tick
  BY <1>1, <1>11 DEF Tick, db, log
<1>12. CASE UNCHANGED vars
  BY <1>1, <1>12 DEF vars
<1> QED
  BY <1>1, <1>2, <1>3, <1>4, <1>5, <1>6, <1>7, <1>8, <1>9, <1>10, <1>11, <1>12 DEF Next

\* The passes, clicks and users keep the promises of the ledger: what exists is
\* not made again, and a relative series goes on only after a completion.
THEOREM LedgerHolds == Spec => LedgerSpec
<1>1. Init => Ledger!Init
  <2> SUFFICES ASSUME Init PROVE Ledger!Init
    OBVIOUS
  <2>1. rows \in [Series -> {{}, {1}}]
    BY DEF Init
  <2> QED
    BY <2>1 DEF Init, Ledger!Init
<1> QED
  BY <1>1, StepRefines, InvHolds, PTL DEF Spec, LedgerSpec, Ledger!Spec

-----------------------------------------------------------------------------
(* The measurement after a pass raises no false alarm.                     *)

\* What pass i has not opened yet.
Pending(i) == IF pass[i].pc = "templates" THEN Source \cup pass[i].todo ELSE pass[i].todo

\* What is due in s, by the time of pass i, is about to be opened or fired; and
\* what the pass has read of the sources is no newer than the database.
Covered(i, s) ==
    /\ s \in Pending(i) \/ \A n \in Due(s, pass[i].at) : s \in pass[i].cur /\ n \in pass[i].seqs
    /\ pass[i].pc = "sources" /\ s \in Source =>
          /\ pass[i].fired[s] \subseteq rows[s]
          /\ task[s][1] = "done" => doneAt[s][1] \in pass[i].own[s]

Calm(i) == pass[i].pc # "rest" /\ pass[i].calm

AlarmOK ==
    /\ "calm" \notin alarm
    /\ \A s \in Series : rule[s] = "active" => Exists(s)
    /\ \A s \in Source : task[s][1] # "gone" => 1 \in rows[s]
    /\ \A i \in Pass : \A r, s \in pass[i].cur : r = s
    /\ \A i \in Pass : Calm(i) => \A s \in Series : rule[s] = "active" => Covered(i, s)

\* A step that makes nothing new due in series s.
Kept(s) ==
    /\ rule[s] = "active" /\ rows[s] \subseteq rows'[s]
    /\ \A t \in Nat, n \in Seq : n \in Due(s, t)' => n \in Due(s, t)
    /\ task'[s][1] = "done" => task[s][1] = "done" /\ doneAt'[s][1] = doneAt[s][1]

LEMMA CoveredKept ==
    ASSUME TypeOK, NEW i \in Pass, NEW s \in Series, Covered(i, s), Kept(s),
           pass'[i] = pass[i]
    PROVE  Covered(i, s)'
<1>1. pass[i].at \in Nat
  BY DEF TypeOK, PassState
<1>2. \A n \in Due(s, pass[i].at)' : n \in Seq
  BY DEF Due, FixedDue, RelativeDue
<1>3. Pending(i)' = Pending(i)
  BY DEF Pending
<1> QED
  BY <1>1, <1>2, <1>3 DEF Covered, Kept

\* What is not changed makes nothing new due.
LEMMA SameKept ==
    ASSUME NEW s \in Series, rule[s] = "active", rows'[s] = rows[s],
           task'[s] = task[s], doneAt'[s] = doneAt[s]
    PROVE  Kept(s)
<1>1. \A t \in Nat, n \in Seq : n \in Due(s, t)' => n \in Due(s, t)
  BY DEF Due, FixedDue, RelativeDue, DueAt
<1> QED
  BY <1>1 DEF Kept

LEMMA UnopenedNotMade ==
    ASSUME TypeOK, NEW s \in Series, NEW t
    PROVE  \A n \in Due(s, t) : n \notin rows[s]
<1>1. \A n \in FixedDue(rows[s], t) : n \notin rows[s]
  BY DEF FixedDue
<1>2. rows[s] \subseteq Nat
  BY DEF TypeOK, Seq
<1>3. \A n \in RelativeDue(s, t) : n \notin rows[s]
  BY <1>2 DEF RelativeDue
<1> QED
  BY <1>1, <1>3 DEF Due

\* An occurrence that is made is open: the next one of a relative series waits.
LEMMA MakeKept ==
    ASSUME TypeOK, NEW r \in Series, NEW n \in Seq, Make(r, n),
           NEW s \in Series, rule[s] = "active"
    PROVE  Kept(s)
<1>1. CASE n \in rows[r] \/ s # r
  BY <1>1, SameKept DEF Make, db, TypeOK
<1>2. CASE n \notin rows[r] /\ s = r
  <2>1. /\ rows'[s] = rows[s] \cup {n} /\ task'[s] = [task[s] EXCEPT ![n] = "open"]
        /\ doneAt' = doneAt
    BY <1>2 DEF Make, TypeOK
  <2>2. \A m \in Seq : task'[s][m] = IF m = n THEN "open" ELSE task[s][m]
    BY <2>1 DEF TypeOK
  <2>3. 1 \in Seq /\ rows[s] \subseteq Seq
    BY TimeAssumption DEF Seq, TypeOK
  <2>4. \A t \in Nat, m \in Seq : m \in FixedDue(rows[s], t)' => m \in FixedDue(rows[s], t)
    BY <2>1 DEF FixedDue, Anchor, DueAt
  <2>5. \A t \in Nat, m \in Seq : m \in RelativeDue(s, t)' => m \in RelativeDue(s, t)
    BY <2>1, <2>2, <2>3 DEF RelativeDue, DueAt
  <2> QED
    BY <1>2, <2>1, <2>2, <2>3, <2>4, <2>5 DEF Kept, Due
<1> QED
  BY <1>1, <1>2

LEMMA MakeGrows ==
    ASSUME TypeOK, NEW s \in Series, NEW n \in Seq, Make(s, n)
    PROVE  /\ rule' = rule /\ n \in rows'[s]
           /\ \A r \in Series : rows[r] \subseteq rows'[r] /\ rows'[r] \subseteq Nat
           /\ \A r \in Series : Exists(r) => Exists(r)'
           /\ \A r \in Source : (task[r][1] # "gone" => 1 \in rows[r]) =>
                                (task'[r][1] # "gone" => 1 \in rows'[r])
<1>1. CASE n \in rows[s]
  BY <1>1 DEF Make, db, Exists, TypeOK, Seq
<1>2. CASE n \notin rows[s]
  <2>1. /\ rows' = [rows EXCEPT ![s] = @ \cup {n}] /\ task' = [task EXCEPT ![s][n] = "open"]
        /\ rule' = rule
    BY <1>2 DEF Make
  <2>2. \A r \in Series : rows'[r] = IF r = s THEN rows[r] \cup {n} ELSE rows[r]
    BY <2>1 DEF TypeOK
  <2>3. 1 \in Seq /\ Seq \subseteq Nat
    BY TimeAssumption DEF Seq
  <2>4. \A r \in Series : task'[r][1] = IF r = s /\ n = 1 THEN "open" ELSE task[r][1]
    BY <2>1, <2>3 DEF TypeOK
  <2>5. \A r \in Series : rows[r] \subseteq Seq
    BY DEF TypeOK
  <2> QED
    BY <2>1, <2>2, <2>3, <2>4, <2>5 DEF Exists, Series
<1> QED
  BY <1>1, <1>2

\* A step by which no pass becomes calm, and that keeps what the calm ones cover.
LEMMA AlarmKept ==
    ASSUME TypeOK, AlarmOK, alarm' = alarm,
           \A s \in Series : rule'[s] = "active" => Exists(s)',
           \A s \in Source : task'[s][1] # "gone" => 1 \in rows'[s],
           \A i \in Pass : pass'[i].cur = pass[i].cur,
           \A i \in Pass : Calm(i)' =>
               /\ Calm(i) /\ pass'[i] = pass[i]
               /\ \A s \in Series : rule'[s] = "active" => Kept(s)
    PROVE  AlarmOK'
<1>1. ASSUME NEW i \in Pass, Calm(i)', NEW s \in Series, rule'[s] = "active"
      PROVE  Covered(i, s)'
  <2>1. Kept(s) /\ pass'[i] = pass[i] /\ Calm(i)
    BY <1>1
  <2>2. Covered(i, s)
    BY <2>1 DEF AlarmOK, Kept
  <2> QED
    BY <2>1, <2>2, CoveredKept
<1> QED
  BY <1>1 DEF AlarmOK

\* A step of one pass that changes no series.
LEMMA AlarmPass ==
    ASSUME TypeOK, AlarmOK, NEW i \in Pass, UNCHANGED db, "calm" \notin alarm',
           \A j \in Pass \ {i} : pass'[j] = pass[j],
           \A r, s \in pass'[i].cur : r = s,
           Calm(i)' => \A s \in Series : rule[s] = "active" => Covered(i, s)'
    PROVE  AlarmOK'
<1>1. ASSUME NEW j \in Pass, Calm(j)', NEW s \in Series, rule'[s] = "active"
      PROVE  Covered(j, s)'
  <2>1. CASE j = i
    BY <1>1, <2>1 DEF db
  <2>2. CASE j # i
    <3>1. pass'[j] = pass[j]
      BY <2>2
    <3>2. Covered(j, s)
      BY <1>1, <3>1 DEF AlarmOK, Calm, db
    <3>3. Kept(s)
      BY <1>1, SameKept DEF db
    <3> QED
      BY <3>1, <3>2, <3>3, CoveredKept
  <2> QED
    BY <2>1, <2>2
<1>2. \A s \in Series : (rule[s] = "active" => Exists(s))'
  BY DEF AlarmOK, Exists, db
<1>3. \A j \in Pass : \A r, s \in pass'[j].cur : r = s
  BY DEF AlarmOK
<1> QED
  BY <1>1, <1>2, <1>3 DEF AlarmOK, db

LEMMA AlarmStart ==
    ASSUME TypeOK, AlarmOK, NEW i \in Pass, StartPass(i)
    PROVE  AlarmOK'
<1>1. /\ pass'[i].pc = "templates" /\ pass'[i].cur = {}
      /\ pass'[i].todo = {s \in Template : rule[s] = "active"}
      /\ \A j \in Pass \ {i} : pass'[j] = pass[j]
      /\ UNCHANGED <<db, alarm>>
  BY DEF StartPass, TypeOK, Resting
<1>2. ASSUME NEW s \in Series, rule[s] = "active" PROVE Covered(i, s)'
  BY <1>1, <1>2 DEF Covered, Pending, Series
<1> QED
  BY <1>1, <1>2, AlarmPass DEF AlarmOK

LEMMA AlarmOpenTemplate ==
    ASSUME TypeOK, AlarmOK, NEW i \in Pass, OpenTemplate(i)
    PROVE  AlarmOK'
<1>1. PICK s \in pass[i].todo :
         pass' = [pass EXCEPT ![i].todo = @ \ {s}, ![i].cur = {s},
                              ![i].seqs = Due(s, pass[i].at)]
  BY DEF OpenTemplate
<1>2. /\ pass'[i].pc = "templates" /\ pass'[i].cur = {s} /\ pass'[i].todo = pass[i].todo \ {s}
      /\ pass'[i].seqs = Due(s, pass[i].at) /\ pass'[i].at = pass[i].at
      /\ pass'[i].calm = pass[i].calm
      /\ \A j \in Pass \ {i} : pass'[j] = pass[j]
      /\ UNCHANGED <<db, alarm>>
  BY <1>1 DEF OpenTemplate, TypeOK, PassState
<1>3. pass[i].pc = "templates" /\ pass[i].seqs = {}
  BY DEF OpenTemplate
<1>4. ASSUME Calm(i)', NEW r \in Series, rule[r] = "active" PROVE Covered(i, r)'
  <2>1. Covered(i, r)
    BY <1>2, <1>3, <1>4 DEF AlarmOK, Calm
  <2>2. \A n : n \in Due(r, pass[i].at)' <=> n \in Due(r, pass[i].at)
    BY <1>2 DEF Due, FixedDue, RelativeDue, DueAt, db
  <2>3. CASE r = s
    BY <1>2, <2>2, <2>3 DEF Covered
  <2>4. CASE r # s
    BY <1>2, <1>3, <2>1, <2>2, <2>4 DEF Covered, Pending
  <2> QED
    BY <2>3, <2>4
<1> QED
  BY <1>2, <1>4, AlarmPass DEF AlarmOK

LEMMA AlarmOpenSources ==
    ASSUME TypeOK, AlarmOK, NEW i \in Pass, OpenSources(i)
    PROVE  AlarmOK'
<1>1. /\ pass'[i].pc = "sources" /\ pass'[i].cur = pass[i].cur /\ pass'[i].seqs = pass[i].seqs
      /\ pass'[i].fired = [s \in Source |-> rows[s]]
      /\ pass'[i].own = [s \in Source |-> DoneTimes(s, 1)]
      /\ pass'[i].todo = {s \in Source : rule[s] = "active"}
      /\ pass'[i].at = pass[i].at /\ pass'[i].calm = pass[i].calm
      /\ \A j \in Pass \ {i} : pass'[j] = pass[j]
      /\ UNCHANGED <<db, alarm>>
  <2>1. /\ \A j \in Pass \ {i} : pass'[j] = pass[j]
        /\ UNCHANGED <<db, alarm>>
        /\ pass'[i] = [pass[i] EXCEPT !.pc = "sources", !.fired = [s \in Source |-> rows[s]],
              !.own = [s \in Source |-> DoneTimes(s, 1)],
              !.todo = {s \in Source : rule[s] = "active"}]
    BY DEF OpenSources, TypeOK
  <2>2. pass[i] \in PassState
    BY DEF TypeOK
  <2> QED
    BY <2>1, <2>2 DEF PassState
<1>2. pass[i].pc = "templates" /\ pass[i].seqs = {} /\ pass[i].todo = {}
  BY DEF OpenSources
<1>3. ASSUME Calm(i)', NEW s \in Series, rule[s] = "active" PROVE Covered(i, s)'
  <2>1. Covered(i, s)
    BY <1>1, <1>2, <1>3 DEF AlarmOK, Calm
  <2>2. \A n : n \in Due(s, pass[i].at)' <=> n \in Due(s, pass[i].at)
    BY <1>1 DEF Due, FixedDue, RelativeDue, DueAt, db
  <2>3. CASE s \in Source
    BY <1>1, <1>3, <2>3 DEF Covered, Pending, DoneTimes, db
  <2>4. CASE s \notin Source
    BY <1>1, <1>2, <2>1, <2>2, <2>4 DEF Covered, Pending
  <2> QED
    BY <2>3, <2>4
<1> QED
  BY <1>1, <1>3, AlarmPass DEF AlarmOK

\* What was read of a source with the list covers what is due by the database.
LEMMA AlarmOpenSource ==
    ASSUME TypeOK, AlarmOK, NEW i \in Pass, pass[i].todo \subseteq Source, OpenSource(i)
    PROVE  AlarmOK'
<1> DEFINE N(s) == IF s \in Fixed THEN FixedDue(pass[i].fired[s], pass[i].at)
                   ELSE IF rows[s] \subseteq {1} THEN SecondDue(i, s)
                   ELSE RelativeDue(s, pass[i].at)
<1>1. PICK s \in pass[i].todo :
         pass' = [pass EXCEPT ![i].todo = @ \ {s}, ![i].cur = {s}, ![i].seqs = N(s)]
  BY DEF OpenSource
<1>2. /\ pass'[i].pc = "sources" /\ pass'[i].cur = {s} /\ pass'[i].todo = pass[i].todo \ {s}
      /\ pass'[i].seqs = N(s) /\ pass'[i].at = pass[i].at
      /\ pass'[i].fired = pass[i].fired /\ pass'[i].own = pass[i].own
      /\ pass'[i].calm = pass[i].calm
      /\ \A j \in Pass \ {i} : pass'[j] = pass[j]
      /\ UNCHANGED <<db, alarm>>
  BY <1>1 DEF OpenSource, TypeOK, PassState
<1>3. pass[i].pc = "sources" /\ pass[i].seqs = {} /\ s \in Source /\ s \in Series
  BY DEF OpenSource, Series
<1> HIDE DEF N
<1>4. ASSUME Calm(i)', NEW r \in Series, rule[r] = "active" PROVE Covered(i, r)'
  <2>1. Covered(i, r)
    BY <1>2, <1>3, <1>4 DEF AlarmOK, Calm
  <2>2. \A n : n \in Due(r, pass[i].at)' <=> n \in Due(r, pass[i].at)
    BY <1>2 DEF Due, FixedDue, RelativeDue, DueAt, db
  <2>3. ASSUME r = s, NEW n \in Due(s, pass[i].at) PROVE n \in N(s)
    <3> USE DEF N
    <3>1. /\ pass[i].fired[s] \subseteq rows[s]
          /\ task[s][1] = "done" => doneAt[s][1] \in pass[i].own[s]
      BY <1>3, <2>1, <2>3 DEF Covered
    <3>2. CASE s \in Fixed
      BY <2>3, <3>1, <3>2 DEF Due, FixedDue
    <3>3. CASE s \notin Fixed /\ rows[s] \subseteq {1}
      <4>1. 1 \in rows[s]
        BY <1>3, <1>4, <2>3, SeriesAssumption DEF AlarmOK, Exists
      <4>2. n \in Seq /\ n = 2 /\ task[s][1] = "done" /\ DueAt(doneAt[s][1] + Interval, pass[i].at)
        BY <2>3, <3>3, <4>1 DEF Due, RelativeDue, Seq
      <4> QED
        BY <3>1, <3>3, <4>2 DEF SecondDue
    <3>4. CASE s \notin Fixed /\ ~(rows[s] \subseteq {1})
      BY <2>3, <3>4 DEF Due
    <3> QED
      BY <3>2, <3>3, <3>4
  <2>4. CASE r = s
    BY <1>2, <1>3, <2>1, <2>2, <2>3, <2>4 DEF Covered, db
  <2>5. CASE r # s
    BY <1>2, <1>3, <2>1, <2>2, <2>5 DEF Covered, Pending, db
  <2> QED
    BY <2>4, <2>5
<1> QED
  BY <1>2, <1>4, AlarmPass DEF AlarmOK

\* What is fired is no longer due; a series that is gone, a failure, a crash and the
\* end of a pass leave it calm only when nothing is left.
LEMMA AlarmFire ==
    ASSUME TypeOK, AlarmOK, NEW i \in Pass, Fire(i)
    PROVE  AlarmOK'
<1>1. PICK s \in pass[i].cur, n \in pass[i].seqs :
         IF Exists(s)
         THEN Make(s, n) /\ pass' = [pass EXCEPT ![i].seqs = @ \ {n}]
         ELSE UNCHANGED <<db, log>> /\ pass' = [pass EXCEPT ![i].seqs = {}, ![i].calm = FALSE]
  BY DEF Fire
<1>2. s \in Series /\ n \in Seq /\ pass[i] \in PassState /\ alarm' = alarm
  BY DEF TypeOK, PassState, Fire
<1>3. CASE ~Exists(s)
  <2>1. /\ ~pass'[i].calm /\ pass'[i].cur = pass[i].cur /\ UNCHANGED db
        /\ \A j \in Pass \ {i} : pass'[j] = pass[j]
    BY <1>1, <1>2, <1>3 DEF TypeOK, PassState
  <2> QED
    BY <1>2, <2>1, AlarmPass DEF AlarmOK, Calm
<1>4. CASE Exists(s)
  <2>1. /\ pass' = [pass EXCEPT ![i].seqs = @ \ {n}] /\ Make(s, n)
    BY <1>1, <1>4
  <2>2. /\ pass'[i] = [pass[i] EXCEPT !.seqs = @ \ {n}]
        /\ \A j \in Pass \ {i} : pass'[j] = pass[j]
    BY <2>1 DEF TypeOK
  <2>3. /\ pass'[i].pc = pass[i].pc /\ pass'[i].at = pass[i].at /\ pass'[i].todo = pass[i].todo
        /\ pass'[i].cur = pass[i].cur /\ pass'[i].seqs = pass[i].seqs \ {n}
        /\ pass'[i].fired = pass[i].fired /\ pass'[i].own = pass[i].own
        /\ pass'[i].calm = pass[i].calm /\ pass[i].at \in Nat
    BY <1>2, <2>2 DEF PassState
  <2>4. rule' = rule /\ \A r \in Series : rows[r] \subseteq rows'[r]
    BY <1>2, <2>1, MakeGrows
  <2>5. \A r \in Series : rule[r] = "active" => Kept(r)
    BY <1>2, <2>1, MakeKept
  <2>6. n \in rows'[s]
    BY <1>2, <2>1, MakeGrows
  <2>7. ASSUME NEW j \in Pass, Calm(j)', NEW r \in Series, rule[r] = "active"
        PROVE  Covered(j, r)'
    <3>1. Calm(j) /\ Covered(j, r)
      <4>1. Calm(j)
        BY <2>2, <2>3, <2>7 DEF Calm
      <4> QED
        BY <2>7, <4>1 DEF AlarmOK
    <3>2. CASE j # i
      BY <2>2, <2>5, <2>7, <3>1, <3>2, CoveredKept
    <3>3. CASE j = i
      <4>1. Pending(i)' = Pending(i)
        BY <2>3 DEF Pending
      <4>2. ASSUME NEW m \in Due(r, pass[i].at)'
            PROVE  m \in Due(r, pass[i].at) /\ (r = s => m # n)
        <5>1. m \in Seq
          BY <4>2 DEF Due, FixedDue, RelativeDue
        <5>2. m \in Due(r, pass[i].at)
          BY <2>3, <2>5, <2>7, <4>2, <5>1 DEF Kept
        <5>3. rows'[s] \subseteq Nat
          BY <1>2, <2>1, MakeGrows
        <5>4. r = s => m \notin rows'[s]
          BY <4>2, <5>3 DEF Due, FixedDue, RelativeDue
        <5> QED
          BY <2>6, <5>2, <5>4
      <4>3. \A r1, r2 \in pass[i].cur : r1 = r2
        BY DEF AlarmOK
      <4>4. r \in Pending(i)' \/ \A m \in Due(r, pass[i].at)' :
                                    r \in pass'[i].cur /\ m \in pass'[i].seqs
        BY <1>1, <2>3, <3>1, <3>3, <4>1, <4>2, <4>3 DEF Covered
      <4>5. pass'[i].pc = "sources" /\ r \in Source =>
              /\ pass'[i].fired[r] \subseteq rows'[r]
              /\ task'[r][1] = "done" => doneAt'[r][1] \in pass'[i].own[r]
        BY <2>3, <2>5, <2>7, <3>1, <3>3 DEF Covered, Kept
      <4> QED
        BY <3>3, <4>4, <4>5 DEF Covered
    <3> QED
      BY <3>2, <3>3
  <2>8. \A r \in Series : rule'[r] = "active" => Exists(r)'
    <3>1. \A r \in Series : Exists(r) => Exists(r)'
      BY <1>2, <2>1, MakeGrows
    <3> QED
      BY <2>4, <3>1 DEF AlarmOK
  <2>9. \A r \in Source : task'[r][1] # "gone" => 1 \in rows'[r]
    BY <1>2, <2>1, MakeGrows DEF AlarmOK
  <2>10. \A j \in Pass : pass'[j].cur = pass[j].cur
    BY <2>2, <2>3
  <2>11. \A j \in Pass : \A r1, r2 \in pass'[j].cur : r1 = r2
    BY <2>10 DEF AlarmOK
  <2>12. "calm" \notin alarm'
    BY <1>2 DEF AlarmOK
  <2>13. \A j \in Pass : Calm(j)' =>
            \A r \in Series : rule'[r] = "active" => Covered(j, r)'
    BY <2>4, <2>7
  <2> QED
    BY <2>8, <2>9, <2>11, <2>12, <2>13 DEF AlarmOK
<1> QED
  BY <1>3, <1>4

LEMMA AlarmStop ==
    ASSUME TypeOK, AlarmOK, NEW i \in Pass, FailSeries(i) \/ EndPass(i) \/ Crash(i)
    PROVE  AlarmOK'
<1>1. /\ UNCHANGED db /\ \A j \in Pass \ {i} : pass'[j] = pass[j]
      /\ \A r, s \in pass'[i].cur : r = s
      /\ ~Calm(i)'
  <2>1. CASE FailSeries(i)
    BY <2>1 DEF FailSeries, TypeOK, PassState, AlarmOK, Calm
  <2>2. CASE EndPass(i) \/ Crash(i)
    BY <2>2 DEF EndPass, Crash, TypeOK, Resting, Calm
  <2> QED
    BY <2>1, <2>2
<1>2. "calm" \notin alarm'
  <2>1. CASE EndPass(i)
    <3>1. ASSUME pass[i].calm, NEW s \in Series, rule[s] = "active"
          PROVE  Due(s, pass[i].at) = {}
      BY <2>1, <3>1 DEF AlarmOK, Calm, Covered, Pending, EndPass
    <3> QED
      BY <2>1, <3>1 DEF EndPass, AlarmOK
  <2>2. CASE FailSeries(i) \/ Crash(i)
    BY <2>2 DEF FailSeries, Crash, AlarmOK
  <2> QED
    BY <2>1, <2>2
<1> QED
  BY <1>1, <1>2, AlarmPass

LEMMA AlarmClick ==
    ASSUME TypeOK, AlarmOK, NEW c \in Click, StartClick(c) \/ FinishClick(c)
    PROVE  AlarmOK'
<1>1. pass' = pass /\ alarm' = alarm
  BY DEF StartClick, FinishClick
<1>2. CASE UNCHANGED db
  BY <1>1, <1>2, SameKept, AlarmKept DEF AlarmOK, Exists, db, Calm
<1>3. CASE ~UNCHANGED db
  <2>1. PICK s \in click[c].s : Make(s, click[c].n)
    BY <1>3 DEF StartClick, FinishClick
  <2>2. s \in Series /\ click[c].n \in Seq
    BY <1>3, <2>1, SeriesAssumption DEF TypeOK, ClickState, NoClick, StartClick, FinishClick
  <2>3. \A r \in Series : rule[r] = "active" => Kept(r)
    BY <2>1, <2>2, MakeKept
  <2>4. rule' = rule /\ \A r \in Series : rows[r] \subseteq rows'[r]
    BY <2>1, <2>2, MakeGrows
  <2>5. \A r \in Series : Exists(r) => Exists(r)'
    BY <2>1, <2>2, MakeGrows
  <2>6. \A r \in Source : task'[r][1] # "gone" => 1 \in rows'[r]
    BY <2>1, <2>2, MakeGrows DEF AlarmOK
  <2>7. \A r \in Series : rule'[r] = "active" => Exists(r)'
    BY <2>4, <2>5 DEF AlarmOK
  <2>8. \A r \in Series : rule'[r] = "active" => Kept(r)
    BY <2>3, <2>4
  <2> QED
    BY <1>1, <2>6, <2>7, <2>8, AlarmKept DEF Calm
<1> QED
  BY <1>2, <1>3

\* What users do that can make something due: no pass is calm after it.
LEMMA AlarmDisturb ==
    ASSUME TypeOK, AlarmOK, Disturb, alarm' = alarm,
           \A s \in Series : rule'[s] = "active" => Exists(s)',
           \A s \in Source : task'[s][1] # "gone" => 1 \in rows'[s]
    PROVE  AlarmOK'
<1>1. \A i \in Pass : pass'[i].cur = pass[i].cur /\ ~Calm(i)'
  <2> TAKE i \in Pass
  <2>1. pass[i] \in PassState
    BY DEF TypeOK
  <2>2. pass'[i] = IF pass[i].pc = "rest" THEN pass[i] ELSE [pass[i] EXCEPT !.calm = FALSE]
    BY DEF Disturb
  <2> QED
    BY <2>1, <2>2 DEF PassState, Calm
<1> QED
  BY <1>1, AlarmKept

LEMMA AlarmUsers ==
    ASSUME TypeOK, AlarmOK, NEW s \in Series, NEW n \in Seq,
           Complete(s, n) \/ Reopen(s, n) \/ DeleteTask(s, n)
    PROVE  AlarmOK'
<1>1. rule' = rule /\ alarm' = alarm
  BY DEF Complete, Reopen, DeleteTask
<1>2. /\ \A r \in Series : Exists(r) => Exists(r)'
      /\ \A r \in Source : (task[r][1] # "gone" => 1 \in rows[r]) =>
                           (task'[r][1] # "gone" => 1 \in rows'[r])
  <2>1. 1 \in Seq
    BY TimeAssumption DEF Seq
  <2>2. CASE Complete(s, n) \/ Reopen(s, n)
    <3>1. \A r \in Series : task'[r][1] = "gone" <=> task[r][1] = "gone"
      BY <2>1, <2>2 DEF Complete, Reopen, TypeOK
    <3>2. rows' = rows
      BY <2>2 DEF Complete, Reopen
    <3> QED
      BY <1>1, <3>1, <3>2 DEF Exists, Series
  <2>3. CASE DeleteTask(s, n)
    <3>1. \A r \in Source : task'[r][1] = task[r][1]
      BY <2>1, <2>3 DEF DeleteTask, TypeOK, Series
    <3>2. \A r \in Source : 1 \in rows[r] => 1 \in rows'[r]
      BY <2>3 DEF DeleteTask, TypeOK, Series
    <3> QED
      BY <1>1, <3>1, <3>2 DEF Exists, Series
  <2> QED
    BY <2>2, <2>3
<1>3. /\ \A r \in Series : rule'[r] = "active" => Exists(r)'
      /\ \A r \in Source : task'[r][1] # "gone" => 1 \in rows'[r]
  BY <1>1, <1>2 DEF AlarmOK
<1>4. CASE Disturb
  BY <1>1, <1>3, <1>4, AlarmDisturb
<1>5. CASE ~Disturb
  <2>1. /\ pass' = pass /\ rows' = rows /\ doneAt' = doneAt
        /\ \A r \in Series, m \in Seq : task'[r][m] = "done" => task[r][m] = "done"
    <3>1. CASE Reopen(s, n)
      BY <3>1 DEF Reopen, TypeOK
    <3>2. CASE DeleteTask(s, n)
      <4>1. s \notin Source
        BY <1>5, <3>2 DEF DeleteTask
      <4>2. pass' = pass /\ doneAt' = doneAt /\ task' = [task EXCEPT ![s][n] = "gone"]
        BY <3>2, <4>1 DEF DeleteTask
      <4>3. rows' = rows
        BY <3>2, <4>1 DEF DeleteTask, TypeOK
      <4> QED
        BY <4>2, <4>3 DEF TypeOK
    <3> QED
      BY <1>5, <3>1, <3>2 DEF Complete
  <2>2. ASSUME NEW r \in Series, rule'[r] = "active" PROVE Kept(r)
    <3>1. 1 \in Seq /\ rows[r] \subseteq Seq
      BY TimeAssumption DEF Seq, TypeOK
    <3>2. \A t \in Nat, m \in Seq : m \in FixedDue(rows[r], t)' => m \in FixedDue(rows[r], t)
      BY <2>1 DEF FixedDue, DueAt
    <3>3. \A t \in Nat, m \in Seq : m \in RelativeDue(r, t)' => m \in RelativeDue(r, t)
      BY <2>1, <3>1 DEF RelativeDue, DueAt
    <3> QED
      BY <1>1, <2>1, <2>2, <3>1, <3>2, <3>3 DEF Kept, Due
  <2> QED
    BY <1>1, <1>3, <2>1, <2>2, AlarmKept DEF Calm
<1> QED
  BY <1>4, <1>5

LEMMA AlarmSeries ==
    ASSUME TypeOK, AlarmOK, NEW s \in Series, DeleteSource(s) \/ DeleteTemplate(s)
    PROVE  AlarmOK'
<1>1. /\ rule' = [rule EXCEPT ![s] = "none"] /\ task' = [task EXCEPT ![s] = [n \in Seq |-> "gone"]]
      /\ rows' = [rows EXCEPT ![s] = {}]
      /\ UNCHANGED <<now, doneAt, pass, click, alarm, faults, log>>
  BY DEF DeleteSource, DeleteTemplate
<1>2. 1 \in Seq
  BY TimeAssumption DEF Seq
<1>3. \A r \in Series : r # s => rule'[r] = rule[r] /\ task'[r] = task[r] /\ rows'[r] = rows[r]
  BY <1>1 DEF TypeOK
<1>4. rule'[s] = "none" /\ task'[s][1] = "gone"
  BY <1>1, <1>2 DEF TypeOK
<1>5. ASSUME NEW r \in Series, rule'[r] = "active" PROVE Kept(r) /\ Exists(r)'
  BY <1>1, <1>3, <1>4, <1>5, SameKept DEF AlarmOK, Exists
<1>6. \A r \in Source : task'[r][1] # "gone" => 1 \in rows'[r]
  BY <1>3, <1>4 DEF AlarmOK, Series
<1> QED
  BY <1>1, <1>5, <1>6, AlarmKept DEF Calm

LEMMA AlarmRule ==
    ASSUME TypeOK, AlarmOK, NEW s \in Series, NEW r \in {"active", "paused", "none"}, SetRule(s, r)
    PROVE  AlarmOK'
<1>1. /\ rule' = [rule EXCEPT ![s] = r] /\ Exists(s) /\ (r = "none" => s \in Source)
      /\ UNCHANGED <<now, rows, task, doneAt, click, alarm, faults, log>>
  BY DEF SetRule
<1>2. \A q \in Series : rule'[q] = "active" => Exists(q)'
  BY <1>1, SeriesAssumption DEF AlarmOK, Exists, TypeOK
<1>3. \A q \in Source : task'[q][1] # "gone" => 1 \in rows'[q]
  BY <1>1 DEF AlarmOK
<1>4. CASE r = "active"
  BY <1>1, <1>2, <1>3, <1>4, AlarmDisturb DEF SetRule
<1>5. CASE r # "active"
  <2>1. ASSUME NEW q \in Series, rule'[q] = "active" PROVE Kept(q)
    BY <1>1, <1>5, <2>1, SameKept DEF TypeOK
  <2> QED
    BY <1>1, <1>2, <1>3, <1>5, <2>1, AlarmKept DEF SetRule, Calm
<1> QED
  BY <1>4, <1>5

LEMMA AlarmNext == IInv /\ AlarmOK /\ [Next]_vars => AlarmOK'
<1> SUFFICES ASSUME IInv, AlarmOK, [Next]_vars PROVE AlarmOK'
  OBVIOUS
<1>0. TypeOK
  BY DEF IInv
<1>1. CASE UNCHANGED vars \/ Tick
  <2>1. UNCHANGED <<db, pass, alarm>>
    BY <1>1 DEF vars, Tick, db
  <2> QED
    BY <1>0, <2>1, SameKept, AlarmKept DEF AlarmOK, Exists, db, Calm
<1>2. ASSUME NEW i \in Pass, Step(i) \/ FailSeries(i) \/ Crash(i) PROVE AlarmOK'
  <2>1. CASE OpenSource(i)
    <3>1. pass[i].todo \subseteq Source
      BY <2>1 DEF IInv, ClaimsOK, OpenSource
    <3> QED
      BY <1>0, <2>1, <3>1, AlarmOpenSource
  <2> QED
    BY <1>0, <1>2, <2>1, AlarmStart, AlarmOpenTemplate, AlarmOpenSources, AlarmFire,
       AlarmStop DEF Step
<1>3. ASSUME NEW c \in Click, StartClick(c) \/ FinishClick(c) PROVE AlarmOK'
  BY <1>0, <1>3, AlarmClick
<1>4. ASSUME NEW s \in Series, DeleteSource(s) \/ DeleteTemplate(s) PROVE AlarmOK'
  BY <1>0, <1>4, AlarmSeries
<1>5. ASSUME NEW s \in Series, NEW r \in {"active", "paused", "none"}, SetRule(s, r)
      PROVE  AlarmOK'
  BY <1>0, <1>5, AlarmRule
<1>6. ASSUME NEW s \in Series, NEW n \in Seq,
             Complete(s, n) \/ Reopen(s, n) \/ DeleteTask(s, n)
      PROVE  AlarmOK'
  BY <1>0, <1>6, AlarmUsers
<1> QED
  BY <1>1, <1>2, <1>3, <1>4, <1>5, <1>6 DEF Next

\* A pass that no user disturbed and in which nothing failed reports nothing left
\* undone, whatever the clock, the other passes and the clicks do meanwhile.
THEOREM AlarmTheorem == Spec => []AlarmMeansTrouble
<1>1. Init => AlarmOK
  <2> SUFFICES ASSUME Init PROVE AlarmOK
    OBVIOUS
  <2>1. 1 \in Seq
    BY TimeAssumption DEF Seq
  <2>2. \A s \in Series : Exists(s)
    BY <2>1 DEF Init, Exists
  <2>3. \A s \in Source : 1 \in rows[s]
    BY DEF Init, Series
  <2>4. \A i \in Pass : pass[i].cur = {} /\ pass[i].pc = "rest"
    BY DEF Init, Resting
  <2> QED
    BY <2>2, <2>3, <2>4 DEF Init, AlarmOK, Calm
<1>2. AlarmOK => AlarmMeansTrouble
  BY DEF AlarmOK, AlarmMeansTrouble
<1> QED
  BY <1>1, <1>2, AlarmNext, InvHolds, PTL DEF Spec
=============================================================================
