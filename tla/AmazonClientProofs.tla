------------------------ MODULE AmazonClientProofs -------------------------
(***************************************************************************)
(* Proofs about AmazonClient: the attempts are as far apart as the pacer   *)
(* says, and a request fails for its token only when that was revoked; and *)
(* about ListingSweep, which makes the requests: every listing is answered *)
(* for once, with prices of its own, and the sweep stops only when down.   *)
(***************************************************************************)
EXTENDS AmazonClient, ListingSweep, Integers, FiniteSetTheorems, TLAPS

CallState ==
    [pc : {"idle", "token", "mint", "minted", "attempt", "pacing", "sent", "backoff", "rejected"},
     turn : {"first", "again"}, token : SUBSET Nat, attempt : Nat, until : Int, gap : Nat,
     revoked : BOOLEAN]

SentState == [slot : Nat, gap : Nat, at : Nat]

ClientTypes ==
    /\ clock \in Nat /\ spacing \in Nat \ {0} /\ nextAt \in Nat /\ valid \in Nat
    /\ cache \subseteq Nat /\ call \in [Caller -> CallState] /\ sent \subseteq SentState

\* The token that was minted for the second try is the one in force, or was revoked.
TokenOK ==
    \A c \in Caller :
        call[c].turn = "again" /\ call[c].pc # "token" /\ call[c].pc # "mint" =>
            call[c].token = {valid} \/ call[c].revoked

\* Two slots, the earlier one with its spacing, do not overlap.
Apart(s, g, t, h) == s + g <= t \/ t + h <= s

\* Every slot taken is before the next one, and apart from the others.
SlotsOK ==
    /\ \A x \in sent : x.gap # 0 /\ x.slot <= x.at /\ x.at <= x.slot + MaxLag /\ x.slot + x.gap <= nextAt
    /\ \A x, y \in sent : x # y => Apart(x.slot, x.gap, y.slot, y.gap)
    /\ \A c \in Caller : call[c].pc = "pacing" =>
          /\ call[c].until \in Nat /\ call[c].gap # 0 /\ call[c].until + call[c].gap <= nextAt
          /\ clock <= call[c].until + MaxLag
          /\ \A x \in sent : Apart(call[c].until, call[c].gap, x.slot, x.gap)
          /\ \A d \in Caller \ {c} : call[d].pc = "pacing" =>
                Apart(call[c].until, call[c].gap, call[d].until, call[d].gap)

\* A request that is not under way is as good as new.
ClientIdle == \A c \in Caller : call[c].pc = "idle" => call[c].turn = "first"

ClientInv == ClientTypes /\ TokenOK /\ SlotsOK /\ ClientIdle /\ RejectedMeansRevoked

\* A step of one call, which takes no slot and sends nothing.
LEMMA CallKeeps ==
    ASSUME ClientInv, NEW c \in Caller, NEW q \in CallState,
           call' = [call EXCEPT ![c] = q], q.pc # "pacing",
           q.turn = "again" /\ q.pc # "token" /\ q.pc # "mint" => q.token = {valid} \/ q.revoked,
           q.pc = "idle" => q.turn = "first", q.pc = "rejected" => q.revoked,
           UNCHANGED <<clock, nextAt, valid, sent>>, spacing' \in Nat \ {0}, cache' \subseteq Nat
    PROVE  ClientInv'
<1>1. call' \in [Caller -> CallState] /\ \A d \in Caller : call'[d] = IF d = c THEN q ELSE call[d]
  BY DEF ClientInv, ClientTypes
<1>2. ClientTypes'
  BY <1>1 DEF ClientInv, ClientTypes
<1>3. TokenOK'
  BY <1>1 DEF ClientInv, TokenOK
<1>4. SlotsOK'
  BY <1>1 DEF ClientInv, SlotsOK
<1>5. ClientIdle' /\ RejectedMeansRevoked'
  BY <1>1 DEF ClientInv, ClientIdle, RejectedMeansRevoked
<1> QED
  BY <1>2, <1>3, <1>4, <1>5 DEF ClientInv

LEMMA NoCallState == NoCall \in CallState /\ NoCall.pc = "idle" /\ NoCall.turn = "first"
BY DEF NoCall, CallState

LEMMA BackoffInt ==
    ASSUME NEW a \in Nat, NEW more \in {0, 1}
    PROVE  Backoff(a, more) \in Int
<1>1. 2 ^ a \in Int
  BY Z3
<1> DEFINE power == 2 ^ a
<1> HIDE DEF power
<1>2. power \in Int
  BY <1>1 DEF power
<1>3. BackoffBase * power + more \in Int
  BY <1>2, PaceAssumption
<1> QED
  BY <1>3, PaceAssumption DEF Backoff, power

LEMMA TokenSteps ==
    ASSUME ClientInv, NEW c \in Caller, BeginCall(c) \/ GetToken(c) \/ Issue(c) \/ FillCache(c)
    PROVE  ClientInv'
<1>1. call[c] \in CallState /\ cache \subseteq Nat /\ valid \in Nat /\ spacing \in Nat \ {0}
  BY DEF ClientInv, ClientTypes
<1>2. CASE BeginCall(c)
  <2> DEFINE q == [call[c] EXCEPT !.pc = "token"]
  <2>1. q \in CallState /\ q.pc = "token"
    BY <1>1 DEF CallState
  <2>2. call' = [call EXCEPT ![c] = q]
    BY <1>2 DEF BeginCall, Go, ClientInv, ClientTypes
  <2> HIDE DEF q
  <2> QED
    BY <1>1, <1>2, <2>1, <2>2, CallKeeps DEF BeginCall
<1>3. CASE GetToken(c)
  <2> DEFINE q == [call[c] EXCEPT !.token = Cached(c), !.attempt = 0,
                                  !.pc = IF Cached(c) = {} THEN "mint" ELSE "attempt"]
  <2>1. Cached(c) \subseteq Nat /\ (call[c].turn = "again" => Cached(c) = {})
    BY <1>1 DEF Cached
  <2>2. /\ q \in CallState /\ (q.turn = "again" => q.pc = "mint")
        /\ q.pc \in {"mint", "attempt"}
    BY <1>1, <2>1 DEF CallState
  <2>3. call' = [call EXCEPT ![c] = q]
    BY <1>3 DEF GetToken, ClientInv, ClientTypes
  <2> HIDE DEF q
  <2> QED
    BY <1>1, <1>3, <2>2, <2>3, CallKeeps DEF GetToken
<1>4. CASE Issue(c)
  <2> DEFINE q == [call[c] EXCEPT !.token = {valid}, !.pc = "minted", !.revoked = FALSE]
  <2>1. q \in CallState /\ q.token = {valid} /\ q.pc = "minted"
    BY <1>1 DEF CallState
  <2>2. call' = [call EXCEPT ![c] = q] \/ call' = [call EXCEPT ![c] = NoCall]
    BY <1>4 DEF Issue, ClientInv, ClientTypes
  <2> HIDE DEF q
  <2> QED
    BY <1>1, <1>4, <2>1, <2>2, CallKeeps, NoCallState DEF Issue
<1>5. CASE FillCache(c)
  <2> DEFINE q == [call[c] EXCEPT !.pc = "attempt"]
  <2>1. /\ q \in CallState /\ q.pc = "attempt" /\ q.turn = call[c].turn
        /\ q.token = call[c].token /\ q.revoked = call[c].revoked /\ call[c].token \subseteq Nat
    BY <1>1 DEF CallState
  <2>2. call' = [call EXCEPT ![c] = q]
    BY <1>5 DEF FillCache, Go, ClientInv, ClientTypes
  <2>3. call[c].turn = "again" => call[c].token = {valid} \/ call[c].revoked
    BY <1>5 DEF FillCache, ClientInv, TokenOK
  <2> HIDE DEF q
  <2> QED
    BY <1>1, <1>5, <2>1, <2>2, <2>3, CallKeeps DEF FillCache
<1> QED
  BY <1>2, <1>3, <1>4, <1>5

\* After an attempt: the answer, a rejection, another try, or the error.
LEMMA AnswerSteps ==
    ASSUME ClientInv, NEW c \in Caller,
           Answer(c) \/ Reject(c) \/ Retry(c) \/ EndBackoff(c) \/ EndCall(c)
    PROVE  ClientInv'
<1>1. call[c] \in CallState /\ cache \subseteq Nat /\ clock \in Nat /\ spacing \in Nat \ {0}
  BY DEF ClientInv, ClientTypes
<1>2. CASE Answer(c) \/ EndCall(c)
  <2>1. spacing' \in Nat \ {0}
    <3>1. CASE EndCall(c)
      BY <1>1, <3>1 DEF EndCall
    <3>2. CASE Answer(c)
      <4>1. PICK limit \in Limits \cup {0} : spacing' = Larger(spacing, limit)
        BY <3>2 DEF Answer
      <4>2. limit \in Nat
        BY PaceAssumption
      <4> QED
        BY <1>1, <4>1, <4>2 DEF Larger
    <3> QED
      BY <1>2, <3>1, <3>2
  <2> QED
    BY <1>1, <1>2, <2>1, CallKeeps, NoCallState DEF Answer, EndCall
<1>3. CASE Reject(c)
  <2> DEFINE q == [call[c] EXCEPT !.turn = "again",
                                  !.pc = IF call[c].turn = "again" THEN "rejected" ELSE "token"]
  <2>1. /\ q \in CallState /\ q.pc \in {"token", "rejected"}
        /\ q.pc = "token" \/ (call[c].turn = "again" /\ q.revoked = call[c].revoked)
    BY <1>1 DEF CallState
  <2>2. call' = [call EXCEPT ![c] = q]
    BY <1>3 DEF Reject, ClientInv, ClientTypes
  <2>3. call[c].turn = "again" => call[c].revoked
    BY <1>3 DEF Reject, ClientInv, TokenOK
  <2> HIDE DEF q
  <2> QED
    BY <1>1, <1>3, <2>1, <2>2, <2>3, CallKeeps DEF Reject
<1>4. CASE Retry(c)
  <2>1. call[c].turn = "again" => call[c].token = {valid} \/ call[c].revoked
    BY <1>4 DEF Retry, ClientInv, TokenOK
  <2>2. CASE call' = [call EXCEPT ![c] = NoCall]
    BY <1>1, <1>4, <2>2, CallKeeps, NoCallState DEF Retry
  <2>3. ASSUME NEW more \in {0, 1},
               call' = [call EXCEPT ![c].pc = "backoff", ![c].attempt = @ + 1,
                                    ![c].until = clock + Backoff(call[c].attempt, more)]
        PROVE  ClientInv'
    <3> DEFINE until == clock + Backoff(call[c].attempt, more)
               q == [call[c] EXCEPT !.pc = "backoff", !.attempt = @ + 1, !.until = until]
    <3>1. until \in Int /\ call[c].attempt + 1 \in Nat
      BY <1>1, BackoffInt DEF CallState
    <3>2. call' = [call EXCEPT ![c] = q]
      BY <2>3 DEF ClientInv, ClientTypes
    <3> HIDE DEF until
    <3>3. /\ q \in CallState /\ q.pc = "backoff" /\ q.turn = call[c].turn
          /\ q.token = call[c].token /\ q.revoked = call[c].revoked
      BY <1>1, <3>1 DEF CallState
    <3> HIDE DEF q
    <3> QED
      BY <1>1, <1>4, <2>1, <3>2, <3>3, CallKeeps DEF Retry
  <2> QED
    BY <1>4, <2>2, <2>3 DEF Retry
<1>5. CASE EndBackoff(c)
  <2> DEFINE q == [call[c] EXCEPT !.pc = "attempt"]
  <2>1. /\ q \in CallState /\ q.pc = "attempt" /\ q.turn = call[c].turn
        /\ q.token = call[c].token /\ q.revoked = call[c].revoked
    BY <1>1 DEF CallState
  <2>2. call' = [call EXCEPT ![c] = q]
    BY <1>5 DEF EndBackoff, Go, ClientInv, ClientTypes
  <2>3. call[c].turn = "again" => call[c].token = {valid} \/ call[c].revoked
    BY <1>5 DEF EndBackoff, ClientInv, TokenOK
  <2> HIDE DEF q
  <2> QED
    BY <1>1, <1>5, <2>1, <2>2, <2>3, CallKeeps DEF EndBackoff
<1> QED
  BY <1>2, <1>3, <1>4, <1>5

\* A slot taken is the last one so far.
LEMMA AcquireKeeps ==
    ASSUME ClientInv, NEW c \in Caller, Acquire(c)
    PROVE  ClientInv'
<1> DEFINE slot == Slot(c)
           q == [call[c] EXCEPT !.pc = "pacing", !.until = slot, !.gap = spacing]
<1>1. /\ call[c] \in CallState /\ clock \in Nat /\ nextAt \in Nat /\ spacing \in Nat \ {0}
      /\ call[c].pc = "attempt"
  BY DEF ClientInv, ClientTypes, Acquire
<1>2. slot \in Nat /\ clock <= slot /\ nextAt <= slot
  BY <1>1 DEF Slot, Larger
<1>3. /\ call' = [call EXCEPT ![c] = q] /\ nextAt' = slot + spacing
      /\ UNCHANGED <<clock, spacing, cache, valid, sent>>
  BY DEF Acquire, ClientInv, ClientTypes
<1> HIDE DEF slot
<1>4. /\ q \in CallState /\ q.pc = "pacing" /\ q.until = slot /\ q.gap = spacing
      /\ q.turn = call[c].turn /\ q.token = call[c].token /\ q.revoked = call[c].revoked
  <2>1. slot \in Int /\ spacing \in Nat
    BY <1>1, <1>2
  <2> QED
    BY <1>1, <2>1 DEF CallState
<1> HIDE DEF q
<1>5. \A d \in Caller : call'[d] = IF d = c THEN q ELSE call[d]
  BY <1>3 DEF ClientInv, ClientTypes
<1>6. ClientTypes'
  BY <1>1, <1>2, <1>3, <1>4 DEF ClientInv, ClientTypes
<1>7. TokenOK'
  BY <1>1, <1>3, <1>4, <1>5 DEF ClientInv, TokenOK
<1>8. SlotsOK'
  <2>1. ASSUME NEW x \in sent
        PROVE  /\ x.slot + x.gap <= slot /\ x.slot + x.gap <= nextAt' /\ x.gap # 0
               /\ x.slot \in Nat /\ x.gap \in Nat
    <3>1. x.slot \in Nat /\ x.gap \in Nat
      BY DEF ClientInv, ClientTypes, SentState
    <3>2. x.slot + x.gap <= nextAt /\ x.gap # 0
      BY DEF ClientInv, SlotsOK
    <3> QED
      BY <1>1, <1>2, <1>3, <3>1, <3>2
  <2>2. ASSUME NEW d \in Caller, d # c, call[d].pc = "pacing"
        PROVE  /\ call[d].until + call[d].gap <= slot /\ call[d].gap # 0
               /\ call[d].until + call[d].gap <= nextAt'
    <3>1. call[d] \in CallState
      BY DEF ClientInv, ClientTypes
    <3>2. call[d].until + call[d].gap <= nextAt /\ call[d].gap # 0 /\ call[d].until \in Nat
      BY <2>2 DEF ClientInv, SlotsOK
    <3> QED
      BY <1>1, <1>2, <1>3, <3>1, <3>2 DEF CallState
  <2>3. clock <= slot + MaxLag
    BY <1>1, <1>2, PaceAssumption
  <2>4. spacing # 0 /\ slot + spacing <= nextAt'
    BY <1>1, <1>2, <1>3
  <2> QED
    BY <1>2, <1>3, <1>4, <1>5, <2>1, <2>2, <2>3, <2>4 DEF ClientInv, SlotsOK, Apart
<1>9. ClientIdle' /\ RejectedMeansRevoked'
  BY <1>4, <1>5 DEF ClientInv, ClientIdle, RejectedMeansRevoked
<1> QED
  BY <1>6, <1>7, <1>8, <1>9 DEF ClientInv

\* The slot that was taken is used.
LEMMA SendKeeps ==
    ASSUME ClientInv, NEW c \in Caller, Send(c)
    PROVE  ClientInv'
<1> DEFINE q == [call[c] EXCEPT !.pc = "sent"]
           x == [slot |-> call[c].until, gap |-> call[c].gap, at |-> clock]
<1>1. /\ call[c] \in CallState /\ clock \in Nat /\ nextAt \in Nat
      /\ call[c].pc = "pacing" /\ call[c].until <= clock
  BY DEF ClientInv, ClientTypes, Send, CallState
<1>2. /\ call[c].until \in Nat /\ call[c].gap # 0 /\ call[c].until + call[c].gap <= nextAt
      /\ clock <= call[c].until + MaxLag
      /\ \A y \in sent : Apart(call[c].until, call[c].gap, y.slot, y.gap)
      /\ \A d \in Caller \ {c} : call[d].pc = "pacing" =>
            Apart(call[c].until, call[c].gap, call[d].until, call[d].gap)
  BY <1>1 DEF ClientInv, SlotsOK
<1>3. /\ call' = [call EXCEPT ![c] = q] /\ sent' = sent \cup {x}
      /\ UNCHANGED <<clock, spacing, nextAt, cache, valid>>
  BY DEF Send, Go, ClientInv, ClientTypes
<1>4. /\ q \in CallState /\ q.pc = "sent" /\ q.turn = call[c].turn
      /\ q.token = call[c].token /\ q.revoked = call[c].revoked
  BY <1>1 DEF CallState
<1>5. /\ x \in SentState /\ x.slot = call[c].until /\ x.gap = call[c].gap /\ x.at = clock
  BY <1>1, <1>2 DEF SentState, CallState
<1> HIDE DEF q, x
<1>6. \A d \in Caller : call'[d] = IF d = c THEN q ELSE call[d]
  BY <1>3 DEF ClientInv, ClientTypes
<1>7. ClientTypes'
  BY <1>3, <1>4, <1>5 DEF ClientInv, ClientTypes
<1>8. TokenOK'
  BY <1>1, <1>3, <1>4, <1>6 DEF ClientInv, TokenOK
<1>9. SlotsOK'
  <2>1. \A y \in sent' : y.gap # 0 /\ y.slot <= y.at /\ y.at <= y.slot + MaxLag
                         /\ y.slot + y.gap <= nextAt'
    BY <1>1, <1>2, <1>3, <1>5 DEF ClientInv, SlotsOK
  <2>2. \A y, z \in sent' : y # z => Apart(y.slot, y.gap, z.slot, z.gap)
    <3>1. \A y \in sent : Apart(x.slot, x.gap, y.slot, y.gap)
                          /\ Apart(y.slot, y.gap, x.slot, x.gap)
      BY <1>2, <1>5 DEF Apart
    <3> QED
      BY <1>3, <3>1 DEF ClientInv, SlotsOK
  <2>3. ASSUME NEW d \in Caller, call'[d].pc = "pacing"
        PROVE  /\ call'[d].until \in Nat /\ call'[d].gap # 0
               /\ call'[d].until + call'[d].gap <= nextAt'
               /\ clock' <= call'[d].until + MaxLag
               /\ \A y \in sent' : Apart(call'[d].until, call'[d].gap, y.slot, y.gap)
               /\ \A e \in Caller \ {d} : call'[e].pc = "pacing" =>
                     Apart(call'[d].until, call'[d].gap, call'[e].until, call'[e].gap)
    <3>1. d # c /\ call'[d] = call[d]
      BY <1>4, <1>6, <2>3
    <3>2. Apart(call[d].until, call[d].gap, x.slot, x.gap)
      BY <1>2, <1>5, <2>3, <3>1 DEF Apart
    <3> QED
      BY <1>3, <1>4, <1>6, <2>3, <3>1, <3>2 DEF ClientInv, SlotsOK
  <2> QED
    BY <2>1, <2>2, <2>3 DEF SlotsOK
<1>10. ClientIdle' /\ RejectedMeansRevoked'
  BY <1>4, <1>6 DEF ClientInv, ClientIdle, RejectedMeansRevoked
<1> QED
  BY <1>7, <1>8, <1>9, <1>10 DEF ClientInv

LEMMA RevokeKeeps ==
    ASSUME ClientInv, Revoke
    PROVE  ClientInv'
<1>1. ASSUME NEW c \in Caller
      PROVE  /\ call'[c] \in CallState /\ call'[c].pc = call[c].pc /\ call'[c].until = call[c].until
             /\ call'[c].gap = call[c].gap /\ (call'[c].pc = "idle" => call'[c] = call[c])
             /\ call'[c].pc # "idle" => call'[c].revoked
  <2>1. call[c] \in CallState
    BY DEF ClientInv, ClientTypes
  <2>2. call'[c] = IF call[c].pc = "idle" THEN call[c] ELSE [call[c] EXCEPT !.revoked = TRUE]
    BY DEF Revoke
  <2> QED
    BY <2>1, <2>2 DEF CallState
<1>2. valid' = valid + 1 /\ UNCHANGED <<clock, spacing, nextAt, cache, sent>>
  BY DEF Revoke
<1>3. call' \in [Caller -> CallState]
  BY <1>1 DEF Revoke
<1>4. ClientTypes'
  BY <1>2, <1>3 DEF ClientInv, ClientTypes
<1>5. TokenOK'
  <2>1. \A c \in Caller : call[c].pc = "idle" => call[c].turn = "first"
    BY DEF ClientInv, ClientIdle
  <2> QED
    BY <1>1, <2>1 DEF TokenOK
<1>6. SlotsOK'
  BY <1>1, <1>2 DEF ClientInv, SlotsOK
<1>7. ClientIdle' /\ RejectedMeansRevoked'
  BY <1>1 DEF ClientInv, ClientIdle, RejectedMeansRevoked
<1> QED
  BY <1>4, <1>5, <1>6, <1>7 DEF ClientInv

LEMMA OthersKeep ==
    ASSUME ClientInv, ExpireToken \/ TickClock \/ UNCHANGED client
    PROVE  ClientInv'
<1>1. UNCHANGED <<spacing, nextAt, valid, call, sent>> /\ cache' \subseteq Nat
  BY DEF ExpireToken, TickClock, client, ClientInv, ClientTypes
<1>2. /\ clock' \in Nat
      /\ \A c \in Caller : call[c].pc = "pacing" => clock' <= call[c].until + MaxLag
  <2>1. CASE clock' = clock
    BY <2>1 DEF ClientInv, ClientTypes, SlotsOK
  <2>2. CASE TickClock
    <3>1. clock' = clock + 1 /\ clock \in Nat
      BY <2>2 DEF TickClock, ClientInv, ClientTypes
    <3>2. ASSUME NEW c \in Caller, call[c].pc = "pacing" PROVE clock + 1 <= call[c].until + MaxLag
      BY <2>2, <3>1, <3>2, PaceAssumption DEF TickClock, ClientInv, SlotsOK
    <3> QED
      BY <3>1, <3>2
  <2> QED
    BY <2>1, <2>2 DEF ExpireToken, client
<1>3. ClientTypes' /\ TokenOK' /\ ClientIdle' /\ RejectedMeansRevoked'
  BY <1>1, <1>2 DEF ClientInv, ClientTypes, TokenOK, ClientIdle, RejectedMeansRevoked
<1>4. SlotsOK'
  BY <1>1, <1>2 DEF ClientInv, SlotsOK
<1> QED
  BY <1>3, <1>4 DEF ClientInv

LEMMA ClientInitInv == ClientInit => ClientInv
<1> SUFFICES ASSUME ClientInit PROVE ClientInv
  OBVIOUS
<1>1. call = [c \in Caller |-> NoCall] /\ sent = {}
  BY DEF ClientInit
<1>2. ClientTypes
  BY <1>1, NoCallState, PaceAssumption DEF ClientInit, ClientTypes
<1>3. TokenOK /\ SlotsOK /\ ClientIdle /\ RejectedMeansRevoked
  BY <1>1, NoCallState DEF TokenOK, SlotsOK, ClientIdle, RejectedMeansRevoked
<1> QED
  BY <1>2, <1>3 DEF ClientInv

LEMMA ClientNextInv == ClientInv /\ [ClientNext]_client => ClientInv'
<1> SUFFICES ASSUME ClientInv, [ClientNext]_client PROVE ClientInv'
  OBVIOUS
<1>1. ASSUME NEW c \in Caller,
             \/ BeginCall(c) \/ GetToken(c) \/ Issue(c) \/ FillCache(c)
             \/ Acquire(c) \/ Send(c) \/ Answer(c) \/ Reject(c) \/ Retry(c) \/ EndBackoff(c)
             \/ EndCall(c)
      PROVE  ClientInv'
  BY <1>1, TokenSteps, AnswerSteps, AcquireKeeps, SendKeeps
<1>2. CASE ExpireToken \/ Revoke \/ TickClock \/ UNCHANGED client
  BY <1>2, RevokeKeeps, OthersKeep
<1> QED
  BY <1>1, <1>2 DEF ClientNext

\* No two attempts have one slot, and they go out as far apart as the spacing, for any
\* number of requests, retries and limits that Amazon reports.
THEOREM PacedTheorem == ClientSpec => []Paced
<1>1. ASSUME ClientInv PROVE Paced
  <2> SUFFICES ASSUME NEW x \in sent, NEW y \in sent
               PROVE  /\ x.slot = y.slot => x = y
                      /\ x.slot < y.slot => /\ x.slot + x.gap <= y.slot
                                            /\ x.at + x.gap <= y.at + MaxLag
    BY DEF Paced
  <2>1. /\ x.slot \in Nat /\ x.gap \in Nat /\ x.at \in Nat
        /\ y.slot \in Nat /\ y.gap \in Nat /\ y.at \in Nat
    BY <1>1 DEF ClientInv, ClientTypes, SentState
  <2>2. x.gap # 0 /\ y.gap # 0 /\ x.at <= x.slot + MaxLag /\ y.slot <= y.at
    BY <1>1 DEF ClientInv, SlotsOK
  <2>3. x # y => x.slot + x.gap <= y.slot \/ y.slot + y.gap <= x.slot
    BY <1>1 DEF ClientInv, SlotsOK, Apart
  <2> QED
    BY <2>1, <2>2, <2>3, PaceAssumption
<1> QED
  BY <1>1, ClientInitInv, ClientNextInv, PTL DEF ClientSpec

\* A request fails for its token only when the token of its second try was revoked.
THEOREM RejectedTheorem == ClientSpec => []RejectedMeansRevoked
<1>1. ClientInv => RejectedMeansRevoked
  BY DEF ClientInv
<1> QED
  BY <1>1, ClientInitInv, ClientNextInv, PTL DEF ClientSpec

-----------------------------------------------------------------------------
(* The sweep of the listings.                                              *)

Draft == [sku : Sku, about : Sku, named : BOOLEAN]

Reason == {"not-returned", "pricing-unavailable", "catalog-unavailable", "batch-failed", "sweep-aborted"}

SweepTypes ==
    /\ todo \subseteq Sku /\ snapshots \subseteq Draft /\ skipped \subseteq Sku \X Reason
    /\ failures \in [batch : Nat, catalog : Nat] /\ aborted \in BOOLEAN
    /\ catalogued \subseteq Sku /\ tried \in Seq({"ok", "failed"})

\* Of a listing still to come there is nothing, and of any other one thing.
OneEach ==
    /\ \A d \in snapshots : d.sku \notin todo
    /\ \A x \in skipped : x[1] \notin todo
    /\ \A d, e \in snapshots : d.sku = e.sku => d = e
    /\ \A x, y \in skipped : x[1] = y[1] => x = y
    /\ \A s \in Sku \ todo :
          (\E d \in snapshots : d.sku = s) <=> ~(\E x \in skipped : x[1] = s)

\* failures.batch is the length of the run of failed batches the sweep ends with.
RunOK ==
    /\ failures.batch <= Len(tried)
    /\ \A i \in DOMAIN tried : i > Len(tried) - failures.batch => tried[i] = "failed"
    /\ \A i \in DOMAIN tried : i = Len(tried) - failures.batch => tried[i] = "ok"
    /\ aborted <=> failures.batch >= MaxConsecutiveFailures

SweepInv == SweepTypes /\ OneEach /\ RunOK /\ TrustedOnly

\* Two answers for one listing are one: the first that names it, or else the one in its
\* place, which is not asked twice.
LEMMA OneAnswer ==
    ASSUME NEW B \in SUBSET Sku, NEW asked \in SetToSeqs(B), NEW answers \in Answers(B), NEW s \in B,
           NEW a \in AnswerFor(asked, answers, s), NEW b \in AnswerFor(asked, answers, s)
    PROVE  a = b
<1>1. Cardinality(B) \in Nat
  BY SweepAssumption, FS_Subset, FS_CardinalityType
<1> DEFINE Reply == {x \in [about : B, names : SUBSET B, good : BOOLEAN] : x.names \in {{}, {x.about}}}
           naming == {i \in DOMAIN answers : answers[i].names = {s}}
<1>2. PICK n \in 0..Cardinality(B) : answers \in [1..n -> Reply]
  BY DEF Answers, SeqOf
<1>3. DOMAIN answers = 1..n /\ n \in Nat /\ \A i \in 1..n : i \in 1..Cardinality(B)
  BY <1>1, <1>2
<1>4. \A i, j \in 1..Cardinality(B) : i # j => asked[i] # asked[j]
  BY DEF SetToSeqs
<1>5. CASE naming # {}
  <2>1. AnswerFor(asked, answers, s) = {answers[i] : i \in {j \in naming : \A k \in naming : j <= k}}
    BY <1>5 DEF AnswerFor
  <2>2. \A i, j \in {k \in naming : \A l \in naming : k <= l} : i = j
    BY <1>3
  <2> HIDE DEF naming
  <2> QED
    BY <2>1, <2>2
<1>6. CASE naming = {}
  <2>1. AnswerFor(asked, answers, s)
          = {answers[i] : i \in {j \in DOMAIN answers : asked[j] = s /\ answers[j].names = {}}}
    BY <1>6 DEF AnswerFor
  <2> QED
    BY <1>3, <1>4, <2>1
<1> QED
  BY <1>5, <1>6

\* An answer is used for a listing it names, or it names none.
LEMMA OwnAnswer ==
    ASSUME NEW B \in SUBSET Sku, NEW asked, NEW answers \in Answers(B), NEW s \in B,
           NEW a \in AnswerFor(asked, answers, s)
    PROVE  a.about \in B /\ (a.about = s \/ a.names = {})
<1> DEFINE Reply == {x \in [about : B, names : SUBSET B, good : BOOLEAN] : x.names \in {{}, {x.about}}}
<1>1. PICK n \in 0..Cardinality(B) : answers \in [1..n -> Reply]
  BY DEF Answers, SeqOf
<1>2. PICK i \in DOMAIN answers : a = answers[i] /\ (answers[i].names = {s} \/ answers[i].names = {})
  BY DEF AnswerFor
<1>3. a \in Reply
  BY <1>1, <1>2
<1> QED
  BY <1>2, <1>3

\* What a batch gives: of the listings returned at most one draft each, with its prices.
FetchOK(B, f) ==
    /\ f.returned \subseteq B /\ f.drafts \subseteq Draft
    /\ \A d \in f.drafts : d.sku \in f.returned /\ (d.about = d.sku \/ ~d.named)
    /\ \A d, e \in f.drafts : d.sku = e.sku => d = e

LEMMA FetchedOK ==
    ASSUME NEW B \in SUBSET Sku, NEW f \in Fetched(B)
    PROVE  FetchOK(B, f)
<1>1. PICK asked \in SetToSeqs(B), R \in SUBSET B, answers \in Answers(B) :
        f = [returned |-> R, drafts |-> Drafted(asked, answers, R)]
  BY DEF Fetched
<1>2. \A d \in f.drafts : \E s \in R : \E a \in AnswerFor(asked, answers, s) :
        d = [sku |-> s, about |-> a.about, named |-> a.names # {}]
  BY <1>1 DEF Drafted
<1>3. f.returned \subseteq B /\ f.returned = R
  BY <1>1
<1>4. ASSUME NEW d \in f.drafts
      PROVE  d \in Draft /\ d.sku \in R /\ (d.about = d.sku \/ ~d.named)
  <2>0. PICK s \in R : \E a \in AnswerFor(asked, answers, s) :
          d = [sku |-> s, about |-> a.about, named |-> a.names # {}]
    BY <1>2
  <2>1. PICK a \in AnswerFor(asked, answers, s) :
          d = [sku |-> s, about |-> a.about, named |-> a.names # {}]
    BY <2>0
  <2>2. a.about \in B /\ (a.about = s \/ a.names = {})
    BY OwnAnswer
  <2> QED
    BY <2>1, <2>2 DEF Draft
<1>5. ASSUME NEW d \in f.drafts, NEW e \in f.drafts, d.sku = e.sku
      PROVE  d = e
  <2>1. PICK s \in R : \E a \in AnswerFor(asked, answers, s) :
          d = [sku |-> s, about |-> a.about, named |-> a.names # {}]
    BY <1>2
  <2>2. PICK t \in R : \E b \in AnswerFor(asked, answers, t) :
          e = [sku |-> t, about |-> b.about, named |-> b.names # {}]
    BY <1>2
  <2>3. s = t
    BY <1>5, <2>1, <2>2
  <2> QED
    BY <2>1, <2>2, <2>3, OneAnswer
<1> QED
  BY <1>3, <1>4, <1>5 DEF FetchOK

LEMMA AppendOK ==
    ASSUME SweepTypes, NEW x \in {"ok", "failed"}
    PROVE  /\ Append(tried, x) \in Seq({"ok", "failed"})
           /\ Len(Append(tried, x)) = Len(tried) + 1 /\ Len(tried) \in Nat
           /\ DOMAIN Append(tried, x) = 1..(Len(tried) + 1) /\ DOMAIN tried = 1..Len(tried)
           /\ \A i \in 1..(Len(tried) + 1) :
                 Append(tried, x)[i] = IF i = Len(tried) + 1 THEN x ELSE tried[i]
BY DEF SweepTypes

\* A batch that went well, of which the drafts left out are those of some resold listings.
LEMMA StoreKeeps ==
    ASSUME SweepInv, ~aborted, NEW B \in SUBSET todo, NEW f \in Fetched(B),
           NEW dropped \in {{}, Gaps(f)}, Store(B, f, dropped)
    PROVE  /\ OneEach' /\ todo' \subseteq Sku /\ snapshots' \subseteq Draft
           /\ skipped' \subseteq Sku \X Reason
           /\ \A d \in snapshots' \ snapshots :
                 /\ d \in f.drafts /\ d.sku \notin dropped
                 /\ d.about = d.sku \/ ~d.named
<1> DEFINE kept == {d \in f.drafts : d.sku \notin dropped}
           had == {d.sku : d \in f.drafts}
           left == Skip(B \ f.returned, "not-returned")
                     \cup Skip(f.returned \ had, "pricing-unavailable")
                     \cup Skip(dropped, "catalog-unavailable")
<1>1. B \subseteq Sku /\ FetchOK(B, f)
  BY FetchedOK DEF SweepInv, SweepTypes
<1>2. snapshots' = snapshots \cup kept /\ skipped' = skipped \cup left /\ todo' = todo \ B
  BY DEF Store
<1>3. dropped \subseteq had /\ had \subseteq f.returned /\ f.returned \subseteq B
  BY <1>1 DEF FetchOK, Gaps
<1>4. \A x : x \in left <=> \E s \in B :
        \/ s \notin f.returned /\ x = <<s, "not-returned">>
        \/ s \in f.returned \ had /\ x = <<s, "pricing-unavailable">>
        \/ s \in dropped /\ x = <<s, "catalog-unavailable">>
  BY <1>3 DEF Skip
<1> HIDE DEF left
<1>5. kept \subseteq Draft /\ \A d \in kept : d.sku \in B /\ (d.about = d.sku \/ ~d.named)
  BY <1>1 DEF FetchOK
<1>6. \A d, e \in kept : d.sku = e.sku => d = e
  BY <1>1 DEF FetchOK
<1>7. left \subseteq Sku \X Reason /\ \A x \in left : x[1] \in B
  BY <1>1, <1>4 DEF Reason
<1>8. \A x, y \in left : x[1] = y[1] => x = y
  BY <1>3, <1>4
<1>9. \A s \in B : (\E d \in kept : d.sku = s) <=> s \in had \ dropped
  OBVIOUS
<1>10. \A s \in B : (\E x \in left : x[1] = s) <=> s \notin had \ dropped
  <2>1. ASSUME NEW s \in B, NEW x \in left, x[1] = s PROVE s \notin had \ dropped
    BY <1>3, <1>4, <2>1
  <2>2. ASSUME NEW s \in B, s \notin had \ dropped PROVE \E x \in left : x[1] = s
    <3>1. s \notin f.returned \/ s \in f.returned \ had \/ s \in dropped
      BY <2>2
    <3>2. \E reason : <<s, reason>> \in left
      BY <1>4, <3>1
    <3> QED
      BY <3>2
  <2> QED
    BY <2>1, <2>2
<1>11. \A s \in B : (\E d \in kept : d.sku = s) <=> ~(\E x \in left : x[1] = s)
  BY <1>9, <1>10
<1>12. \A d \in kept : d \in f.drafts /\ d.sku \notin dropped
  OBVIOUS
<1> HIDE DEF kept, had
<1>13. OneEach'
  <2>1. \A d \in snapshots' : d.sku \notin todo'
    BY <1>2, <1>5 DEF SweepInv, OneEach
  <2>2. \A x \in skipped' : x[1] \notin todo'
    BY <1>2, <1>7 DEF SweepInv, OneEach
  <2>3. \A d, e \in snapshots' : d.sku = e.sku => d = e
    BY <1>2, <1>5, <1>6 DEF SweepInv, OneEach
  <2>4. \A x, y \in skipped' : x[1] = y[1] => x = y
    BY <1>2, <1>7, <1>8 DEF SweepInv, OneEach
  <2>5. \A s \in Sku \ todo' : (\E d \in snapshots' : d.sku = s) <=> ~(\E x \in skipped' : x[1] = s)
    <3> SUFFICES ASSUME NEW s \in Sku \ todo'
                 PROVE  (\E d \in snapshots' : d.sku = s) <=> ~(\E x \in skipped' : x[1] = s)
      OBVIOUS
    <3>1. CASE s \in B
      BY <1>2, <1>11, <3>1 DEF SweepInv, OneEach
    <3>2. CASE s \notin B
      BY <1>2, <1>5, <1>7, <3>2 DEF SweepInv, OneEach
    <3> QED
      BY <3>1, <3>2
  <2> QED
    BY <2>1, <2>2, <2>3, <2>4, <2>5 DEF OneEach
<1> QED
  BY <1>2, <1>5, <1>7, <1>12, <1>13 DEF SweepInv, SweepTypes

\* A batch of which nothing is known: each of its listings is skipped, for one reason.
LEMMA SkipKeeps ==
    ASSUME SweepInv, NEW B \in SUBSET todo, NEW reason \in Reason,
           skipped' = skipped \cup Skip(B, reason), todo' = todo \ B, snapshots' = snapshots
    PROVE  OneEach' /\ todo' \subseteq Sku /\ skipped' \subseteq Sku \X Reason
<1>1. \A x : x \in Skip(B, reason) <=> \E s \in B : x = <<s, reason>>
  BY DEF Skip
<1> DEFINE left == Skip(B, reason)
<1>2. B \subseteq Sku /\ B \subseteq todo
  BY DEF SweepInv, SweepTypes
<1>3. left \subseteq Sku \X Reason /\ \A x \in left : x[1] \in B
  BY <1>1, <1>2
<1>4. \A x, y \in left : x[1] = y[1] => x = y
  BY <1>1
<1>5. \A s \in B : <<s, reason>> \in left
  BY <1>1
<1>6. \A s \in B : \E x \in left : x[1] = s
  BY <1>5
<1> HIDE DEF left
<1>7. skipped' = skipped \cup left
  BY DEF left
<1>8. \A x, y \in skipped' : x[1] = y[1] => x = y
  BY <1>2, <1>3, <1>4, <1>7 DEF SweepInv, OneEach
<1>9. \A s \in Sku \ todo' : (\E d \in snapshots' : d.sku = s) <=> ~(\E x \in skipped' : x[1] = s)
  <2> SUFFICES ASSUME NEW s \in Sku \ todo'
               PROVE  (\E d \in snapshots' : d.sku = s) <=> ~(\E x \in skipped' : x[1] = s)
    OBVIOUS
  <2>1. CASE s \in B
    BY <1>2, <1>6, <1>7, <2>1 DEF SweepInv, OneEach
  <2>2. CASE s \notin B
    BY <1>3, <1>7, <2>2 DEF SweepInv, OneEach
  <2> QED
    BY <2>1, <2>2
<1>10. (\A d \in snapshots' : d.sku \notin todo') /\ (\A x \in skipped' : x[1] \notin todo')
  BY <1>3, <1>7 DEF SweepInv, OneEach
<1> QED
  BY <1>3, <1>7, <1>8, <1>9, <1>10 DEF SweepInv, SweepTypes, OneEach

\* After a batch that went well the run of failures is empty.
LEMMA RunEnds ==
    ASSUME SweepInv, ~aborted, aborted' = aborted, failures'.batch = 0, tried' = Append(tried, "ok")
    PROVE  RunOK'
BY AppendOK, SweepAssumption DEF SweepInv, RunOK

\* A sweep that begins.
LEMMA BeginKeeps ==
    ASSUME todo' = Sku, snapshots' = {}, skipped' = {}, failures' = [batch |-> 0, catalog |-> 0],
           aborted' = FALSE, catalogued' = {}, tried' = <<>>
    PROVE  SweepInv'
<1>1. SweepTypes'
  <2>1. failures' \in [batch : Nat, catalog : Nat] /\ aborted' \in BOOLEAN
    OBVIOUS
  <2>2. tried' \in Seq({"ok", "failed"})
    OBVIOUS
  <2>3. todo' \subseteq Sku /\ snapshots' \subseteq Draft /\ skipped' \subseteq Sku \X Reason
        /\ catalogued' \subseteq Sku
    OBVIOUS
  <2> QED
    BY <2>1, <2>2, <2>3 DEF SweepTypes
<1>2. OneEach' /\ TrustedOnly'
  BY DEF OneEach, TrustedOnly
<1>3. failures'.batch = 0 /\ Len(tried') = 0 /\ DOMAIN tried' = {}
  OBVIOUS
<1>4. RunOK'
  BY <1>3, SweepAssumption DEF RunOK
<1> QED
  BY <1>1, <1>2, <1>4 DEF SweepInv

LEMMA SweepNextKeeps == SweepInv /\ [SweepNext]_sweep => SweepInv'
<1> SUFFICES ASSUME SweepInv, [SweepNext]_sweep PROVE SweepInv'
  OBVIOUS
<1>0. \A B \in Batches : B \in SUBSET todo
  BY DEF Batches
<1>1. CASE UNCHANGED sweep
  BY <1>1 DEF sweep, SweepInv, SweepTypes, OneEach, RunOK, TrustedOnly
<1>2. CASE SweepAgain
  BY <1>2, BeginKeeps DEF SweepAgain
<1>3. ASSUME NEW B \in Batches, SweepBatch(B) PROVE SweepInv'
  <2>1. PICK f \in Fetched(B) :
          /\ Store(B, f, {}) /\ catalogued' = catalogued \cup Gaps(f)
          /\ failures' = [batch |-> 0, catalog |-> IF Gaps(f) = {} THEN failures.catalog ELSE 0]
    BY <1>3 DEF SweepBatch
  <2>2. ~aborted /\ aborted' = aborted /\ tried' = Append(tried, "ok")
    BY <1>3, <2>1 DEF SweepBatch, Store
  <2>3. /\ OneEach' /\ todo' \subseteq Sku /\ snapshots' \subseteq Draft /\ skipped' \subseteq Sku \X Reason
        /\ \A d \in snapshots' \ snapshots : d \in f.drafts /\ (d.about = d.sku \/ ~d.named)
    BY <1>0, <2>1, <2>2, StoreKeeps
  <2>4. RunOK'
    BY <2>1, <2>2, RunEnds
  <2>5. TrustedOnly'
    BY <2>1, <2>3 DEF SweepInv, TrustedOnly, Gaps
  <2>6. SweepTypes'
    BY <2>1, <2>2, <2>3, AppendOK, SweepAssumption DEF SweepInv, SweepTypes, Gaps
  <2> QED
    BY <2>3, <2>4, <2>5, <2>6 DEF SweepInv
<1>4. ASSUME NEW B \in Batches, SweepUnfilled(B) PROVE SweepInv'
  <2>1. PICK f \in Fetched(B) : Store(B, f, Gaps(f))
    BY <1>4 DEF SweepUnfilled
  <2>2. ~aborted /\ aborted' = aborted /\ tried' = Append(tried, "ok") /\ catalogued' = catalogued
    BY <1>4, <2>1 DEF SweepUnfilled, Store
  <2>3. /\ OneEach' /\ todo' \subseteq Sku /\ snapshots' \subseteq Draft /\ skipped' \subseteq Sku \X Reason
        /\ \A d \in snapshots' \ snapshots :
              d \in f.drafts /\ d.sku \notin Gaps(f) /\ (d.about = d.sku \/ ~d.named)
    BY <1>0, <2>1, <2>2, StoreKeeps
  <2>4. failures' \in [batch : Nat, catalog : Nat] /\ failures'.batch = 0
    BY <1>4, SweepAssumption DEF SweepUnfilled, Smaller, SweepInv, SweepTypes
  <2>5. RunOK'
    BY <2>2, <2>4, RunEnds
  <2>6. TrustedOnly'
    BY <2>2, <2>3 DEF SweepInv, TrustedOnly, Gaps
  <2>7. SweepTypes'
    BY <2>2, <2>3, <2>4, AppendOK DEF SweepInv, SweepTypes
  <2> QED
    BY <2>3, <2>5, <2>6, <2>7 DEF SweepInv
<1>5. ASSUME NEW B \in Batches, FailBatch(B) PROVE SweepInv'
  <2>1. /\ failures' = [failures EXCEPT !.batch = @ + 1] /\ tried' = Append(tried, "failed")
        /\ aborted' = (failures'.batch >= MaxConsecutiveFailures)
        /\ UNCHANGED <<snapshots, catalogued>>
    BY <1>5 DEF FailBatch
  <2>2. OneEach' /\ todo' \subseteq Sku /\ skipped' \subseteq Sku \X Reason
    BY <1>0, <1>5, SkipKeeps DEF FailBatch, Reason
  <2>3. failures' \in [batch : Nat, catalog : Nat] /\ failures'.batch = failures.batch + 1
    BY <2>1 DEF SweepInv, SweepTypes
  <2>4. SweepTypes'
    <3>1. tried' \in Seq({"ok", "failed"})
      BY <2>1, AppendOK DEF SweepInv
    <3>2. aborted' \in BOOLEAN
      BY <2>1
    <3>3. snapshots' \subseteq Draft /\ catalogued' \subseteq Sku
      BY <2>1 DEF SweepInv, SweepTypes
    <3> QED
      BY <2>2, <2>3, <3>1, <3>2, <3>3 DEF SweepTypes
  <2>5. RunOK'
    <3>1. /\ Len(tried') = Len(tried) + 1 /\ Len(tried) \in Nat
          /\ DOMAIN tried' = 1..(Len(tried) + 1) /\ DOMAIN tried = 1..Len(tried)
          /\ \A i \in 1..(Len(tried) + 1) :
                tried'[i] = IF i = Len(tried) + 1 THEN "failed" ELSE tried[i]
      BY <2>1, AppendOK DEF SweepInv
    <3>2. failures.batch \in Nat /\ failures.batch <= Len(tried)
      BY DEF SweepInv, SweepTypes, RunOK
    <3>3. \A i \in DOMAIN tried' : i > Len(tried') - failures'.batch => tried'[i] = "failed"
      BY <2>3, <3>1, <3>2 DEF SweepInv, RunOK
    <3>4. \A i \in DOMAIN tried' : i = Len(tried') - failures'.batch => tried'[i] = "ok"
      BY <2>3, <3>1, <3>2 DEF SweepInv, RunOK
    <3>5. aborted' <=> failures'.batch >= MaxConsecutiveFailures
      BY <2>1
    <3> QED
      BY <2>3, <3>1, <3>2, <3>3, <3>4, <3>5 DEF RunOK
  <2>6. TrustedOnly'
    BY <2>1 DEF SweepInv, TrustedOnly
  <2> QED
    BY <2>2, <2>4, <2>5, <2>6 DEF SweepInv
<1>6. ASSUME NEW B \in Batches, SkipBatch(B) PROVE SweepInv'
  <2>1. UNCHANGED <<snapshots, failures, aborted, catalogued, tried>>
    BY <1>6 DEF SkipBatch
  <2>2. OneEach' /\ todo' \subseteq Sku /\ skipped' \subseteq Sku \X Reason
    BY <1>0, <1>6, SkipKeeps DEF SkipBatch, Reason
  <2> QED
    BY <2>1, <2>2 DEF SweepInv, SweepTypes, RunOK, TrustedOnly
<1> QED
  BY <1>1, <1>2, <1>3, <1>4, <1>5, <1>6 DEF SweepNext

LEMMA SweepInvariance == SweepSpec => []SweepInv
<1>1. SweepInit => SweepInv
  <2> SUFFICES ASSUME SweepInit PROVE SweepInv
    OBVIOUS
  <2>1. SweepTypes
    <3>1. failures \in [batch : Nat, catalog : Nat] /\ aborted \in BOOLEAN
      BY DEF SweepInit
    <3>2. tried \in Seq({"ok", "failed"})
      BY DEF SweepInit
    <3>3. todo \subseteq Sku /\ snapshots \subseteq Draft /\ skipped \subseteq Sku \X Reason
          /\ catalogued \subseteq Sku
      BY DEF SweepInit
    <3> QED
      BY <3>1, <3>2, <3>3 DEF SweepTypes
  <2>2. OneEach /\ TrustedOnly
    BY DEF SweepInit, OneEach, TrustedOnly
  <2>3. failures.batch = 0 /\ Len(tried) = 0 /\ DOMAIN tried = {} /\ ~aborted
    BY DEF SweepInit
  <2>4. RunOK
    BY <2>3, SweepAssumption DEF RunOK
  <2> QED
    BY <2>1, <2>2, <2>4 DEF SweepInv
<1> QED
  BY <1>1, SweepNextKeeps, PTL DEF SweepSpec

\* sweepMonitoredListings answers for every listing, and for none twice, however the calls
\* of its batches and the batches themselves fail, and however their answers are mixed up.
THEOREM EachOnceTheorem == SweepSpec => []EachOnce
<1>1. ASSUME SweepInv, NEW s \in Sku
      PROVE  Cardinality({d \in snapshots : d.sku = s}) + Cardinality({x \in skipped : x[1] = s})
               = (IF s \in todo THEN 0 ELSE 1)
  <2> DEFINE D == {d \in snapshots : d.sku = s}
             X == {x \in skipped : x[1] = s}
  <2>2. s \in todo => D = {} /\ X = {}
    BY <1>1 DEF SweepInv, OneEach
  <2>3. s \notin todo => (D = {} <=> X # {})
    BY <1>1 DEF SweepInv, OneEach
  <2>4. D # {} => \E d : D = {d}
    BY <1>1 DEF SweepInv, OneEach
  <2>5. X # {} => \E x : X = {x}
    BY <1>1 DEF SweepInv, OneEach
  <2> HIDE DEF D, X
  <2>6. Cardinality({}) = 0 /\ \A x : Cardinality({x}) = 1
    BY FS_EmptySet, FS_Singleton
  <2>7. (D = {} => Cardinality(D) = 0) /\ (D # {} => Cardinality(D) = 1)
    BY <2>4, <2>6
  <2>8. (X = {} => Cardinality(X) = 0) /\ (X # {} => Cardinality(X) = 1)
    BY <2>5, <2>6
  <2>9. Cardinality(D) + Cardinality(X) = (IF s \in todo THEN 0 ELSE 1)
    BY <2>2, <2>3, <2>7, <2>8
  <2> QED
    BY <2>9 DEF D, X
<1>2. SweepInv => EachOnce
  BY <1>1 DEF EachOnce
<1> QED
  BY <1>2, SweepInvariance, PTL

\* matchAnswersToSkus and fillCatalogGaps: no listing is saved with the prices of another,
\* nor a resold one without its content.
THEOREM TrustedTheorem == SweepSpec => []TrustedOnly
<1>1. SweepInv => TrustedOnly
  BY DEF SweepInv
<1> QED
  BY <1>1, SweepInvariance, PTL

\* A sweep stops exactly when so many batches in a row have failed.
THEOREM StopsTheorem == SweepSpec => []StopsWhenDown
<1>1. ASSUME SweepInv PROVE StopsWhenDown
  <2>1. /\ Len(tried) \in Nat /\ DOMAIN tried = 1..Len(tried) /\ failures.batch \in Nat
        /\ MaxConsecutiveFailures \in Nat \ {0}
    BY <1>1, SweepAssumption DEF SweepInv, SweepTypes
  <2>2. CASE failures.batch >= MaxConsecutiveFailures
    <3>1. Len(tried) >= MaxConsecutiveFailures
      BY <1>1, <2>1, <2>2 DEF SweepInv, RunOK
    <3>2. \A i \in Len(tried) + 1 - MaxConsecutiveFailures .. Len(tried) : tried[i] = "failed"
      BY <1>1, <2>1, <2>2, <3>1 DEF SweepInv, RunOK
    <3> QED
      BY <1>1, <2>2, <3>1, <3>2 DEF StopsWhenDown, SweepInv, RunOK
  <2>3. CASE ~(failures.batch >= MaxConsecutiveFailures)
    <3>1. ~aborted
      BY <1>1, <2>3 DEF SweepInv, RunOK
    <3> SUFFICES ASSUME Len(tried) >= MaxConsecutiveFailures
                 PROVE  \E i \in Len(tried) + 1 - MaxConsecutiveFailures .. Len(tried) : tried[i] # "failed"
      BY <3>1 DEF StopsWhenDown
    <3> DEFINE i == Len(tried) - failures.batch
    <3>2. i \in Len(tried) + 1 - MaxConsecutiveFailures .. Len(tried) /\ i \in DOMAIN tried
      BY <2>1, <2>3
    <3>3. tried[i] = "ok"
      BY <1>1, <3>2 DEF SweepInv, RunOK
    <3> QED
      BY <3>2, <3>3
  <2> QED
    BY <2>2, <2>3
<1> QED
  BY <1>1, SweepInvariance, PTL
=============================================================================
