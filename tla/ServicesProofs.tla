--------------------------- MODULE ServicesProofs ---------------------------
(***************************************************************************)
(* Proofs about the small services: the unread count, the delivery of a    *)
(* mail, the prices that are compared, the duties and who holds them, who  *)
(* reports to whom, the time entries of a day, and the business clock.     *)
(* Each specification is on its own, as in MCServices.                     *)
(***************************************************************************)
EXTENDS UnreadBell, MailDelivery, PriceWatch, DutyBook, Organization, TimeDays, BusinessClock,
        FiniteSetTheorems, TLAPS

-----------------------------------------------------------------------------
(* The unread count.                                                       *)

PollState ==
    [pc : {"idle", "count"}]
    \cup [pc : {"store"}, value : Count, since : Nat, crossed : BOOLEAN]

BellTypes ==
    /\ now \in Nat /\ unread \in Count /\ own \in BOOLEAN
    /\ memo \subseteq [at : Nat, value : Count, crossed : BOOLEAN]
    /\ poll \in [Tab -> PollState] /\ lastTrue \in [Count -> Nat]

\* A count that was read was true then, and it is still one of the true ones unless
\* the user changed something since.
PollsOK ==
    \A c \in Tab : poll[c].pc = "store" =>
        /\ poll[c].since <= lastTrue[poll[c].value] /\ now <= poll[c].since + MaxCompute
        /\ poll[c].crossed \/ poll[c].value \in trueSince

MemoOK ==
    \A e \in memo :
        /\ e.at <= lastTrue[e.value] + MaxCompute
        /\ e.crossed \/ own \/ e.value \in trueSince

BellInv ==
    /\ BellTypes /\ PollsOK /\ MemoOK
    /\ lastTrue[unread] = now /\ unread \in trueSince /\ \A v \in Count : lastTrue[v] <= now

LEMMA BellInitInv == BellInit => BellInv
<1> SUFFICES ASSUME BellInit PROVE BellInv
  OBVIOUS
<1>1. poll \in [Tab -> PollState] /\ \A c \in Tab : poll[c].pc = "idle"
  BY DEF BellInit, PollState
<1>2. memo = {} /\ own = FALSE /\ now = 0 /\ unread \in Count /\ unread \in trueSince
  BY DEF BellInit
<1>3. lastTrue \in [Count -> Nat] /\ \A v \in Count : lastTrue[v] = 0
  BY DEF BellInit
<1>4. BellTypes
  BY <1>1, <1>2, <1>3 DEF BellTypes
<1> QED
  BY <1>1, <1>2, <1>3, <1>4 DEF BellInv, PollsOK, MemoOK

\* A count that becomes true, by the user or elsewhere.
LEMMA Becomes ==
    ASSUME BellInv, NEW v \in Count, BecomesTrue(v)
    PROVE  /\ unread' = v /\ lastTrue' \in [Count -> Nat] /\ lastTrue'[v] = now
           /\ \A w \in Count : lastTrue[w] <= lastTrue'[w] /\ lastTrue'[w] <= now
<1>1. /\ unread' = v /\ lastTrue' = [lastTrue EXCEPT ![v] = now, ![unread] = now]
      /\ lastTrue \in [Count -> Nat] /\ now \in Nat /\ unread \in Count
      /\ \A w \in Count : lastTrue[w] <= now
  BY DEF BellInv, BellTypes, BecomesTrue
<1>2. lastTrue' \in [Count -> Nat]
  BY <1>1
<1>3. ASSUME NEW w \in Count
      PROVE  lastTrue'[w] = IF w = v \/ w = unread THEN now ELSE lastTrue[w]
  BY <1>1
<1>4. \A w \in Count : lastTrue[w] \in Nat
  BY <1>1
<1> QED
  BY <1>1, <1>2, <1>3, <1>4

LEMMA BellNextInv == BellInv /\ [BellNext]_bell => BellInv'
<1> SUFFICES ASSUME BellInv, [BellNext]_bell PROVE BellInv'
  OBVIOUS
<1> USE BellAssumption
<1>1. ASSUME NEW c \in Tab, Poll(c) PROVE BellInv'
  <2>1. poll' \in [Tab -> PollState] /\ \A d \in Tab : d # c => poll'[d] = poll[d]
    BY <1>1 DEF BellInv, BellTypes, Poll, PollState
  <2>2. poll'[c].pc = "count"
    BY <1>1 DEF BellInv, BellTypes, Poll
  <2> QED
    BY <1>1, <2>1, <2>2 DEF BellInv, BellTypes, PollsOK, MemoOK, Poll
<1>2. ASSUME NEW c \in Tab, CountUnread(c) PROVE BellInv'
  <2> DEFINE q == [pc |-> "store", value |-> unread, since |-> now, crossed |-> own]
  <2>1. q \in PollState /\ q.pc = "store" /\ q.value = unread /\ q.since = now /\ q.crossed = own
    BY DEF BellInv, BellTypes, PollState
  <2>2. poll' = [poll EXCEPT ![c] = q] /\ UNCHANGED <<now, unread, memo, own, lastTrue, trueSince>>
    BY <1>2 DEF CountUnread
  <2> HIDE DEF q
  <2>3. BellTypes'
    BY <2>1, <2>2 DEF BellInv, BellTypes
  <2>4. PollsOK' /\ MemoOK'
    BY <2>1, <2>2 DEF BellInv, BellTypes, PollsOK, MemoOK
  <2> QED
    BY <2>2, <2>3, <2>4 DEF BellInv
<1>3. ASSUME NEW c \in Tab, StoreMemo(c) PROVE BellInv'
  <2> DEFINE e == [at |-> now, value |-> poll[c].value, crossed |-> poll[c].crossed \/ own]
  <2>1. /\ poll[c].pc = "store" /\ poll[c] \in PollState
        /\ poll[c].since <= lastTrue[poll[c].value] /\ now <= poll[c].since + MaxCompute
        /\ poll[c].crossed \/ poll[c].value \in trueSince
    BY <1>3 DEF StoreMemo, BellInv, BellTypes, PollsOK
  <2>2. poll[c].value \in Count /\ poll[c].since \in Nat /\ poll[c].crossed \in BOOLEAN
    BY <2>1 DEF PollState
  <2>3. /\ e \in [at : Nat, value : Count, crossed : BOOLEAN] /\ e.at = now
        /\ e.value = poll[c].value /\ (e.crossed <=> poll[c].crossed \/ own)
    BY <2>2 DEF BellInv, BellTypes
  <2>4. /\ memo' = {e} /\ poll' = [poll EXCEPT ![c] = [pc |-> "idle"]]
        /\ UNCHANGED <<now, unread, own, lastTrue, trueSince>>
    BY <1>3 DEF StoreMemo
  <2> HIDE DEF e
  <2>5. poll' \in [Tab -> PollState] /\ poll'[c].pc = "idle" /\ \A d \in Tab : d # c => poll'[d] = poll[d]
    BY <2>4 DEF BellInv, BellTypes, PollState
  <2>6. now <= lastTrue[poll[c].value] + MaxCompute
    BY <2>1, <2>2 DEF BellInv, BellTypes
  <2>7. BellTypes' /\ PollsOK'
    BY <2>3, <2>4, <2>5 DEF BellInv, BellTypes, PollsOK
  <2>8. MemoOK'
    BY <2>1, <2>3, <2>4, <2>6 DEF MemoOK
  <2> QED
    BY <2>4, <2>7, <2>8 DEF BellInv
<1>4. ASSUME NEW v \in Count, OwnChange(v) PROVE BellInv'
  <2>1. /\ unread' = v /\ lastTrue' \in [Count -> Nat] /\ lastTrue'[v] = now
        /\ \A w \in Count : lastTrue[w] <= lastTrue'[w] /\ lastTrue'[w] <= now
    BY <1>4, Becomes DEF OwnChange
  <2>2. own' = TRUE /\ trueSince' = {v} /\ UNCHANGED <<now, memo>>
    BY <1>4 DEF OwnChange
  <2>3. ASSUME NEW c \in Tab
        PROVE  /\ poll'[c] \in PollState /\ poll'[c].pc = poll[c].pc
               /\ poll[c].pc = "store" =>
                     /\ poll'[c].crossed /\ poll'[c].value = poll[c].value
                     /\ poll'[c].since = poll[c].since /\ poll[c].value \in Count
                     /\ poll[c].since \in Nat
    <3>1. poll[c] \in PollState
      BY DEF BellInv, BellTypes
    <3>2. poll'[c] = IF poll[c].pc = "store" THEN [poll[c] EXCEPT !.crossed = TRUE] ELSE poll[c]
      BY <1>4 DEF OwnChange
    <3> QED
      BY <3>1, <3>2 DEF PollState
  <2>4. poll' \in [Tab -> PollState]
    BY <1>4, <2>3 DEF OwnChange
  <2>5. BellTypes'
    BY <2>1, <2>2, <2>4 DEF BellInv, BellTypes
  <2>6. PollsOK'
    BY <2>1, <2>2, <2>3 DEF BellInv, BellTypes, PollsOK
  <2>7. MemoOK'
    BY <2>1, <2>2 DEF BellInv, BellTypes, MemoOK
  <2> QED
    BY <2>1, <2>2, <2>5, <2>6, <2>7 DEF BellInv
<1>9. ASSUME NEW v \in Count, OwnChangeUntold(v) PROVE BellInv'
  <2>1. /\ unread' = v /\ lastTrue' \in [Count -> Nat] /\ lastTrue'[v] = now
        /\ \A w \in Count : lastTrue[w] <= lastTrue'[w] /\ lastTrue'[w] <= now
    BY <1>9, Becomes DEF OwnChangeUntold
  <2>2. own' = own /\ trueSince' = {v} /\ now' = now
    BY <1>9 DEF OwnChangeUntold
  <2>8. \A f \in memo' : \E e \in memo :
            f.at = e.at /\ f.value = e.value /\ f.crossed /\ f \in [at : Nat, value : Count, crossed : BOOLEAN]
    <3>1. memo \subseteq [at : Nat, value : Count, crossed : BOOLEAN]
      BY DEF BellInv, BellTypes
    <3>2. memo' = {[e EXCEPT !.crossed = TRUE] : e \in memo}
      BY <1>9 DEF OwnChangeUntold
    <3> QED
      BY <3>1, <3>2
  <2>3. ASSUME NEW c \in Tab
        PROVE  /\ poll'[c] \in PollState /\ poll'[c].pc = poll[c].pc
               /\ poll[c].pc = "store" =>
                     /\ poll'[c].crossed /\ poll'[c].value = poll[c].value
                     /\ poll'[c].since = poll[c].since /\ poll[c].value \in Count
                     /\ poll[c].since \in Nat
    <3>1. poll[c] \in PollState
      BY DEF BellInv, BellTypes
    <3>2. poll'[c] = IF poll[c].pc = "store" THEN [poll[c] EXCEPT !.crossed = TRUE] ELSE poll[c]
      BY <1>9 DEF OwnChangeUntold
    <3> QED
      BY <3>1, <3>2 DEF PollState
  <2>4. poll' \in [Tab -> PollState]
    BY <1>9, <2>3 DEF OwnChangeUntold
  <2>5. BellTypes'
    BY <2>1, <2>2, <2>4, <2>8 DEF BellInv, BellTypes
  <2>6. PollsOK'
    BY <2>1, <2>2, <2>3 DEF BellInv, BellTypes, PollsOK
  <2>7. MemoOK'
    BY <2>1, <2>2, <2>8 DEF BellInv, BellTypes, MemoOK
  <2> QED
    BY <2>1, <2>2, <2>5, <2>6, <2>7 DEF BellInv
<1>5. ASSUME NEW v \in Count, Elsewhere(v) PROVE BellInv'
  <2>1. /\ unread' = v /\ lastTrue' \in [Count -> Nat] /\ lastTrue'[v] = now
        /\ \A w \in Count : lastTrue[w] <= lastTrue'[w] /\ lastTrue'[w] <= now
    BY <1>5, Becomes DEF Elsewhere
  <2>2. trueSince' = trueSince \cup {v} /\ UNCHANGED <<now, memo, poll, own>>
    BY <1>5 DEF Elsewhere
  <2>3. PollsOK'
    <3>1. \A c \in Tab : poll[c].pc = "store" => poll[c].value \in Count /\ poll[c].since \in Nat
      BY DEF BellInv, BellTypes, PollState
    <3> QED
      BY <2>1, <2>2, <3>1 DEF BellInv, BellTypes, PollsOK
  <2>4. BellTypes' /\ MemoOK'
    BY <2>1, <2>2 DEF BellInv, BellTypes, MemoOK
  <2> QED
    BY <2>1, <2>2, <2>3, <2>4 DEF BellInv
<1>6. CASE Invalidate
  BY <1>6 DEF Invalidate, BellInv, BellTypes, PollsOK, MemoOK
<1>7. CASE Later
  <2>1. /\ now' = now + 1 /\ lastTrue' = [lastTrue EXCEPT ![unread] = now']
        /\ UNCHANGED <<unread, memo, poll, own, trueSince>>
        /\ \A c \in Tab : poll[c].pc = "store" => now < poll[c].since + MaxCompute
    BY <1>7 DEF Later
  <2>2. /\ now' \in Nat /\ lastTrue' \in [Count -> Nat] /\ lastTrue'[unread] = now'
        /\ \A w \in Count : lastTrue[w] <= lastTrue'[w] /\ lastTrue'[w] <= now'
    BY <2>1 DEF BellInv, BellTypes
  <2>3. PollsOK'
    <3>1. \A c \in Tab : poll[c].pc = "store" => poll[c].value \in Count /\ poll[c].since \in Nat
      BY DEF BellInv, BellTypes, PollState
    <3> QED
      BY <2>1, <2>2, <3>1 DEF BellInv, BellTypes, PollsOK
  <2>4. BellTypes' /\ MemoOK'
    BY <2>1, <2>2 DEF BellInv, BellTypes, MemoOK
  <2> QED
    BY <2>1, <2>2, <2>3, <2>4 DEF BellInv
<1>8. CASE UNCHANGED bell
  BY <1>8 DEF bell, BellInv, BellTypes, PollsOK, MemoOK
<1> QED
  BY <1>1, <1>2, <1>3, <1>4, <1>5, <1>6, <1>7, <1>8, <1>9 DEF BellNext

\* For any number of tabs and any life of the memo, what it answers is recent, and true
\* after the user's own change unless it was read before it and stored after its drop, or
\* the change is one that drops nothing.
THEOREM RecentTheorem == BellSpec => []ServedIsRecent
<1>1. BellInv => ServedIsRecent
  BY BellAssumption DEF BellInv, BellTypes, MemoOK, ServedIsRecent, Memo
<1> QED
  BY <1>1, BellInitInv, BellNextInv, PTL DEF BellSpec
-----------------------------------------------------------------------------
(* The delivery of a mail.                                                 *)

SenderState == [pc : {"idle", "claim", "hand", "direct"}, pending : SUBSET Mail, has : SUBSET Mail]
JobState == [state : {"none", "waiting", "sent", "threw", "recorded", "cleared", "completed", "failed"},
             made : Nat, stalls : Nat]

MailTypes ==
    /\ claimed \subseteq Mail /\ sender \in [Sender -> SenderState] /\ job \in [Mail -> JobState]
    /\ failedRow \in [Mail -> SUBSET {"retrying", "failed"}]
    /\ delivered \in [Mail -> Nat] /\ doubts \in [Mail -> Nat]

Held(x) == \E p \in Sender : x \in sender[p].has

\* The job may still be sent.
Live(x) == job[x].state \in {"waiting", "threw", "recorded", "failed"}

\* A mail has one holder, who has no other; before it is queued, nothing is known of it.
HoldersOK ==
    \A p \in Sender : \A x \in sender[p].has :
        /\ sender[p].pc \in {"hand", "direct"} /\ x \in claimed
        /\ sender[p].pc = "hand" => job[x] = NoJob /\ failedRow[x] = {}
        /\ \A q \in Sender : x \in sender[q].has => p = q
        /\ sender[p].has = {x}

\* Each mail that may still be sent, by a holder or from the queue, leaves room for it.
BudgetOK(x) ==
    /\ delivered[x] <= 1 + doubts[x]
    /\ Held(x) \/ Live(x) => delivered[x] <= doubts[x]
    /\ Held(x) /\ Live(x) => delivered[x] + 1 <= doubts[x]

\* What the table has in each state of the job.
RowsOK(x) ==
    /\ job[x].state \in {"waiting", "threw", "sent"} =>
          /\ job[x].made = 0 => failedRow[x] = {}
          /\ job[x].made \in 1 .. Tries - 1 =>
                failedRow[x] = {"retrying"} \/ (failedRow[x] = {} /\ delivered[x] > 0)
    /\ job[x].state = "recorded" =>
          /\ job[x].made + 1 < Tries => failedRow[x] = {"retrying"}
          /\ job[x].made + 1 >= Tries => failedRow[x] \subseteq {"failed"}
    /\ job[x].state = "failed" => job[x].made >= Tries /\ failedRow[x] \subseteq {"failed"}
    /\ job[x].state \in {"cleared", "completed"} => failedRow[x] = {}

\* Where a mail is.
WhereOK(x) ==
    /\ x \notin claimed => delivered[x] = 0 /\ job[x] = NoJob /\ failedRow[x] = {}
    /\ job[x].state = "none" => job[x] = NoJob
    /\ job[x].state \in {"sent", "cleared", "completed"} => delivered[x] > 0
    /\ x \in claimed /\ delivered[x] = 0 => x \in dropped \/ job[x].state # "none" \/ Held(x)

MailOK(x) == BudgetOK(x) /\ (x \in unlogged \/ RowsOK(x)) /\ WhereOK(x)

MailInv == MailTypes /\ HoldersOK /\ \A x \in Mail : MailOK(x)

LEMMA MailInitInv == MailInit => MailInv
<1> SUFFICES ASSUME MailInit PROVE MailInv
  OBVIOUS
<1>1. NoJob \in JobState /\ NoJob.state = "none" /\ Resting \in SenderState /\ Resting.has = {}
  BY DEF NoJob, JobState, Resting, SenderState
<1>2. MailTypes /\ HoldersOK
  BY <1>1 DEF MailInit, MailTypes, HoldersOK
<1>3. ASSUME NEW x \in Mail PROVE MailOK(x)
  <2>1. /\ job[x] = NoJob /\ delivered[x] = 0 /\ doubts[x] = 0 /\ failedRow[x] = {} /\ claimed = {}
        /\ ~Held(x)
    BY <1>1 DEF MailInit, Held
  <2> QED
    BY <1>1, <2>1 DEF MailOK, BudgetOK, RowsOK, WhereOK, Live
<1> QED
  BY <1>2, <1>3 DEF MailInv

\* The facts about one mail.
LEMMA MailFacts ==
    ASSUME MailInv, NEW x \in Mail
    PROVE  /\ job[x] \in JobState /\ job[x].made \in Nat /\ delivered[x] \in Nat /\ doubts[x] \in Nat
           /\ failedRow[x] \subseteq {"retrying", "failed"} /\ MailOK(x)
BY DEF MailInv, MailTypes, JobState

\* A step of the worker on one job disturbs no other and no holder.
LEMMA JobStep ==
    ASSUME MailInv, NEW x \in Mail, UNCHANGED <<claimed, sender>>, job[x] # NoJob,
           job' \in [Mail -> JobState], failedRow' \in [Mail -> SUBSET {"retrying", "failed"}],
           delivered' \in [Mail -> Nat], doubts' \in [Mail -> Nat],
           \A y \in Mail \ {x} :
              /\ job'[y] = job[y] /\ failedRow'[y] = failedRow[y] /\ delivered'[y] = delivered[y]
              /\ doubts'[y] = doubts[y] /\ (y \in unlogged => y \in unlogged')
              /\ (y \in dropped => y \in dropped'),
           MailOK(x)'
    PROVE  MailInv'
<1>1. MailTypes'
  BY DEF MailInv, MailTypes
<1>2. HoldersOK'
  <2>1. \A p \in Sender : sender[p].has \subseteq Mail
    BY DEF MailInv, MailTypes, SenderState
  <2>2. ASSUME NEW p \in Sender, NEW y \in sender[p].has, sender[p].pc = "hand"
        PROVE  job'[y] = NoJob /\ failedRow'[y] = {}
    <3>1. y \in Mail /\ job[y] = NoJob /\ failedRow[y] = {}
      BY <2>1, <2>2 DEF MailInv, HoldersOK
    <3> QED
      BY <3>1
  <2> QED
    BY <2>2 DEF MailInv, HoldersOK
<1>3. ASSUME NEW y \in Mail PROVE MailOK(y)'
  <2>1. CASE y = x
    <3>1. BudgetOK(x)' /\ (x \in unlogged' \/ RowsOK(x)') /\ WhereOK(x)'
      BY DEF MailOK
    <3>2. BudgetOK(y)'
      BY <2>1, <3>1 DEF BudgetOK, Live, Held
    <3>3. RowsOK(x)' => RowsOK(y)'
      BY <2>1 DEF RowsOK
    <3>4. WhereOK(y)'
      BY <2>1, <3>1 DEF WhereOK, Held
    <3> QED
      BY <2>1, <3>1, <3>2, <3>3, <3>4 DEF MailOK
  <2>2. CASE y # x
    <3>1. /\ job'[y] = job[y] /\ failedRow'[y] = failedRow[y] /\ delivered'[y] = delivered[y]
          /\ doubts'[y] = doubts[y] /\ (y \in unlogged => y \in unlogged')
          /\ (y \in dropped => y \in dropped')
      BY <2>2
    <3>2. Held(y)' = Held(y) /\ claimed' = claimed
      BY DEF Held
    <3>3. BudgetOK(y)'
      BY <3>1, <3>2, MailFacts DEF MailOK, BudgetOK, Live
    <3>4. RowsOK(y) => RowsOK(y)'
      BY <3>1 DEF RowsOK
    <3>5. WhereOK(y)'
      BY <3>1, <3>2, MailFacts DEF MailOK, WhereOK
    <3> QED
      BY <3>1, <3>3, <3>4, <3>5, MailFacts DEF MailOK
  <2> QED
    BY <2>1, <2>2
<1> QED
  BY <1>1, <1>2, <1>3 DEF MailInv

\* The states in which a job is not NoJob.
LEMMA HasJob ==
    ASSUME NEW x \in Mail, job[x].state # "none"
    PROVE  job[x] # NoJob
BY DEF NoJob

\* A step that moves one job to another state and writes nothing else but what it says.
LEMMA MailMoved ==
    ASSUME MailInv, NEW x \in Mail, NEW from, NEW to,
           to \in {"sent", "threw", "recorded", "cleared", "completed", "waiting"}, Moves(x, from, to)
    PROVE  /\ job[x].state = from /\ job'[x].state = to /\ job'[x].made = job[x].made
           /\ job' \in [Mail -> JobState] /\ \A y \in Mail \ {x} : job'[y] = job[y]
<1>1. job[x] \in JobState /\ job \in [Mail -> JobState]
  BY DEF MailInv, MailTypes
<1>2. job[x].state = from /\ job' = [job EXCEPT ![x] = [job[x] EXCEPT !.state = to]]
  BY <1>1 DEF Moves
<1>3. /\ [job[x] EXCEPT !.state = to] \in JobState /\ [job[x] EXCEPT !.state = to].state = to
      /\ [job[x] EXCEPT !.state = to].made = job[x].made
  BY <1>1 DEF JobState
<1> QED
  BY <1>1, <1>2, <1>3

LEMMA TryMailKeeps ==
    ASSUME MailInv, NEW x \in Mail, TryMail(x)
    PROVE  MailInv'
<1>0. /\ job[x].made \in Nat /\ delivered[x] \in Nat /\ doubts[x] \in Nat
      /\ delivered \in [Mail -> Nat] /\ doubts \in [Mail -> Nat]
      /\ failedRow \in [Mail -> SUBSET {"retrying", "failed"}]
      /\ BudgetOK(x) /\ (x \in unlogged \/ RowsOK(x)) /\ WhereOK(x)
  BY MailFacts DEF MailInv, MailTypes, MailOK
<1>1. UNCHANGED <<claimed, sender, failedRow, unlogged, dropped>> /\ Held(x)' = Held(x)
  BY DEF TryMail, Held
<1>2. CASE Moves(x, "waiting", "sent") /\ delivered' = [delivered EXCEPT ![x] = @ + 1]
           /\ UNCHANGED doubts
  <2>1. /\ job[x].state = "waiting" /\ job'[x].state = "sent" /\ job'[x].made = job[x].made
        /\ job' \in [Mail -> JobState] /\ \A y \in Mail \ {x} : job'[y] = job[y]
    BY <1>2, MailMoved
  <2>2. /\ delivered'[x] = delivered[x] + 1 /\ delivered' \in [Mail -> Nat]
        /\ \A y \in Mail \ {x} : delivered'[y] = delivered[y]
    BY <1>0, <1>2
  <2>3. BudgetOK(x)'
    BY <1>0, <1>1, <1>2, <2>1, <2>2 DEF BudgetOK, Live
  <2>4. RowsOK(x) => RowsOK(x)'
    BY <1>0, <1>1, <2>1, <2>2 DEF RowsOK
  <2>5. WhereOK(x)'
    BY <1>0, <1>1, <2>1, <2>2, HasJob DEF WhereOK
  <2> QED
    BY <1>0, <1>1, <1>2, <2>1, <2>2, <2>3, <2>4, <2>5, HasJob, JobStep DEF MailOK
<1>3. CASE Moves(x, "waiting", "threw") /\ UNCHANGED <<delivered, doubts>>
  <2>1. /\ job[x].state = "waiting" /\ job'[x].state = "threw" /\ job'[x].made = job[x].made
        /\ job' \in [Mail -> JobState] /\ \A y \in Mail \ {x} : job'[y] = job[y]
    BY <1>3, MailMoved
  <2>3. BudgetOK(x)'
    BY <1>0, <1>1, <1>3, <2>1 DEF BudgetOK, Live
  <2>4. RowsOK(x) => RowsOK(x)'
    BY <1>0, <1>1, <1>3, <2>1 DEF RowsOK
  <2>5. WhereOK(x)'
    BY <1>0, <1>1, <1>3, <2>1, HasJob DEF WhereOK
  <2> QED
    BY <1>0, <1>1, <1>3, <2>1, <2>3, <2>4, <2>5, HasJob, JobStep DEF MailOK
<1>4. CASE /\ Moves(x, "waiting", "threw") /\ delivered' = [delivered EXCEPT ![x] = @ + 1]
           /\ doubts' = [doubts EXCEPT ![x] = @ + 1]
  <2>1. /\ job[x].state = "waiting" /\ job'[x].state = "threw" /\ job'[x].made = job[x].made
        /\ job' \in [Mail -> JobState] /\ \A y \in Mail \ {x} : job'[y] = job[y]
    BY <1>4, MailMoved
  <2>2. /\ delivered'[x] = delivered[x] + 1 /\ delivered' \in [Mail -> Nat]
        /\ \A y \in Mail \ {x} : delivered'[y] = delivered[y]
        /\ doubts'[x] = doubts[x] + 1 /\ doubts' \in [Mail -> Nat]
        /\ \A y \in Mail \ {x} : doubts'[y] = doubts[y]
    BY <1>0, <1>4
  <2>3. BudgetOK(x)'
    BY <1>0, <1>1, <2>1, <2>2 DEF BudgetOK, Live
  <2>4. RowsOK(x) => RowsOK(x)'
    BY <1>0, <1>1, <2>1, <2>2 DEF RowsOK
  <2>5. WhereOK(x)'
    BY <1>0, <1>1, <2>1, <2>2, HasJob DEF WhereOK
  <2> QED
    BY <1>0, <1>1, <2>1, <2>2, <2>3, <2>4, <2>5, HasJob, JobStep DEF MailOK
<1> QED
  BY <1>2, <1>3, <1>4 DEF TryMail

LEMMA RecordKeeps ==
    ASSUME MailInv, NEW x \in Mail, RecordFailure(x) \/ ClearFailure(x) \/ CompleteJob(x)
    PROVE  MailInv'
<1>0. /\ job[x].made \in Nat /\ delivered[x] \in Nat /\ doubts[x] \in Nat
      /\ failedRow \in [Mail -> SUBSET {"retrying", "failed"}] /\ Tries \in Nat \ {0}
      /\ delivered \in [Mail -> Nat] /\ doubts \in [Mail -> Nat]
      /\ BudgetOK(x) /\ (x \in unlogged \/ RowsOK(x)) /\ WhereOK(x)
  BY MailFacts, MailAssumption DEF MailInv, MailTypes, MailOK
<1>1. UNCHANGED <<claimed, sender, delivered, doubts, dropped>> /\ Held(x)' = Held(x)
  BY DEF RecordFailure, ClearFailure, CompleteJob, Held
<1>2. CASE RecordFailure(x)
  <2>1. /\ job[x].state = "threw" /\ job'[x].state = "recorded" /\ job'[x].made = job[x].made
        /\ job' \in [Mail -> JobState] /\ \A y \in Mail \ {x} : job'[y] = job[y]
    BY <1>2, MailMoved DEF RecordFailure
  <2>2. /\ BudgetOK(x)' /\ WhereOK(x)'
    <3>1. BudgetOK(x)'
      BY <1>0, <1>1, <2>1 DEF BudgetOK, Live
    <3>3. x \in claimed
      BY <1>0, <2>1, HasJob DEF WhereOK
    <3>4. WhereOK(x)'
      BY <1>0, <1>1, <2>1, <3>3 DEF WhereOK
    <3> QED
      BY <3>1, <3>4
  <2>3. /\ failedRow' \in [Mail -> SUBSET {"retrying", "failed"}]
        /\ \A y \in Mail \ {x} : failedRow'[y] = failedRow[y]
        /\ \A y \in unlogged : y \in unlogged'
        /\ x \in unlogged' \/ failedRow'[x] = RowAfter(x)
    BY <1>0, <1>2 DEF RecordFailure, RowAfter
  <2>4. x \in unlogged' \/ RowsOK(x)'
    BY <1>0, <2>1, <2>3 DEF RowsOK, RowAfter
  <2> QED
    BY <1>0, <1>1, <2>1, <2>2, <2>3, <2>4, HasJob, JobStep DEF MailOK
<1>3. CASE ClearFailure(x)
  <2>1. /\ job[x].state = "sent" /\ job'[x].state = "cleared" /\ job'[x].made = job[x].made
        /\ job' \in [Mail -> JobState] /\ \A y \in Mail \ {x} : job'[y] = job[y]
    BY <1>3, MailMoved DEF ClearFailure
  <2>2. x \in claimed
    BY <1>0, <2>1, HasJob DEF WhereOK
  <2>3. BudgetOK(x)' /\ WhereOK(x)'
    BY <1>0, <1>1, <2>1, <2>2 DEF BudgetOK, WhereOK, Live
  <2>4. /\ failedRow' \in [Mail -> SUBSET {"retrying", "failed"}]
        /\ \A y \in Mail \ {x} : failedRow'[y] = failedRow[y]
        /\ \A y \in unlogged : y \in unlogged'
        /\ \/ x \in unlogged'
           \/ failedRow'[x] = IF job[x].made > 0 THEN {} ELSE failedRow[x]
    BY <1>0, <1>3 DEF ClearFailure
  <2>5. x \in unlogged' \/ RowsOK(x)'
    BY <1>0, <2>1, <2>4 DEF RowsOK
  <2> QED
    BY <1>0, <1>1, <2>1, <2>3, <2>4, <2>5, HasJob, JobStep DEF MailOK
<1>4. CASE CompleteJob(x)
  <2>1. /\ job[x].state = "cleared" /\ job'[x].state = "completed" /\ job'[x].made = job[x].made
        /\ job' \in [Mail -> JobState] /\ \A y \in Mail \ {x} : job'[y] = job[y]
        /\ UNCHANGED <<failedRow, unlogged>>
    BY <1>4, MailMoved DEF CompleteJob
  <2>2. x \in claimed
    BY <1>0, <2>1, HasJob DEF WhereOK
  <2>3. BudgetOK(x)' /\ WhereOK(x)' /\ (RowsOK(x) => RowsOK(x)')
    BY <1>0, <1>1, <2>1, <2>2 DEF BudgetOK, WhereOK, RowsOK, Live
  <2> QED
    BY <1>0, <1>1, <2>1, <2>3, HasJob, JobStep DEF MailOK
<1> QED
  BY <1>2, <1>3, <1>4

\* A job that is moved on, with a count that changes.
LEMMA JobFields ==
    ASSUME NEW j \in JobState, NEW t \in {"waiting", "failed"}, NEW n \in Nat
    PROVE  /\ [j EXCEPT !.state = t, !.made = n] \in JobState
           /\ [j EXCEPT !.state = t, !.made = n].state = t
           /\ [j EXCEPT !.state = t, !.made = n].made = n
           /\ [j EXCEPT !.state = t, !.stalls = n] \in JobState
           /\ [j EXCEPT !.state = t, !.stalls = n].state = t
           /\ [j EXCEPT !.state = t, !.stalls = n].made = j.made
BY DEF JobState

\* The end of a try, a death, a second chance, and the end of the job.
LEMMA JobKeeps ==
    ASSUME MailInv, NEW x \in Mail,
           FailJob(x) \/ WorkerDies(x) \/ RetryByHand(x) \/ ForgetJob(x)
    PROVE  MailInv'
<1>0. /\ job[x] \in JobState /\ job[x].made \in Nat /\ delivered[x] \in Nat /\ doubts[x] \in Nat
      /\ failedRow \in [Mail -> SUBSET {"retrying", "failed"}] /\ Tries \in Nat \ {0}
      /\ delivered \in [Mail -> Nat] /\ doubts \in [Mail -> Nat] /\ job \in [Mail -> JobState]
      /\ BudgetOK(x) /\ (x \in unlogged \/ RowsOK(x)) /\ WhereOK(x)
  BY MailFacts, MailAssumption DEF MailInv, MailTypes, MailOK
<1>1. UNCHANGED <<claimed, sender, delivered, failedRow>> /\ Held(x)' = Held(x)
  BY DEF FailJob, WorkerDies, RetryByHand, ForgetJob, Held
<1>2. CASE FailJob(x)
  <2>0. PICK n \in Nat : n = job[x].made + 1
    BY <1>0
  <2>7. PICK to \in {"waiting", "failed"} : to = IF n < Tries THEN "waiting" ELSE "failed"
    OBVIOUS
  <2> DEFINE j == [job[x] EXCEPT !.state = to, !.made = n]
  <2>1. /\ j \in JobState /\ j.made = job[x].made + 1 /\ j.state \in {"waiting", "failed"}
        /\ j.state = "waiting" <=> j.made < Tries
    <3>1. j \in JobState /\ j.state = to /\ j.made = n
      BY <1>0, <2>7 DEF JobState
    <3> HIDE DEF j
    <3> QED
      BY <2>0, <2>7, <3>1
  <2>2. /\ job[x].state = "recorded" /\ job' = [job EXCEPT ![x] = j]
        /\ UNCHANGED <<doubts, unlogged, dropped>>
    BY <1>0, <1>2, <2>0, <2>7 DEF FailJob
  <2> HIDE DEF j
  <2>3. job'[x] = j /\ job' \in [Mail -> JobState] /\ \A y \in Mail \ {x} : job'[y] = job[y]
    BY <1>0, <2>1, <2>2
  <2>4. x \in claimed
    BY <1>0, <2>2, HasJob DEF WhereOK
  <2>5. BudgetOK(x)' /\ WhereOK(x)'
    BY <1>0, <1>1, <2>1, <2>2, <2>3, <2>4 DEF BudgetOK, WhereOK, Live
  <2>6. RowsOK(x) => RowsOK(x)'
    BY <1>0, <1>1, <2>1, <2>2, <2>3 DEF RowsOK
  <2> QED
    BY <1>0, <1>1, <2>2, <2>3, <2>5, <2>6, HasJob, JobStep DEF MailOK
<1>3. CASE WorkerDies(x)
  <2>1. /\ job[x].state \in {"sent", "threw", "recorded", "cleared"} /\ UNCHANGED dropped
        /\ doubts' = [doubts EXCEPT ![x] = IF job[x].state \in {"sent", "cleared"} THEN @ + 1 ELSE @]
        /\ Stalls(x) \/ StallsOut(x)
    BY <1>3 DEF WorkerDies
  <2>2. x \in claimed
    BY <1>0, <2>1, HasJob DEF WhereOK
  <2>3. /\ job' \in [Mail -> JobState] /\ \A y \in Mail \ {x} : job'[y] = job[y]
        /\ job'[x].state \in {"waiting", "failed"}
        /\ \A y \in unlogged : y \in unlogged'
        /\ \/ x \in unlogged'
           \/ /\ job[x].state # "recorded" /\ job'[x].state = "waiting"
              /\ job'[x].made = job[x].made
    <3>1. CASE Stalls(x)
      <4>0. PICK n \in Nat : n = job[x].stalls + 1
        BY <1>0 DEF JobState
      <4> DEFINE j == [job[x] EXCEPT !.state = "waiting", !.stalls = n]
      <4>1. j \in JobState /\ j.state = "waiting" /\ j.made = job[x].made
        BY <1>0, JobFields
      <4>2. job' = [job EXCEPT ![x] = j]
        BY <1>0, <3>1, <4>0 DEF Stalls
      <4> HIDE DEF j
      <4>3. job'[x] = j /\ job' \in [Mail -> JobState] /\ \A y \in Mail \ {x} : job'[y] = job[y]
        BY <1>0, <4>1, <4>2
      <4> QED
        BY <3>1, <4>1, <4>3 DEF Stalls
    <3>2. CASE StallsOut(x)
      <4>1. PICK n \in {job[x].made, job[x].made + 1} :
                job' = [job EXCEPT ![x].state = "failed", ![x].made = n]
        BY <3>2 DEF StallsOut
      <4> DEFINE j == [job[x] EXCEPT !.state = "failed", !.made = n]
      <4>2. j \in JobState /\ j.state = "failed"
        <5>1. n \in Nat
          BY <1>0
        <5> QED
          BY <1>0, <5>1, JobFields
      <4>3. job' = [job EXCEPT ![x] = j]
        BY <1>0, <4>1
      <4> HIDE DEF j
      <4>4. job'[x] = j /\ job' \in [Mail -> JobState] /\ \A y \in Mail \ {x} : job'[y] = job[y]
        BY <1>0, <4>2, <4>3
      <4> QED
        BY <3>2, <4>2, <4>4 DEF StallsOut
    <3> QED
      BY <2>1, <3>1, <3>2
  <2>4. /\ doubts' \in [Mail -> Nat] /\ \A y \in Mail \ {x} : doubts'[y] = doubts[y]
        /\ doubts'[x] = IF job[x].state \in {"sent", "cleared"} THEN doubts[x] + 1 ELSE doubts[x]
    BY <1>0, <2>1
  <2>5. BudgetOK(x)'
    BY <1>0, <1>1, <2>1, <2>3, <2>4 DEF BudgetOK, Live
  <2>6. WhereOK(x)'
    BY <1>0, <1>1, <2>1, <2>2, <2>3 DEF WhereOK
  <2>7. x \in unlogged' \/ RowsOK(x)'
    BY <1>0, <1>1, <2>1, <2>3 DEF RowsOK, WhereOK
  <2> QED
    BY <1>0, <1>1, <2>1, <2>3, <2>4, <2>5, <2>6, <2>7, HasJob, JobStep DEF MailOK
<1>4. CASE RetryByHand(x)
  <2>1. PICK n \in Nat : job' = [job EXCEPT ![x] = [@ EXCEPT !.state = "waiting", !.stalls = n]]
    BY <1>0, <1>4 DEF RetryByHand, JobState
  <2> DEFINE j == [job[x] EXCEPT !.state = "waiting", !.stalls = n]
  <2>2. j \in JobState /\ j.state = "waiting" /\ j.made = job[x].made
    BY <1>0 DEF JobState
  <2>3. /\ job[x].state = "failed" /\ job' = [job EXCEPT ![x] = j]
        /\ UNCHANGED <<doubts, unlogged, dropped>>
    BY <1>0, <1>4, <2>1 DEF RetryByHand
  <2> HIDE DEF j
  <2>4. job'[x] = j /\ job' \in [Mail -> JobState] /\ \A y \in Mail \ {x} : job'[y] = job[y]
    BY <1>0, <2>2, <2>3
  <2>5. x \in claimed
    BY <1>0, <2>3, HasJob DEF WhereOK
  <2>6. BudgetOK(x)' /\ WhereOK(x)'
    BY <1>0, <1>1, <2>2, <2>3, <2>4, <2>5 DEF BudgetOK, WhereOK, Live
  <2>7. RowsOK(x) => RowsOK(x)'
    BY <1>0, <1>1, <2>2, <2>3, <2>4 DEF RowsOK
  <2> QED
    BY <1>0, <1>1, <2>3, <2>4, <2>6, <2>7, HasJob, JobStep DEF MailOK
<1>5. CASE ForgetJob(x)
  <2>1. NoJob \in JobState /\ NoJob.state = "none"
    BY DEF NoJob, JobState
  <2>2. /\ job[x].state \in {"completed", "failed"} /\ job'[x] = NoJob
        /\ job' \in [Mail -> JobState] /\ \A y \in Mail \ {x} : job'[y] = job[y]
        /\ \A y \in dropped : y \in dropped'
        /\ job[x].state = "failed" => x \in dropped'
        /\ UNCHANGED <<doubts, unlogged>>
    BY <1>0, <1>5, <2>1 DEF ForgetJob
  <2>3. x \in claimed
    BY <1>0, <2>2, HasJob DEF WhereOK
  <2>4. BudgetOK(x)' /\ WhereOK(x)' /\ RowsOK(x)'
    BY <1>0, <1>1, <2>1, <2>2, <2>3 DEF BudgetOK, WhereOK, RowsOK, Live
  <2> QED
    BY <1>0, <1>1, <2>2, <2>4, HasJob, JobStep DEF MailOK
<1> QED
  BY <1>2, <1>3, <1>4, <1>5

LEMMA CleanUpKeeps == MailInv /\ (CleanUp \/ UNCHANGED mailing) => MailInv'
<1> SUFFICES ASSUME MailInv, CleanUp \/ UNCHANGED mailing PROVE MailInv'
  OBVIOUS
<1>1. /\ UNCHANGED <<claimed, sender, job, delivered, doubts, unlogged, dropped>>
      /\ failedRow' \in [Mail -> SUBSET {"retrying", "failed"}]
      /\ \A x \in Mail : failedRow'[x] \in {failedRow[x], failedRow[x] \ {"failed"}}
  BY DEF CleanUp, mailing, MailInv, MailTypes
<1>2. MailTypes' /\ HoldersOK'
  BY <1>1 DEF MailInv, MailTypes, HoldersOK
<1>3. ASSUME NEW x \in Mail PROVE MailOK(x)'
  <2>1. BudgetOK(x)' /\ WhereOK(x)'
    BY <1>1, MailFacts DEF MailOK, BudgetOK, WhereOK, Live, Held
  <2>2. RowsOK(x) => RowsOK(x)'
    BY <1>1 DEF RowsOK
  <2> QED
    BY <1>1, <2>1, <2>2, MailFacts DEF MailOK
<1> QED
  BY <1>2, <1>3 DEF MailInv

\* A step of a sender with one mail disturbs no other.
LEMMA HolderStep ==
    ASSUME MailInv, NEW p \in Sender, NEW x \in Mail, NEW s \in SenderState,
           sender' = [sender EXCEPT ![p] = s], s.has \subseteq {x}, sender[p].has \subseteq {x},
           \A q \in Sender \ {p} : x \notin sender[q].has,
           s.has # {} => /\ s.pc \in {"hand", "direct"} /\ x \in claimed'
                         /\ s.pc = "hand" => job'[x] = NoJob /\ failedRow'[x] = {},
           claimed' \in {claimed, claimed \cup {x}}, UNCHANGED <<failedRow, unlogged>>,
           job' \in [Mail -> JobState], delivered' \in [Mail -> Nat], doubts' \in [Mail -> Nat],
           \A y \in Mail \ {x} :
              /\ job'[y] = job[y] /\ delivered'[y] = delivered[y] /\ doubts'[y] = doubts[y]
              /\ (y \in dropped => y \in dropped'),
           MailOK(x)'
    PROVE  MailInv'
<1>1. \A q \in Sender : sender'[q] = IF q = p THEN s ELSE sender[q]
  BY DEF MailInv, MailTypes
<1>2. MailTypes'
  BY DEF MailInv, MailTypes
<1>3. \A q \in Sender : sender[q].has \subseteq Mail
  BY DEF MailInv, MailTypes, SenderState
<1>4. HoldersOK'
  <2>1. ASSUME NEW q \in Sender, NEW y \in sender'[q].has
        PROVE  /\ sender'[q].pc \in {"hand", "direct"} /\ y \in claimed'
               /\ sender'[q].pc = "hand" => job'[y] = NoJob /\ failedRow'[y] = {}
               /\ \A r \in Sender : y \in sender'[r].has => q = r
               /\ sender'[q].has = {y}
    <3>1. CASE q = p
      <4>1. y = x /\ s.has = {x} /\ sender'[q] = s
        BY <1>1, <3>1, <2>1
      <4>2. \A r \in Sender : y \in sender'[r].has => q = r
        BY <1>1, <3>1, <4>1
      <4> QED
        BY <4>1, <4>2
    <3>2. CASE q # p
      <4>1. sender'[q] = sender[q] /\ y \in sender[q].has /\ y # x /\ y \in Mail
        BY <1>1, <1>3, <3>2, <2>1
      <4>2. /\ sender[q].pc \in {"hand", "direct"} /\ y \in claimed /\ sender[q].has = {y}
            /\ sender[q].pc = "hand" => job[y] = NoJob /\ failedRow[y] = {}
            /\ \A r \in Sender : y \in sender[r].has => q = r
        BY <4>1 DEF MailInv, HoldersOK
      <4>3. \A r \in Sender : y \in sender'[r].has => q = r
        BY <1>1, <4>1, <4>2
      <4> QED
        BY <4>1, <4>2, <4>3
    <3> QED
      BY <3>1, <3>2
  <2> QED
    BY <2>1 DEF HoldersOK
<1>5. ASSUME NEW y \in Mail \ {x} PROVE MailOK(y)'
  <2>1. /\ job'[y] = job[y] /\ failedRow'[y] = failedRow[y] /\ delivered'[y] = delivered[y]
        /\ doubts'[y] = doubts[y] /\ (y \in unlogged <=> y \in unlogged')
        /\ (y \in dropped => y \in dropped') /\ (y \in claimed <=> y \in claimed')
    OBVIOUS
  <2>2. Held(y)' <=> Held(y)
    BY <1>1 DEF Held
  <2>3. BudgetOK(y)'
    BY <2>1, <2>2, MailFacts DEF MailOK, BudgetOK, Live
  <2>4. RowsOK(y) => RowsOK(y)'
    BY <2>1 DEF RowsOK
  <2>5. WhereOK(y)'
    BY <2>1, <2>2, MailFacts DEF MailOK, WhereOK
  <2> QED
    BY <2>1, <2>3, <2>4, <2>5, MailFacts DEF MailOK
<1>6. ASSUME NEW y \in Mail, y = x PROVE MailOK(y)'
  <2>1. BudgetOK(x)' /\ (x \in unlogged' \/ RowsOK(x)') /\ WhereOK(x)'
    BY DEF MailOK
  <2>2. BudgetOK(y)'
    BY <1>6, <2>1 DEF BudgetOK, Live, Held
  <2>3. RowsOK(x)' => RowsOK(y)'
    BY <1>6 DEF RowsOK
  <2>4. WhereOK(y)'
    BY <1>6, <2>1 DEF WhereOK, Held
  <2> QED
    BY <1>6, <2>1, <2>2, <2>3, <2>4 DEF MailOK
<1> QED
  BY <1>2, <1>4, <1>5, <1>6 DEF MailInv

\* A sender with no mail in hand takes none, or dies and drops the one it has.
LEMMA SenderKeeps ==
    ASSUME MailInv, NEW p \in Sender, StartSending(p) \/ EndSending(p) \/ SenderDies(p)
    PROVE  MailInv'
<1>1. Resting \in SenderState /\ Resting.has = {}
  BY DEF Resting, SenderState
<1>2. PICK s \in SenderState : sender' = [sender EXCEPT ![p] = s] /\ s.has = {}
  <2>1. CASE StartSending(p)
    <3>1. [pc |-> "claim", pending |-> Mail \ claimed, has |-> {}] \in SenderState
      BY DEF SenderState
    <3> QED
      BY <2>1, <3>1 DEF StartSending
  <2>2. CASE EndSending(p) \/ SenderDies(p)
    BY <1>1, <2>2 DEF EndSending, SenderDies
  <2> QED
    BY <2>1, <2>2
<1>3. /\ UNCHANGED <<claimed, job, failedRow, delivered, doubts, unlogged>>
      /\ \A x \in dropped : x \in dropped'
      /\ \A x \in sender[p].has : x \in dropped'
  BY DEF StartSending, EndSending, SenderDies, MailInv, HoldersOK
<1>4. \A q \in Sender : sender'[q] = IF q = p THEN s ELSE sender[q]
  BY <1>2 DEF MailInv, MailTypes
<1>5. MailTypes'
  BY <1>2, <1>3 DEF MailInv, MailTypes
<1>6. HoldersOK'
  BY <1>2, <1>3, <1>4 DEF MailInv, HoldersOK
<1>7. ASSUME NEW x \in Mail PROVE MailOK(x)'
  <2>1. (Held(x)' => Held(x)) /\ (Held(x) => Held(x)' \/ x \in dropped')
    BY <1>2, <1>3, <1>4 DEF Held
  <2>2. BudgetOK(x)'
    BY <1>3, <2>1, MailFacts DEF MailOK, BudgetOK, Live
  <2>3. RowsOK(x) => RowsOK(x)'
    BY <1>3 DEF RowsOK
  <2>4. WhereOK(x)'
    BY <1>3, <2>1, MailFacts DEF MailOK, WhereOK
  <2> QED
    BY <1>3, <2>2, <2>3, <2>4, MailFacts DEF MailOK
<1> QED
  BY <1>5, <1>6, <1>7 DEF MailInv

LEMMA ClaimKeeps ==
    ASSUME MailInv, NEW p \in Sender, NEW x \in Mail, ClaimMail(p, x)
    PROVE  MailInv'
<1> DEFINE s == [sender[p] EXCEPT !.pending = @ \ {x}, !.pc = IF Claims(x) THEN "hand" ELSE @,
                                  !.has = IF Claims(x) THEN {x} ELSE {}]
<1>1. /\ sender[p] \in SenderState /\ sender[p].pc = "claim" /\ sender[p].has = {}
      /\ sender' = [sender EXCEPT ![p] = s] /\ claimed' = claimed \cup {x}
      /\ UNCHANGED <<job, failedRow, delivered, doubts, unlogged, dropped>>
  BY DEF ClaimMail, MailInv, MailTypes, HoldersOK
<1>2. /\ s \in SenderState /\ s.has = (IF x \notin claimed THEN {x} ELSE {})
      /\ x \notin claimed => s.pc = "hand"
  BY <1>1 DEF SenderState, Claims
<1> HIDE DEF s
<1>3. x \notin claimed =>
          job[x] = NoJob /\ failedRow[x] = {} /\ delivered[x] = 0 /\ \A q \in Sender : x \notin sender[q].has
  BY MailFacts DEF MailOK, WhereOK, MailInv, HoldersOK
<1>4. \A q \in Sender : sender'[q] = IF q = p THEN s ELSE sender[q]
  BY <1>1 DEF MailInv, MailTypes
<1>5. CASE x \notin claimed
  <2>1. Held(x)' /\ ~Live(x) /\ ~Held(x) /\ Live(x)' = Live(x)
    BY <1>1, <1>2, <1>3, <1>4, <1>5 DEF Held, Live, NoJob
  <2>2. BudgetOK(x)' /\ WhereOK(x)' /\ (RowsOK(x) => RowsOK(x)')
    <3>1. BudgetOK(x)'
      BY <1>1, <1>3, <1>5, <2>1, MailFacts DEF BudgetOK
    <3>2. WhereOK(x)'
      BY <1>1, <1>3, <1>5, <2>1, MailFacts DEF MailOK, WhereOK
    <3>3. RowsOK(x) => RowsOK(x)'
      BY <1>1 DEF RowsOK
    <3> QED
      BY <3>1, <3>2, <3>3
  <2>3. MailOK(x)'
    BY <1>1, <2>2, MailFacts DEF MailOK
  <2>4. /\ job' \in [Mail -> JobState] /\ delivered' \in [Mail -> Nat] /\ doubts' \in [Mail -> Nat]
    BY <1>1 DEF MailInv, MailTypes
  <2> QED
    BY <1>1, <1>2, <1>3, <1>5, <2>3, <2>4, HolderStep
<1>6. CASE x \in claimed
  <2>1. claimed' = claimed /\ s.has = {}
    BY <1>1, <1>2, <1>6
  <2>2. MailTypes' /\ HoldersOK'
    BY <1>1, <1>2, <1>4, <2>1 DEF MailInv, MailTypes, HoldersOK
  <2>3. ASSUME NEW y \in Mail PROVE MailOK(y)'
    <3>1. Held(y)' <=> Held(y)
      BY <1>1, <1>4, <2>1 DEF Held
    <3>2. BudgetOK(y)' /\ WhereOK(y)'
      BY <1>1, <2>1, <3>1, MailFacts DEF MailOK, BudgetOK, WhereOK, Live
    <3>3. RowsOK(y) => RowsOK(y)'
      BY <1>1 DEF RowsOK
    <3> QED
      BY <1>1, <3>2, <3>3, MailFacts DEF MailOK
  <2> QED
    BY <2>2, <2>3 DEF MailInv
<1> QED
  BY <1>5, <1>6

\* The mail in hand.
LEMMA InHand ==
    ASSUME MailInv, NEW p \in Sender, NEW x \in Mail, x \in sender[p].has
    PROVE  /\ sender[p].has = {x} /\ x \in claimed /\ sender[p] \in SenderState /\ Held(x)
           /\ \A q \in Sender \ {p} : x \notin sender[q].has
           /\ sender[p].pc = "hand" => job[x] = NoJob /\ failedRow[x] = {}
BY DEF MailInv, MailTypes, HoldersOK, Held

LEMMA HandKeeps ==
    ASSUME MailInv, NEW p \in Sender, NEW x \in Mail,
           QueueMail(p, x) \/ FallBack(p, x) \/ SendDirectly(p, x)
    PROVE  MailInv'
<1>1. /\ x \in sender[p].has /\ UNCHANGED <<claimed, failedRow, unlogged>>
      /\ sender[p].has = {x} /\ x \in claimed /\ sender[p] \in SenderState /\ Held(x)
      /\ \A q \in Sender \ {p} : x \notin sender[q].has
      /\ sender[p].pc = "hand" => job[x] = NoJob /\ failedRow[x] = {}
  BY InHand DEF QueueMail, FallBack, SendDirectly
<1>2. /\ job \in [Mail -> JobState] /\ delivered \in [Mail -> Nat] /\ doubts \in [Mail -> Nat]
      /\ delivered[x] \in Nat /\ doubts[x] \in Nat
      /\ BudgetOK(x) /\ (x \in unlogged \/ RowsOK(x)) /\ WhereOK(x)
  BY MailFacts DEF MailInv, MailTypes, MailOK
<1>3. sender[p].pc = "hand" =>
          /\ Queued(x) \in [Mail -> JobState] /\ Queued(x)[x].state = "waiting"
          /\ Queued(x)[x].made = 0 /\ \A y \in Mail \ {x} : Queued(x)[y] = job[y]
  <2> DEFINE j == [NoJob EXCEPT !.state = "waiting"]
  <2>1. j \in JobState /\ j.state = "waiting" /\ j.made = 0
    BY DEF JobState, NoJob
  <2>2. sender[p].pc = "hand" => Queued(x) = [job EXCEPT ![x] = j]
    BY <1>1, <1>2 DEF Queued
  <2> HIDE DEF j
  <2> QED
    BY <1>2, <2>1, <2>2
<1>4. CASE QueueMail(p, x)
  <2> DEFINE s == [sender[p] EXCEPT !.pc = "claim", !.has = {}]
  <2>1. s \in SenderState /\ s.has = {} /\ sender' = [sender EXCEPT ![p] = s]
    BY <1>1, <1>4 DEF QueueMail, HandOver, SenderState, MailInv, MailTypes
  <2>2. /\ job' = Queued(x) /\ sender[p].pc = "hand" /\ UNCHANGED <<delivered, doubts, dropped>>
    BY <1>4 DEF QueueMail
  <2> HIDE DEF s
  <2>3. ~Held(x)'
    BY <1>1, <2>1 DEF Held, MailInv, MailTypes
  <2>4. BudgetOK(x)'
    BY <1>1, <1>2, <1>3, <2>2, <2>3 DEF BudgetOK, Live
  <2>5. WhereOK(x)' /\ RowsOK(x)'
    BY <1>1, <1>2, <1>3, <2>2, <2>3 DEF WhereOK, RowsOK
  <2>6. MailOK(x)'
    BY <2>4, <2>5 DEF MailOK
  <2> QED
    BY <1>1, <1>2, <1>3, <2>1, <2>2, <2>6, HolderStep
<1>5. CASE FallBack(p, x)
  <2> DEFINE s == [sender[p] EXCEPT !.pc = "direct"]
  <2>1. /\ s \in SenderState /\ s.has = {x} /\ s.pc = "direct"
        /\ sender' = [sender EXCEPT ![p] = s]
    BY <1>1, <1>5 DEF FallBack, SenderState, MailInv, MailTypes
  <2>2. sender[p].pc = "hand" /\ UNCHANGED <<delivered, dropped>>
    BY <1>5 DEF FallBack
  <2> HIDE DEF s
  <2>3. Held(x)' /\ ~Live(x)
    BY <1>1, <2>1, <2>2 DEF Held, Live, NoJob, MailInv, MailTypes
  <2>4. /\ job' \in [Mail -> JobState] /\ doubts' \in [Mail -> Nat]
        /\ \A y \in Mail \ {x} : job'[y] = job[y] /\ doubts'[y] = doubts[y]
        /\ MailOK(x)'
    <3>1. CASE UNCHANGED <<job, doubts>>
      <4>1. BudgetOK(x)' /\ WhereOK(x)' /\ (RowsOK(x) => RowsOK(x)')
        <5>1. BudgetOK(x)'
          BY <1>1, <1>2, <2>2, <2>3, <3>1 DEF BudgetOK, Live
        <5>2. WhereOK(x)'
          BY <1>1, <1>2, <2>2, <2>3, <3>1 DEF WhereOK
        <5>3. RowsOK(x) => RowsOK(x)'
          BY <1>1, <2>2, <3>1 DEF RowsOK
        <5> QED
          BY <5>1, <5>2, <5>3
      <4> QED
        BY <1>1, <1>2, <3>1, <4>1 DEF MailOK
    <3>2. CASE job' = Queued(x) /\ doubts' = [doubts EXCEPT ![x] = @ + 1]
      <4>1. BudgetOK(x)'
        BY <1>1, <1>2, <2>2, <2>3, <3>2 DEF BudgetOK
      <4>2. WhereOK(x)' /\ RowsOK(x)'
        BY <1>1, <1>2, <1>3, <2>2, <2>3, <3>2 DEF WhereOK, RowsOK
      <4> QED
        BY <1>2, <1>3, <2>2, <3>2, <4>1, <4>2 DEF MailOK
    <3> QED
      BY <1>5, <3>1, <3>2 DEF FallBack
  <2> QED
    BY <1>1, <1>2, <2>1, <2>2, <2>4, HolderStep
<1>6. CASE SendDirectly(p, x)
  <2> DEFINE s == [sender[p] EXCEPT !.pc = "claim", !.has = {}]
  <2>1. s \in SenderState /\ s.has = {} /\ sender' = [sender EXCEPT ![p] = s]
    BY <1>1, <1>6 DEF SendDirectly, HandOver, SenderState, MailInv, MailTypes
  <2>2. /\ UNCHANGED <<job, doubts>> /\ delivered' \in [Mail -> Nat]
        /\ \A y \in Mail \ {x} : delivered'[y] = delivered[y]
        /\ \A y \in dropped : y \in dropped'
        /\ \/ delivered'[x] = delivered[x] + 1
           \/ delivered'[x] = delivered[x] /\ x \in dropped'
    BY <1>2, <1>6 DEF SendDirectly
  <2> HIDE DEF s
  <2>3. ~Held(x)' /\ (Live(x)' <=> Live(x))
    BY <1>1, <2>1, <2>2 DEF Held, Live, MailInv, MailTypes
  <2>4. BudgetOK(x)'
    BY <1>1, <1>2, <2>2, <2>3 DEF BudgetOK
  <2>5. WhereOK(x)'
    BY <1>1, <1>2, <2>2, <2>3 DEF WhereOK
  <2>6. RowsOK(x) => RowsOK(x)'
    BY <1>1, <1>2, <2>2 DEF RowsOK
  <2>7. MailOK(x)'
    BY <1>1, <1>2, <2>4, <2>5, <2>6 DEF MailOK
  <2> QED
    BY <1>1, <1>2, <2>1, <2>2, <2>7, HolderStep
<1> QED
  BY <1>4, <1>5, <1>6

LEMMA MailNextInv == MailInv /\ [MailNext]_mailing => MailInv'
<1> SUFFICES ASSUME MailInv, [MailNext]_mailing PROVE MailInv'
  OBVIOUS
<1>1. ASSUME NEW p \in Sender,
             \/ StartSending(p) \/ EndSending(p) \/ SenderDies(p)
             \/ \E x \in Mail :
                   ClaimMail(p, x) \/ QueueMail(p, x) \/ FallBack(p, x) \/ SendDirectly(p, x)
      PROVE  MailInv'
  BY <1>1, SenderKeeps, ClaimKeeps, HandKeeps
<1>2. ASSUME NEW x \in Mail,
             \/ TryMail(x) \/ RecordFailure(x) \/ FailJob(x) \/ ClearFailure(x) \/ CompleteJob(x)
             \/ WorkerDies(x) \/ RetryByHand(x) \/ ForgetJob(x)
      PROVE  MailInv'
  BY <1>2, TryMailKeeps, RecordKeeps, JobKeeps
<1>3. CASE CleanUp \/ UNCHANGED mailing
  BY <1>3, CleanUpKeeps
<1> QED
  BY <1>1, <1>2, <1>3 DEF MailNext

\* For any number of reminders, passes, tries and deaths: a mail arrives again only when
\* somebody sent it without learning that he did.
THEOREM MailedTheorem == MailSpec => []MailedOnce
<1>1. MailInv => MailedOnce
  BY DEF MailInv, MailOK, BudgetOK, MailedOnce
<1> QED
  BY <1>1, MailInitInv, MailNextInv, PTL DEF MailSpec

\* The table of failed mails tells how the queue stands, and no claimed mail disappears.
THEOREM TableTheorem == MailSpec => []TableTells
<1>1. ASSUME MailInv PROVE TableTells
  <2> SUFFICES ASSUME NEW x \in Mail
               PROVE  /\ x \notin unlogged =>
                            /\ job[x].state = "waiting" /\ job[x].made = 0 => failedRow[x] = {}
                            /\ job[x].state = "waiting" /\ job[x].made \in 1 .. Tries - 1 =>
                                  failedRow[x] = {"retrying"} \/ (failedRow[x] = {} /\ delivered[x] > 0)
                            /\ job[x].state = "failed" => failedRow[x] \subseteq {"failed"}
                            /\ job[x].state \in {"cleared", "completed"} => failedRow[x] = {}
                      /\ x \in claimed /\ delivered[x] = 0 =>
                            x \in dropped \/ job[x].state # "none" \/ \E p \in Sender : x \in sender[p].has
    BY DEF TableTells
  <2>1. (x \in unlogged \/ RowsOK(x)) /\ WhereOK(x)
    BY <1>1, MailFacts DEF MailOK
  <2> QED
    BY <2>1 DEF RowsOK, WhereOK, Held
<1> QED
  BY <1>1, MailInitInv, MailNextInv, PTL DEF MailSpec

-----------------------------------------------------------------------------
(* The prices that are compared.                                           *)

RowState == [saved : BOOLEAN, cp : Int, hl : Int, recorded : BOOLEAN, winner : Winner]
ToldState == [side : {"unknown", "under", "over"}, cp : Int, held : BOOLEAN]

\* The readers know of a side as soon as a pair was recorded.
PriceInv ==
    /\ row \in RowState /\ told \in ToldState /\ lapsed \in BOOLEAN
    /\ RecordedPair /\ AlertsTell
    /\ row.recorded => row.saved
    /\ told.side # "unknown" => row.recorded

LEMMA CentsInt == ASSUME NEW a \in Amount PROVE Cents(a) \in Int
<1>1. CASE a = Missing
  BY <1>1 DEF Cents, Missing
<1>2. CASE a # Missing
  <2>1. a \in Nat
    BY <1>2, PriceAssumption DEF Amount
  <2> QED
    BY <1>2, <2>1 DEF Cents
<1> QED
  BY <1>1, <1>2

LEMMA FieldsFacts ==
    ASSUME NEW d \in Drafts
    PROVE  /\ Fields(d) \in RowState /\ Fields(d).saved /\ Fields(d).cp = Cents(d.cp)
           /\ Fields(d).winner = d.winner /\ d.winner \in Winner
           /\ Fields(d).recorded <=> Comparable(Fields(d))
           /\ Comparable(Fields(d)) => Fields(d).hl # Missing /\ Fields(d).hl # Fields(d).cp
<1>1. d.cp \in Amount /\ d.hl \in Amount /\ d.winner \in Winner
  BY DEF Drafts
<1>2. Cents(d.cp) \in Int /\ Cents(d.hl) \in Int
  BY <1>1, CentsInt
<1>3. /\ Fields(d).saved = TRUE /\ Fields(d).cp = Cents(d.cp) /\ Fields(d).hl = Cents(d.hl)
      /\ Fields(d).winner = d.winner
      /\ Fields(d).recorded = (Cents(d.hl) # Missing /\ Cents(d.hl) # Cents(d.cp))
  BY DEF Fields, Comparable
<1>4. Fields(d) \in RowState
  BY <1>1, <1>2 DEF Fields, Comparable, RowState
<1> QED
  BY <1>1, <1>3, <1>4 DEF Comparable

\* A price alert needs two pairs that can be compared.
Fires(old, f) == old.recorded /\ old.hl # Missing /\ Comparable(f)

\* The alerts that a check raises, one by one, and what they are about.
LEMMA AlertFacts ==
    ASSUME NEW old, NEW f, NEW d, NEW alerts, alerts = PriceAlerts(old, f) \cup BoxAlerts(old, d)
    PROVE  /\ "CompetitivePriceBelowOurs" \in alerts <=>
                 Fires(old, f) /\ Side(old) # "over" /\ Side(f) = "over" /\ old.cp # f.cp
           /\ "CompetitivePriceAboveOurs" \in alerts <=>
                 Fires(old, f) /\ Side(old) # "under" /\ Side(f) = "under" /\ old.cp # f.cp
           /\ "CompetitivePriceChanged" \in alerts <=>
                 Fires(old, f) /\ Side(old) = Side(f) /\ old.cp # f.cp
           /\ "OurPriceAboveCompetitive" \in alerts <=>
                 Fires(old, f) /\ Side(old) # "over" /\ Side(f) = "over" /\ old.hl # f.hl
           /\ "OurPriceBelowCompetitive" \in alerts <=>
                 Fires(old, f) /\ Side(old) # "under" /\ Side(f) = "under" /\ old.hl # f.hl
           /\ "BuyBoxWon" \in alerts <=> old.winner # "us" /\ d.winner = "us"
           /\ "BuyBoxLost" \in alerts <=>
                 old.winner = "us" /\ d.winner = "rival" /\ d.priced
BY DEF PriceAlerts, BoxAlerts, Fires

\* What the reader of a check's alerts concludes.
LEMMA ConcludeFacts ==
    ASSUME NEW d \in Drafts, NEW alerts, told \in ToldState
    PROVE  /\ Conclude(alerts, d) \in ToldState
           /\ "CompetitivePriceBelowOurs" \in alerts \/ "OurPriceAboveCompetitive" \in alerts =>
                 Conclude(alerts, d).side = "over"
           /\ ~("CompetitivePriceBelowOurs" \in alerts \/ "OurPriceAboveCompetitive" \in alerts) =>
                 Conclude(alerts, d).side =
                    IF "CompetitivePriceAboveOurs" \in alerts \/ "OurPriceBelowCompetitive" \in alerts
                    THEN "under" ELSE told.side
           /\ Conclude(alerts, d).cp =
                 IF \/ "CompetitivePriceBelowOurs" \in alerts \/ "CompetitivePriceAboveOurs" \in alerts
                    \/ "CompetitivePriceChanged" \in alerts
                 THEN Cents(d.cp) ELSE told.cp
           /\ Conclude(alerts, d).held <=>
                 "BuyBoxWon" \in alerts \/ (told.held /\ "BuyBoxLost" \notin alerts)
<1>1. d.cp \in Amount
  BY DEF Drafts
<1>2. Cents(d.cp) \in Int
  BY <1>1, CentsInt
<1>3. told.side \in {"unknown", "under", "over"} /\ told.cp \in Int /\ told.held \in BOOLEAN
  BY DEF ToldState
<1>4. /\ Conclude(alerts, d).side \in {"unknown", "under", "over"} /\ Conclude(alerts, d).cp \in Int
      /\ Conclude(alerts, d).held \in BOOLEAN
  BY <1>2, <1>3 DEF Conclude
<1>5. Conclude(alerts, d) \in ToldState
  BY <1>4 DEF Conclude, ToldState
<1> QED
  BY <1>5 DEF Conclude

LEMMA PriceInitInv == PriceInit => PriceInv
<1> SUFFICES ASSUME PriceInit PROVE PriceInv
  OBVIOUS
<1>1. PICK b \in BOOLEAN, w \in Winner :
          row = [saved |-> b, cp |-> Missing, hl |-> Missing, recorded |-> FALSE, winner |-> w]
  BY DEF PriceInit
<1>2. row \in RowState /\ row.recorded = FALSE
  <2>1. Missing \in Int
    BY DEF Missing
  <2> QED
    BY <1>1, <2>1 DEF RowState
<1>3. told = [side |-> "unknown", cp |-> Missing, held |-> row.winner = "us"]
  BY DEF PriceInit
<1>4. told \in ToldState /\ told.side = "unknown" /\ (told.held <=> row.winner = "us")
  <2>1. Missing \in Int /\ (row.winner = "us") \in BOOLEAN
    BY DEF Missing
  <2> QED
    BY <1>3, <2>1 DEF ToldState
<1>5. lapsed = FALSE
  BY DEF PriceInit
<1> QED
  BY <1>2, <1>4, <1>5 DEF PriceInv, RecordedPair, AlertsTell

LEMMA CheckKeeps ==
    ASSUME PriceInv, NEW d \in Drafts, Check(d)
    PROVE  PriceInv'
<1> DEFINE f == Fields(d)
           alerts == IF row.saved THEN PriceAlerts(row, f) \cup BoxAlerts(row, d) ELSE {}
           c == Conclude(alerts, d)
<1>1. /\ f \in RowState /\ f.saved /\ f.cp = Cents(d.cp) /\ f.winner = d.winner
      /\ d.winner \in Winner /\ (f.recorded <=> Comparable(f))
      /\ Comparable(f) => f.hl # Missing /\ f.hl # f.cp
  BY FieldsFacts
<1>2. /\ row \in RowState /\ told \in ToldState /\ c \in ToldState
      /\ told.side = "unknown" <=> ~row.recorded
  <2>1. told \in ToldState /\ (told.side # "unknown" => row.recorded)
    BY DEF PriceInv
  <2>2. row.recorded => told.side # "unknown"
    BY DEF PriceInv, AlertsTell, Side
  <2> QED
    BY <2>1, <2>2, ConcludeFacts DEF PriceInv
<1>3. /\ row' = (IF row.saved THEN Replacement(row, d) ELSE f)
      /\ told' = IF ~row.saved
                 THEN [side |-> IF row'.recorded THEN Side(row') ELSE "unknown", cp |-> row'.cp,
                       held |-> d.winner = "us"]
                 ELSE IF told.side # "unknown" \/ ~row'.recorded THEN c
                 ELSE [c EXCEPT !.side = Side(row'), !.cp = row'.cp]
      /\ lapsed' \in BOOLEAN
      /\ lapsed' <=> /\ row.saved /\ d.winner # "us"
                     /\ IF row.winner = "us" THEN d.winner = "none" ELSE lapsed
  BY DEF Check
<1>4. /\ row' \in RowState /\ row'.saved /\ row'.winner = d.winner
      /\ row' = f \/ (row.saved /\ ~f.recorded /\ row'.cp = row.cp /\ row'.hl = row.hl
                      /\ row'.recorded = row.recorded)
      /\ row.recorded => row'.recorded
      /\ f.recorded => row' = f
  <2>1. CASE ~row.saved
    BY <1>1, <1>3, <2>1 DEF PriceInv
  <2>2. CASE row.saved /\ f.recorded
    BY <1>1, <1>3, <2>2 DEF Replacement
  <2>3. CASE row.saved /\ ~f.recorded
    <3>1. row' = [f EXCEPT !.cp = row.cp, !.hl = row.hl, !.recorded = row.recorded]
      BY <1>3, <2>3 DEF Replacement
    <3> HIDE DEF f
    <3> QED
      BY <1>1, <1>2, <2>3, <3>1 DEF RowState
  <2> QED
    BY <2>1, <2>2, <2>3
<1>5. RecordedPair'
  BY <1>1, <1>4 DEF PriceInv, RecordedPair
<1>6. row'.recorded => Side(row') \in {"under", "over"}
  BY DEF Side
<1> HIDE DEF f, alerts, c
<1>7. CASE ~row.saved
  <2>1. told' = [side |-> IF row'.recorded THEN Side(row') ELSE "unknown", cp |-> row'.cp,
                 held |-> d.winner = "us"]
    BY <1>3, <1>7
  <2>2. told' \in ToldState
    BY <1>4, <1>6, <2>1 DEF ToldState, RowState
  <2>3. /\ told'.side = (IF row'.recorded THEN Side(row') ELSE "unknown")
        /\ told'.cp = row'.cp /\ (told'.held <=> d.winner = "us")
    BY <2>1
  <2>4. lapsed' \in BOOLEAN /\ ~lapsed'
    BY <1>3, <1>7
  <2> QED
    BY <1>4, <1>5, <2>2, <2>3, <2>4 DEF PriceInv, AlertsTell
<1>8. CASE row.saved
  <2>1. alerts = PriceAlerts(row, f) \cup BoxAlerts(row, d)
    BY <1>8 DEF alerts
  <2>2. /\ "BuyBoxWon" \in alerts <=> row.winner # "us" /\ d.winner = "us"
        /\ "BuyBoxLost" \in alerts <=> row.winner = "us" /\ d.winner = "rival" /\ d.priced
    BY <2>1, AlertFacts
  <2>3. c.held <=> "BuyBoxWon" \in alerts \/ (told.held /\ "BuyBoxLost" \notin alerts)
    BY <1>2, ConcludeFacts DEF c
  <2>4. c.held <=> d.winner = "us" \/ lapsed'
    <3>1. told.held <=> row.winner = "us" \/ lapsed
      BY DEF PriceInv, AlertsTell
    <3>2. d.winner = "rival" => d.priced
      BY DEF Drafts
    <3>3. d.winner \in {"none", "us", "rival"}
      BY <1>1 DEF Winner
    <3> QED
      BY <1>3, <1>8, <2>2, <2>3, <3>1, <3>2, <3>3
  <2>5. CASE ~row.recorded /\ row'.recorded
    <3>1. told' = [c EXCEPT !.side = Side(row'), !.cp = row'.cp]
      BY <1>2, <1>3, <1>8, <2>5
    <3>2. /\ told' \in ToldState /\ told'.side = Side(row') /\ told'.cp = row'.cp
          /\ told'.held = c.held
      BY <1>2, <1>4, <1>6, <2>5, <3>1 DEF ToldState, RowState
    <3> QED
      BY <1>3, <1>4, <1>5, <2>4, <2>5, <3>2 DEF PriceInv, AlertsTell
  <2>6. CASE row.recorded \/ ~row'.recorded
    <3>1. told' = c
      BY <1>2, <1>3, <1>8, <2>6
    <3>2. CASE Fires(row, f)
      <4>1. /\ row.recorded /\ row' = f /\ f.recorded /\ told.side = Side(row) /\ told.cp = row.cp
        BY <1>1, <1>4, <3>2 DEF Fires, PriceInv, AlertsTell
      <4>2. c.side = Side(f) /\ c.cp = f.cp
        <5>1. /\ "CompetitivePriceBelowOurs" \in alerts <=>
                    Side(row) # "over" /\ Side(f) = "over" /\ row.cp # f.cp
              /\ "CompetitivePriceAboveOurs" \in alerts <=>
                    Side(row) # "under" /\ Side(f) = "under" /\ row.cp # f.cp
              /\ "CompetitivePriceChanged" \in alerts <=> Side(row) = Side(f) /\ row.cp # f.cp
              /\ "OurPriceAboveCompetitive" \in alerts <=>
                    Side(row) # "over" /\ Side(f) = "over" /\ row.hl # f.hl
              /\ "OurPriceBelowCompetitive" \in alerts <=>
                    Side(row) # "under" /\ Side(f) = "under" /\ row.hl # f.hl
          BY <2>1, <3>2, AlertFacts
        <5>2. Side(row) \in {"under", "over"} /\ Side(f) \in {"under", "over"}
          BY DEF Side
        <5>3. Side(row) # Side(f) => row.cp # f.cp \/ row.hl # f.hl
          BY DEF Side
        <5>4. /\ "CompetitivePriceBelowOurs" \in alerts \/ "OurPriceAboveCompetitive" \in alerts =>
                    c.side = "over"
              /\ ~("CompetitivePriceBelowOurs" \in alerts \/ "OurPriceAboveCompetitive" \in alerts) =>
                    c.side = IF \/ "CompetitivePriceAboveOurs" \in alerts
                                \/ "OurPriceBelowCompetitive" \in alerts
                             THEN "under" ELSE told.side
              /\ c.cp = IF \/ "CompetitivePriceBelowOurs" \in alerts
                           \/ "CompetitivePriceAboveOurs" \in alerts
                           \/ "CompetitivePriceChanged" \in alerts
                        THEN f.cp ELSE told.cp
          BY <1>1, <1>2, ConcludeFacts DEF c
        <5>5. c.side = Side(f)
          BY <4>1, <5>1, <5>2, <5>3, <5>4
        <5>6. c.cp = f.cp
          BY <4>1, <5>1, <5>2, <5>4
        <5> QED
          BY <5>5, <5>6
      <4> QED
        BY <1>2, <1>3, <1>4, <1>5, <2>4, <3>1, <4>1, <4>2 DEF PriceInv, AlertsTell
    <3>3. CASE ~Fires(row, f)
      <4>1. c.side = told.side /\ c.cp = told.cp
        <5>1. /\ "CompetitivePriceBelowOurs" \notin alerts /\ "CompetitivePriceAboveOurs" \notin alerts
              /\ "CompetitivePriceChanged" \notin alerts /\ "OurPriceAboveCompetitive" \notin alerts
              /\ "OurPriceBelowCompetitive" \notin alerts
          BY <2>1, <3>3, AlertFacts
        <5> QED
          BY <1>2, <5>1, ConcludeFacts DEF c
      <4>2. row.recorded => ~f.recorded /\ row'.cp = row.cp /\ row'.hl = row.hl
        BY <1>1, <1>4, <3>3 DEF Fires, PriceInv, RecordedPair
      <4>3. row.recorded => Side(row') = Side(row)
        BY <4>2 DEF Side
      <4>4. row'.recorded => told'.side = Side(row') /\ told'.cp = row'.cp
        BY <2>6, <3>1, <4>1, <4>2, <4>3 DEF PriceInv, AlertsTell
      <4> QED
        BY <1>2, <1>3, <1>4, <1>5, <2>4, <3>1, <4>1, <4>4 DEF PriceInv, AlertsTell
    <3> QED
      BY <3>2, <3>3
  <2> QED
    BY <2>5, <2>6
<1> QED
  BY <1>7, <1>8

LEMMA PriceNextInv == PriceInv /\ [PriceNext]_watch => PriceInv'
<1> SUFFICES ASSUME PriceInv, [PriceNext]_watch PROVE PriceInv'
  OBVIOUS
<1>1. CASE UNCHANGED watch
  BY <1>1 DEF watch, PriceInv, RecordedPair, AlertsTell, Side
<1>2. CASE PriceNext
  BY <1>2, CheckKeeps DEF PriceNext
<1> QED
  BY <1>1, <1>2

\* A recorded pair can be compared, for any prices Amazon gives.
THEOREM PairTheorem == PriceSpec => []RecordedPair
<1>1. PriceInv => RecordedPair
  BY DEF PriceInv
<1> QED
  BY <1>1, PriceInitInv, PriceNextInv, PTL DEF PriceSpec

\* For any amounts and any sequence of checks, the alerts tell what the row says.
THEOREM TellTheorem == PriceSpec => []AlertsTell
<1>1. PriceInv => AlertsTell
  BY DEF PriceInv
<1> QED
  BY <1>1, PriceInitInv, PriceNextInv, PTL DEF PriceSpec

-----------------------------------------------------------------------------
(* Duties.                                                                 *)

WorkState ==
    [at : {"none", "there", "gone"}, made : BOOLEAN, duty : DutyId \cup {NoDuty},
     assignee : Holder \cup {NoHolder}, status : {"Open", "Review"}, prior : Holder \cup {NoHolder}]

OrderState ==
    [pc : {"idle", "archive", "add", "restore", "delete", "grant", "node", "active", "holds",
           "again", "write", "apply", "notify"},
     kind : {"none", "create", "edit", "exit", "late exit", "fill", "copy", "recur"},
     duty : DutyId \cup {NoDuty, AsIs}, who : Holder \cup {NoHolder, AsIs},
     status : {AsIs, "Open", "Review"}, saw : WorkState, void : BOOLEAN]

DutyTypes ==
    /\ dept \in {"active", "archived"} /\ catalog \in [DutyId -> {"none", "active", "archived", "gone"}]
    /\ work \in WorkState /\ order \in [Clerk -> OrderState]
    /\ node \in DutyId \cup {NoDuty} /\ warned \in BOOLEAN /\ excused \in BOOLEAN
    /\ work.at = "none" => work = NoWork

\* What a request asks for, by its kind.
ShapeOK(o) ==
    /\ o.kind = "create" => o.saw = NoWork /\ o.duty # AsIs /\ o.who # AsIs /\ o.status # AsIs
    /\ o.kind = "fill" => o.who # AsIs
    /\ o.kind \in {"copy", "recur"} => o.saw = NoWork /\ o.duty # AsIs /\ o.who # AsIs
    /\ o.kind = "none" => o.duty # AsIs
    /\ o.kind = "edit" =>
          \/ o.saw.status = "Open" /\ o.status = "Review"
          \/ o.saw.status = "Open" /\ o.status = AsIs /\ (o.duty # AsIs \/ o.who # AsIs)
          \/ o.saw.status = "Review" /\ o.status = AsIs /\ o.who = AsIs /\ o.duty # AsIs
    /\ o.kind \in {"exit", "late exit"} =>
          o.saw.status = "Review" /\ o.status = "Open" /\ o.who = o.saw.prior /\ o.duty = AsIs
    /\ o.pc = "again" => o.kind = "exit"

\* A duty is activated in an active department, and the one judged still holds the duty,
\* unless the request is void.
OrderOK(o) ==
    /\ ShapeOK(o)
    /\ o.pc \in {"add", "restore"} => dept = "active" \/ o.void
    /\ o.pc = "write" /\ o.kind \in {"create", "edit", "copy"} /\ Ruled(o) =>
          Holds(Judged(o), AfterDuty(o)) \/ o.void

\* It may be written.
RelyOK(o) == o.kind = "copy" /\ (Ruled(o) => Holds(Judged(o), AfterDuty(o)) \/ o.void)

DutyInv == DutyTypes /\ (\A r \in Clerk : OrderOK(order[r])) /\ CatalogKept /\ MismatchKnown

LEMMA OrderFields ==
    ASSUME DutyTypes, NEW r \in Clerk
    PROVE  /\ order[r] \in OrderState /\ order \in [Clerk -> OrderState]
           /\ \A p : (order' = [order EXCEPT ![r] = p]) =>
                 \A q \in Clerk : order'[q] = IF q = r THEN p ELSE order[q]
           /\ \A p \in OrderState : (order' = [order EXCEPT ![r] = p]) => order' \in [Clerk -> OrderState]
<1>1. order \in [Clerk -> OrderState]
  BY DEF DutyTypes
<1> QED
  BY <1>1

LEMMA NoOrderOK ==
    NoOrder \in OrderState /\ NoOrder.pc = "idle" /\ NoOrder.kind = "none" /\ NoOrder.duty # AsIs
<1>1. NoWork \in WorkState
  BY DEF NoWork, WorkState
<1> QED
  BY <1>1, DutyAssumption DEF NoOrder, OrderState

\* A step of one request, which takes nobody's duty away and archives no department.
LEMMA OrdersKept ==
    ASSUME DutyTypes, \A q \in Clerk : OrderOK(order[q]), NEW r \in Clerk, NEW p,
           order' = [order EXCEPT ![r] = p], OrderOK(p)',
           dept' \in {dept, "active"}, holdings \subseteq holdings'
    PROVE  \A q \in Clerk : OrderOK(order[q])'
<1>1. \A q \in Clerk : order'[q] = IF q = r THEN p ELSE order[q]
  BY OrderFields
<1> SUFFICES ASSUME NEW q \in Clerk PROVE OrderOK(order[q])'
  OBVIOUS
<1>2. CASE q = r
  BY <1>1, <1>2 DEF OrderOK, ShapeOK, Ruled, Judged, AfterDuty, SentToReview, Holds
<1>3. CASE q # r
  <2>1. order'[q] = order[q] /\ OrderOK(order[q])
    BY <1>1, <1>3
  <2> QED
    BY <2>1 DEF OrderOK, ShapeOK, Ruled, Judged, AfterDuty, SentToReview, Holds
<1> QED
  BY <1>2, <1>3

LEMMA EndKeeps ==
    ASSUME DutyTypes, \A q \in Clerk : OrderOK(order[q]), NEW r \in Clerk, End(r),
           dept' \in {dept, "active"}, holdings \subseteq holdings'
    PROVE  (\A q \in Clerk : OrderOK(order[q])') /\ order' \in [Clerk -> OrderState]
<1>1. PICK p : p = NoOrder
  OBVIOUS
<1>2. OrderOK(p)'
  BY <1>1, NoOrderOK DEF OrderOK, ShapeOK
<1>3. order' = [order EXCEPT ![r] = p]
  BY <1>1 DEF End
<1> QED
  BY <1>1, <1>2, <1>3, OrdersKept, OrderFields, NoOrderOK

\* The request that is put is the one described.
LEMMA Placed ==
    ASSUME NEW r, NEW pc, NEW o, Place(r, pc, o)
    PROVE  order' = [order EXCEPT ![r] = [o EXCEPT !.pc = pc]] /\ order[r] = NoOrder
BY Zenon DEF Place

\* A request like another, by what is asked.
LEMMA PlaceKeeps ==
    ASSUME DutyTypes, \A q \in Clerk : OrderOK(order[q]), NEW r \in Clerk,
           NEW pc, NEW o \in OrderState, Place(r, pc, o),
           pc \in {"archive", "add", "restore", "delete", "grant", "node", "active", "holds", "again",
                   "write", "apply"},
           ShapeOK(o), pc = "again" => o.kind = "exit",
           pc \in {"add", "restore"} => dept = "active", pc = "write" => o.kind \in {"fill", "recur"} \/ RelyOK(o),
           UNCHANGED <<dept, holdings>>
    PROVE  (\A q \in Clerk : OrderOK(order[q])') /\ order' \in [Clerk -> OrderState]
<1>1. PICK p : p = [o EXCEPT !.pc = pc]
  OBVIOUS
<1>2. /\ p \in OrderState /\ p.pc = pc /\ p.kind = o.kind /\ p.duty = o.duty /\ p.who = o.who
      /\ p.status = o.status /\ p.saw = o.saw /\ p.void = o.void
  BY <1>1 DEF OrderState
<1>3. OrderOK(p)'
  <2>1. Ruled(p) = Ruled(o) /\ Judged(p) = Judged(o) /\ AfterDuty(p) = AfterDuty(o)
    BY <1>2 DEF Ruled, Judged, AfterDuty, SentToReview
  <2>2. Ruled(p)' = Ruled(p) /\ Judged(p)' = Judged(p) /\ AfterDuty(p)' = AfterDuty(p)
    BY DEF Ruled, Judged, AfterDuty, SentToReview
  <2>3. pc = "write" /\ o.kind = "copy" /\ Ruled(o) => Holds(Judged(o), AfterDuty(o)) \/ o.void
    BY DEF RelyOK
  <2> QED
    BY <1>2, <2>1, <2>2, <2>3 DEF OrderOK, ShapeOK, RelyOK, Holds
<1>4. order' = [order EXCEPT ![r] = p]
  BY <1>1, Placed
<1> QED
  BY <1>2, <1>3, <1>4, OrdersKept, OrderFields

\* A request that goes on.
LEMMA StepKeeps ==
    ASSUME DutyTypes, \A q \in Clerk : OrderOK(order[q]), NEW r \in Clerk,
           NEW from, NEW to \in {"holds", "write", "notify"}, Step(r, from, to), order[r].pc # "again",
           to = "write" /\ order[r].kind \in {"create", "edit", "copy"} /\ Ruled(order[r]) =>
               Holds(Judged(order[r]), AfterDuty(order[r])),
           UNCHANGED <<dept, holdings>>
    PROVE  /\ \A q \in Clerk : OrderOK(order[q])'
           /\ order' \in [Clerk -> OrderState] /\ order'[r].pc = to
           /\ \A q \in Clerk : q # r => order'[q] = order[q]
<1>1. PICK p : p = [order[r] EXCEPT !.pc = to]
  OBVIOUS
<1>2. order[r] \in OrderState /\ OrderOK(order[r])
  BY OrderFields
<1>3. /\ p \in OrderState /\ p.pc = to /\ p.kind = order[r].kind /\ p.duty = order[r].duty
      /\ p.who = order[r].who /\ p.status = order[r].status /\ p.saw = order[r].saw
  BY <1>1, <1>2 DEF OrderState
<1>4. Ruled(p) = Ruled(order[r]) /\ Judged(p) = Judged(order[r]) /\ AfterDuty(p) = AfterDuty(order[r])
  BY <1>3 DEF Ruled, Judged, AfterDuty, SentToReview
<1>5. OrderOK(p)'
  BY <1>2, <1>3, <1>4 DEF OrderOK, ShapeOK, Holds, Ruled, Judged, AfterDuty, SentToReview
<1>6. order' = [order EXCEPT ![r] = p]
  BY <1>1 DEF Step
<1> QED
  BY <1>3, <1>5, <1>6, OrdersKept, OrderFields

\* What is said of catalog and task depends on the requests by the ones about to notify.
LEMMA RestKeeps ==
    ASSUME CatalogKept, MismatchKnown, UNCHANGED <<dept, catalog, holdings, work, node, warned, slipped>>,
           excused => excused', \A q \in Clerk : order[q].pc = "notify" => order'[q].pc = "notify" \/ excused'
    PROVE  CatalogKept' /\ MismatchKnown'
<1>1. CatalogKept'
  BY DEF CatalogKept, Used, Exists, Holds, There
<1>2. MismatchKnown'
  BY DEF MismatchKnown, Mismatch, Misses, Doer, Holds
<1> QED
  BY <1>1, <1>2

LEMMA AsksKeep ==
    ASSUME DutyInv, NEW r \in Clerk, NEW pc, NEW o \in OrderState, Place(r, pc, o),
           pc \in {"archive", "add", "restore", "delete", "grant", "node", "active", "holds", "again",
                   "write", "apply"},
           ShapeOK(o), pc = "again" => o.kind = "exit",
           pc \in {"add", "restore"} => dept = "active", pc = "write" => o.kind \in {"fill", "recur"} \/ RelyOK(o),
           UNCHANGED <<dept, catalog, holdings, work, node, warned, excused, slipped>>
    PROVE  DutyInv'
<1>1. (\A q \in Clerk : OrderOK(order[q])') /\ order' \in [Clerk -> OrderState]
  BY PlaceKeeps DEF DutyInv
<1>2. \A q \in Clerk : order[q].pc = "notify" => order'[q].pc = "notify"
  BY Placed, OrderFields, NoOrderOK DEF DutyInv
<1>3. CatalogKept' /\ MismatchKnown'
  BY <1>2, RestKeeps DEF DutyInv
<1>4. DutyTypes'
  BY <1>1 DEF DutyInv, DutyTypes
<1> QED
  BY <1>1, <1>3, <1>4 DEF DutyInv

LEMMA AskBookKeeps ==
    ASSUME DutyInv, NEW r \in Clerk, AskBook(r)
    PROVE  DutyInv'
<1>1. ASSUME NEW pc \in {"archive", "add", "restore", "delete", "grant", "node"},
             NEW d \in DutyId \cup {NoDuty}, NEW p \in Holder \cup {NoHolder}, Ask(r, pc, d, p),
             pc \in {"add", "restore"} => dept = "active"
      PROVE  DutyInv'
  <2>1. PICK o : o = [NoOrder EXCEPT !.duty = d, !.who = p]
    OBVIOUS
  <2>2. o \in OrderState /\ o.kind = "none" /\ o.pc = "idle" /\ o.duty # AsIs
    BY <2>1, NoOrderOK, DutyAssumption DEF OrderState
  <2>3. ShapeOK(o) /\ Place(r, pc, o)
    BY <1>1, <2>1, <2>2 DEF ShapeOK, Ask
  <2> QED
    BY <1>1, <2>2, <2>3, AsksKeep DEF AskBook
<1> QED
  BY <1>1 DEF AskBook

\* A change of the task, a template or a series, as it is asked for.
LEMMA AskWorkKeeps ==
    ASSUME DutyInv, NEW r \in Clerk, AskWork(r)
    PROVE  DutyInv'
<1>0. /\ NoOrder \in OrderState /\ NoWork \in WorkState /\ work \in WorkState
      /\ UNCHANGED <<dept, catalog, holdings, work, node, warned, excused, slipped>>
  BY NoOrderOK DEF AskWork, DutyInv, DutyTypes, NoWork, WorkState
<1>1. ASSUME NEW d \in DutyId \cup {NoDuty}, NEW p \in Holder, NEW s \in {"Open", "Review"},
             Place(r, "active", [NoOrder EXCEPT !.kind = "create", !.duty = d, !.who = p, !.status = s])
      PROVE  DutyInv'
  <2>1. PICK o : o = [NoOrder EXCEPT !.kind = "create", !.duty = d, !.who = p, !.status = s]
    OBVIOUS
  <2>2. o \in OrderState /\ o.kind = "create" /\ o.pc = "idle" /\ o.saw = NoWork /\ o.duty = d /\ o.who = p /\ o.status = s
    BY <1>0, <2>1 DEF OrderState, NoOrder
  <2>3. ShapeOK(o)
    BY <2>2, DutyAssumption DEF ShapeOK
  <2> QED
    BY <1>0, <1>1, <2>1, <2>2, <2>3, AsksKeep
<1>2. ASSUME NEW d \in DutyId \cup {NoDuty, AsIs}, NEW p \in Holder \cup {AsIs}, NEW s \in {AsIs, "Review"},
             Place(r, "active", [NoOrder EXCEPT !.kind = "edit", !.duty = d, !.who = p, !.status = s,
                                                !.saw = work]),
             \/ work.status = "Open" /\ s = "Review"
             \/ work.status = "Open" /\ s = AsIs /\ (d # AsIs \/ p # AsIs)
             \/ work.status = "Review" /\ s = AsIs /\ p = AsIs /\ d # AsIs
      PROVE  DutyInv'
  <2>1. PICK o : o = [NoOrder EXCEPT !.kind = "edit", !.duty = d, !.who = p, !.status = s, !.saw = work]
    OBVIOUS
  <2>2. /\ o \in OrderState /\ o.kind = "edit" /\ o.pc = "idle" /\ o.saw = work
        /\ o.duty = d /\ o.who = p /\ o.status = s
    BY <1>0, <2>1 DEF OrderState, NoOrder
  <2>3. ShapeOK(o)
    BY <1>2, <2>2 DEF ShapeOK
  <2> QED
    BY <1>0, <1>2, <2>1, <2>2, <2>3, AsksKeep
<1>3. ASSUME NEW d \in DutyId \cup {NoDuty}, work.status = "Review",
             Place(r, "active", [NoOrder EXCEPT !.kind = "edit", !.duty = d, !.who = AsIs, !.saw = work])
      PROVE  DutyInv'
  <2>1. PICK o : o = [NoOrder EXCEPT !.kind = "edit", !.duty = d, !.who = AsIs, !.saw = work]
    OBVIOUS
  <2>2. /\ o \in OrderState /\ o.kind = "edit" /\ o.pc = "idle" /\ o.saw = work
        /\ o.duty = d /\ o.who = AsIs /\ o.status = AsIs
    BY <1>0, <2>1 DEF OrderState, NoOrder
  <2>3. ShapeOK(o)
    BY <1>3, <2>2, DutyAssumption DEF ShapeOK
  <2> QED
    BY <1>0, <1>3, <2>1, <2>2, <2>3, AsksKeep
<1>4. ASSUME work.status = "Review",
             Place(r, "again", [NoOrder EXCEPT !.kind = "exit", !.duty = AsIs, !.who = work.prior,
                                               !.status = "Open", !.saw = work])
      PROVE  DutyInv'
  <2>1. PICK o : o = [NoOrder EXCEPT !.kind = "exit", !.duty = AsIs, !.who = work.prior,
                                     !.status = "Open", !.saw = work]
    OBVIOUS
  <2>2. /\ o \in OrderState /\ o.kind = "exit" /\ o.pc = "idle" /\ o.saw = work
        /\ o.duty = AsIs /\ o.who = work.prior /\ o.status = "Open"
    BY <1>0, <2>1 DEF OrderState, NoOrder, WorkState
  <2>3. ShapeOK(o)
    <3>1. o.saw.status = "Review" /\ o.who = o.saw.prior
      BY <1>4, <2>2
    <3>2. /\ o.kind \notin {"create", "fill", "none", "edit", "copy", "recur"}
          /\ o.status = "Open" /\ o.duty = AsIs /\ o.pc # "again"
      BY <2>2
    <3> QED
      BY <3>1, <3>2 DEF ShapeOK
  <2>4. Place(r, "again", o)
    BY <1>4, <2>1, Zenon
  <2> QED
    BY <1>0, <2>2, <2>3, <2>4, AsksKeep
<1>5. ASSUME NEW pc \in {"holds", "write"}, NEW d \in DutyId \cup {NoDuty}, NEW p \in Holder \cup {NoHolder},
             Place(r, pc, [NoOrder EXCEPT !.kind = "fill", !.duty = d, !.who = p])
      PROVE  DutyInv'
  <2>1. PICK o : o = [NoOrder EXCEPT !.kind = "fill", !.duty = d, !.who = p]
    OBVIOUS
  <2>2. o \in OrderState /\ o.kind = "fill" /\ o.pc = "idle" /\ o.who # AsIs
    BY <1>0, <2>1, DutyAssumption DEF OrderState, NoOrder
  <2>3. ShapeOK(o)
    BY <2>2 DEF ShapeOK
  <2> QED
    BY <1>0, <1>5, <2>1, <2>2, <2>3, AsksKeep
<1>6. ASSUME Place(r, "apply", [NoOrder EXCEPT !.duty = node, !.saw = work]) PROVE DutyInv'
  <2>1. PICK o : o = [NoOrder EXCEPT !.duty = node, !.saw = work]
    OBVIOUS
  <2>2. o \in OrderState /\ o.kind = "none" /\ o.pc = "idle" /\ o.duty # AsIs
    BY <1>0, <2>1, DutyAssumption DEF OrderState, NoOrder, DutyInv, DutyTypes
  <2>3. ShapeOK(o)
    BY <2>2 DEF ShapeOK
  <2> QED
    BY <1>0, <1>6, <2>1, <2>2, <2>3, AsksKeep
<1>7. CASE \E d \in DutyId \cup {NoDuty}, p \in Holder, s \in {"Open", "Review"} :
             Place(r, "active", [NoOrder EXCEPT !.kind = "create", !.duty = d, !.who = p, !.status = s])
  BY <1>1, <1>7
<1>8. CASE /\ work.status = "Open"
           /\ \E d \in (DutyId \cup {NoDuty, AsIs}) \ {work.duty}, p \in Holder \cup {AsIs}, s \in {AsIs, "Review"} :
                /\ (s = "Review" => p # AsIs) /\ (s = AsIs => p # work.assignee /\ (d # AsIs \/ p # AsIs))
                /\ Place(r, "active", [NoOrder EXCEPT !.kind = "edit", !.duty = d, !.who = p, !.status = s,
                                                      !.saw = work])
  BY <1>2, <1>8
<1>9. CASE /\ work.status = "Review"
           /\ \/ \E d \in (DutyId \cup {NoDuty}) \ {work.duty} :
                   Place(r, "active", [NoOrder EXCEPT !.kind = "edit", !.duty = d, !.who = AsIs, !.saw = work])
              \/ Place(r, "again", [NoOrder EXCEPT !.kind = "exit", !.duty = AsIs, !.who = work.prior,
                                                   !.status = "Open", !.saw = work])
  BY <1>3, <1>4, <1>9
<1>10. node \in DutyId \cup {NoDuty}
  BY DEF DutyInv, DutyTypes
<1>11. ASSUME NEW p \in Holder, Place(r, "holds", [NoOrder EXCEPT !.kind = "fill", !.duty = node, !.who = p])
       PROVE  DutyInv'
  BY <1>5, <1>10, <1>11
<1>12. ASSUME NEW p \in Holder \cup {NoHolder}, Place(r, "write", [NoOrder EXCEPT !.kind = "fill", !.who = p])
       PROVE  DutyInv'
  <2>1. NoOrder.duty = NoDuty
    BY DEF NoOrder
  <2>2. [NoOrder EXCEPT !.kind = "fill", !.who = p] = [NoOrder EXCEPT !.kind = "fill", !.duty = NoDuty, !.who = p]
    BY <2>1 DEF NoOrder
  <2> QED
    BY <1>5, <1>12, <2>2
<1>13. ASSUME Place(r, "write", [NoOrder EXCEPT !.kind = "copy", !.duty = work.duty, !.who = work.assignee,
                                                !.void = Misses(work.assignee, work.duty)])
       PROVE  DutyInv'
  <2>0. PICK v \in BOOLEAN : v = Misses(work.assignee, work.duty)
    BY DEF Misses
  <2>1. PICK o : o = [NoOrder EXCEPT !.kind = "copy", !.duty = work.duty, !.who = work.assignee, !.void = v]
    OBVIOUS
  <2>2. /\ o \in OrderState /\ o.kind = "copy" /\ o.pc = "idle" /\ o.saw = NoWork
        /\ o.duty = work.duty /\ o.who = work.assignee /\ o.void = v
        /\ o.duty # AsIs /\ o.who # AsIs
    BY <1>0, <2>1, DutyAssumption DEF OrderState, NoOrder, WorkState
  <2>3. ShapeOK(o)
    BY <2>2 DEF ShapeOK
  <2>4. Judged(o) = o.who /\ AfterDuty(o) = o.duty /\ (Ruled(o) => o.duty # NoDuty /\ o.who # NoHolder)
    BY <2>2 DEF Judged, AfterDuty, Ruled, SentToReview, NoWork
  <2>5. RelyOK(o)
    BY <2>0, <2>2, <2>4 DEF RelyOK, Misses
  <2>6. Place(r, "write", o)
    BY <1>13, <2>0, <2>1, Zenon
  <2> QED
    BY <1>0, <2>2, <2>3, <2>5, <2>6, AsksKeep
<1>14. ASSUME NEW p \in Holder \cup {NoHolder},
              Place(r, "write", [NoOrder EXCEPT !.kind = "recur", !.duty = work.duty, !.who = p])
       PROVE  DutyInv'
  <2>1. PICK o : o = [NoOrder EXCEPT !.kind = "recur", !.duty = work.duty, !.who = p]
    OBVIOUS
  <2>2. /\ o \in OrderState /\ o.kind = "recur" /\ o.pc = "idle" /\ o.saw = NoWork
        /\ o.duty # AsIs /\ o.who # AsIs
    BY <1>0, <2>1, DutyAssumption DEF OrderState, NoOrder, WorkState
  <2>3. ShapeOK(o)
    BY <2>2 DEF ShapeOK
  <2>4. Place(r, "write", o)
    BY <1>14, <2>1, Zenon
  <2> QED
    BY <1>0, <2>2, <2>3, <2>4, AsksKeep
<1> QED
  BY <1>6, <1>7, <1>8, <1>9, <1>11, <1>12, <1>13, <1>14 DEF AskWork, There

\* A request that is over, and leaves the task as it is.
LEMMA BookKeeps ==
    ASSUME DutyInv, NEW r \in Clerk, End(r), CatalogKept',
           dept' \in {dept, "active"}, catalog' \in [DutyId -> {"none", "active", "archived", "gone"}],
           holdings \subseteq holdings', node' \in DutyId \cup {NoDuty},
           order[r].pc # "notify", UNCHANGED <<work, warned, excused>>
    PROVE  DutyInv'
<1>1. (\A q \in Clerk : OrderOK(order[q])') /\ order' \in [Clerk -> OrderState]
  BY EndKeeps DEF DutyInv
<1>2. \A q \in Clerk : q # r => order'[q] = order[q]
  BY OrderFields DEF End, DutyInv
<1>3. Mismatch(work)' => Mismatch(work)
  BY DEF Mismatch, Misses, Doer, Holds
<1>4. MismatchKnown'
  BY <1>2, <1>3 DEF DutyInv, MismatchKnown
<1>5. DutyTypes'
  BY <1>1 DEF DutyInv, DutyTypes
<1> QED
  BY <1>1, <1>4, <1>5 DEF DutyInv

LEMMA ArchiveDepartmentKeeps ==
    ASSUME DutyInv, NEW r \in Clerk, ArchiveDepartment(r)
    PROVE  DutyInv'
<1>1. /\ dept' = "archived" /\ slipped' = {} /\ UNCHANGED <<holdings, work, node, warned, excused>>
      /\ catalog' = [d \in DutyId |-> IF catalog[d] = "active" THEN "archived" ELSE catalog[d]]
      /\ order[r].pc = "archive"
  BY DEF ArchiveDepartment
<1>2. \A d \in DutyId : catalog'[d] = IF catalog[d] = "active" THEN "archived" ELSE catalog[d]
  BY <1>1
<1>3. ASSUME NEW q \in Clerk
      PROVE  /\ order'[q] \in OrderState /\ OrderOK(order[q])'
             /\ order[q].pc = "notify" => order'[q].pc = "notify"
  <2>1. order[q] \in OrderState /\ OrderOK(order[q])
    BY OrderFields DEF DutyInv
  <2>2. CASE q = r
    <3>1. order'[q] = NoOrder
      BY <2>2 DEF ArchiveDepartment
    <3>2. OrderOK(order[q])'
      BY <3>1, NoOrderOK DEF OrderOK, ShapeOK
    <3> QED
      BY <1>1, <2>2, <3>1, <3>2, NoOrderOK
  <2>3. CASE q # r /\ order[q].pc \in {"add", "restore"}
    <3>1. order'[q] = [order[q] EXCEPT !.void = TRUE]
      BY <2>3 DEF ArchiveDepartment
    <3>2. /\ order'[q] \in OrderState /\ order'[q].pc = order[q].pc /\ order'[q].kind = order[q].kind
          /\ order'[q].duty = order[q].duty /\ order'[q].who = order[q].who
          /\ order'[q].status = order[q].status /\ order'[q].saw = order[q].saw /\ order'[q].void = TRUE
      BY <2>1, <3>1 DEF OrderState
    <3>3. OrderOK(order[q])'
      BY <2>1, <3>2 DEF OrderOK, ShapeOK
    <3> QED
      BY <3>2, <3>3
  <2>4. CASE q # r /\ order[q].pc \notin {"add", "restore"}
    <3>1. order'[q] = order[q]
      BY <2>4 DEF ArchiveDepartment
    <3>2. OrderOK(order[q])'
      BY <1>1, <2>1, <2>4, <3>1 DEF OrderOK, ShapeOK, Ruled, Judged, AfterDuty, SentToReview, Holds
    <3> QED
      BY <2>1, <3>1, <3>2
  <2> QED
    BY <2>2, <2>3, <2>4
<1>4. order' \in [Clerk -> OrderState]
  <2>1. order' = [q \in Clerk |-> order'[q]]
    BY DEF ArchiveDepartment
  <2> QED
    BY <1>3, <2>1
<1>5. \A d \in DutyId : Used(d)' => Used(d)
  BY <1>1 DEF Used, Holds, There
<1>6. \A d \in DutyId : Exists(d) => Exists(d)'
  BY <1>2 DEF Exists
<1>7. CatalogKept'
  BY <1>2, <1>5, <1>6 DEF DutyInv, CatalogKept
<1>8. MismatchKnown'
  BY <1>1, <1>3 DEF DutyInv, MismatchKnown, Mismatch, Misses, Doer, Holds
<1>9. DutyTypes'
  BY <1>1, <1>2, <1>4 DEF DutyInv, DutyTypes
<1> QED
  BY <1>3, <1>7, <1>8, <1>9 DEF DutyInv

\* A duty is created or restored, deleted or granted, or put on the template.
LEMMA CatalogStep ==
    ASSUME DutyInv, NEW r \in Clerk,
           CreateDuty(r) \/ RestoreDuty(r) \/ DeleteDuty(r) \/ GrantDuty(r) \/ SetNode(r)
    PROVE  DutyInv'
<1>0. order[r] \in OrderState /\ OrderOK(order[r])
  BY OrderFields DEF DutyInv
<1> DEFINE d == order[r].duty
<1>1. ASSUME Activate(r), order[r].pc \in {"add", "restore"} PROVE DutyInv'
  <2>1. /\ \A e \in DutyId : catalog'[e] = IF e = d THEN "active" ELSE catalog[e]
        /\ catalog' \in [DutyId -> {"none", "active", "archived", "gone"}]
    BY <1>1 DEF Activate, DutyInv, DutyTypes
  <2>2. /\ End(r) /\ UNCHANGED <<dept, holdings, work, node, warned, excused>>
        /\ slipped' = IF order[r].void THEN slipped \cup {d} ELSE slipped
    BY <1>1 DEF Activate
  <2>3. \A e \in DutyId : Exists(e) => Exists(e)'
    BY <2>1 DEF Exists
  <2>4. \A e \in DutyId : Used(e)' => Used(e)
    BY <2>2 DEF Used, Holds, There
  <2>5. dept' = "archived" => d \in slipped'
    BY <1>0, <1>1, <2>2 DEF OrderOK
  <2>6. CatalogKept'
    BY <2>1, <2>2, <2>3, <2>4, <2>5 DEF DutyInv, CatalogKept
  <2> QED
    BY <1>1, <2>1, <2>2, <2>6, BookKeeps DEF DutyInv, DutyTypes
<1>2. CASE DeleteDuty(r)
  <2>1. /\ order[r].pc = "delete" /\ Exists(d) /\ ~Used(d) /\ End(r)
        /\ catalog' = [catalog EXCEPT ![d] = "gone"]
        /\ UNCHANGED <<dept, holdings, work, node, warned, excused, slipped>>
    BY <1>2 DEF DeleteDuty
  <2>2. /\ \A e \in DutyId : catalog'[e] = IF e = d THEN "gone" ELSE catalog[e]
        /\ catalog' \in [DutyId -> {"none", "active", "archived", "gone"}]
    BY <2>1 DEF DutyInv, DutyTypes
  <2>3. \A e \in DutyId : Used(e)' => Used(e)
    BY <2>1 DEF Used, Holds, There
  <2>4. \A e \in DutyId : e # d /\ Exists(e) => Exists(e)'
    BY <2>2 DEF Exists
  <2>5. CatalogKept'
    BY <2>1, <2>2, <2>3, <2>4 DEF DutyInv, CatalogKept
  <2> QED
    BY <2>1, <2>2, <2>5, BookKeeps DEF DutyInv, DutyTypes
<1>3. CASE GrantDuty(r) \/ SetNode(r)
  <2>1. /\ order[r].pc \in {"grant", "node"} /\ Exists(d) /\ End(r)
        /\ holdings \subseteq holdings' /\ holdings' \subseteq holdings \cup {<<order[r].who, d>>}
        /\ node' \in {node, d} /\ UNCHANGED <<dept, catalog, work, warned, excused, slipped>>
    BY <1>3 DEF GrantDuty, SetNode
  <2>2. d \in DutyId \cup {NoDuty}
    BY <2>1 DEF Exists
  <2>3. ASSUME NEW e \in DutyId, Used(e)' PROVE Used(e) \/ e = d
    <3>1. \A p \in Holder : <<p, e>> \in holdings' => <<p, e>> \in holdings \/ e = d
      BY <2>1
    <3> QED
      BY <2>1, <2>3, <3>1 DEF Used, Holds, There
  <2>4. \A e \in DutyId : Exists(e)' <=> Exists(e)
    BY <2>1 DEF Exists
  <2>5. CatalogKept'
    BY <2>1, <2>3, <2>4 DEF DutyInv, CatalogKept
  <2> QED
    BY <2>1, <2>2, <2>5, BookKeeps DEF DutyInv, DutyTypes
<1> QED
  BY <1>1, <1>2, <1>3 DEF CreateDuty, RestoreDuty

\* The task is made or changed.
LEMMA WriteKeeps ==
    ASSUME DutyInv, NEW new \in WorkState, NEW why \in BOOLEAN, Write(new, why), new.at = "there",
           There \/ work = NoWork, \A q \in Clerk : OrderOK(order[q])', order' \in [Clerk -> OrderState],
           \A q \in Clerk : order[q].pc = "notify" => order'[q].pc = "notify",
           Misses(Doer(new), new.duty) /\ Pair(new) # Pair(work) =>
               why \/ \E q \in Clerk : order'[q].pc = "notify"
    PROVE  DutyInv'
<1>1. /\ work' = new /\ Exists(new.duty) /\ UNCHANGED <<dept, catalog, holdings, node, slipped>>
      /\ warned' = (warned /\ Pair(new) = Pair(work))
      /\ excused' = IF Pair(new) = Pair(work) THEN excused ELSE why
  BY DEF Write
<1>2. DutyTypes'
  BY <1>1 DEF DutyInv, DutyTypes
<1>3. CatalogKept'
  <2>1. \A d \in DutyId : Used(d)' => Used(d) \/ d = new.duty
    BY <1>1 DEF Used, Holds, There
  <2>2. \A d \in DutyId : Exists(d)' <=> Exists(d)
    BY <1>1 DEF Exists
  <2> QED
    BY <1>1, <2>1, <2>2 DEF DutyInv, CatalogKept
<1>4. Mismatch(work)' <=> Misses(Doer(new), new.duty)
  BY <1>1 DEF Mismatch, Misses, Doer, Holds
<1>5. CASE Pair(new) = Pair(work)
  <2>1. Doer(new) = Doer(work) /\ new.duty = work.duty
    BY <1>5 DEF Pair
  <2>2. ASSUME Misses(Doer(new), new.duty) PROVE Mismatch(work)
    <3>1. work # NoWork
      BY <2>1, <2>2 DEF Misses, NoWork
    <3> QED
      BY <2>1, <2>2, <3>1 DEF Mismatch, There
  <2> QED
    BY <1>1, <1>2, <1>3, <1>4, <1>5, <2>2 DEF DutyInv, MismatchKnown
<1>6. CASE Pair(new) # Pair(work)
  BY <1>1, <1>2, <1>3, <1>4, <1>6 DEF DutyInv, MismatchKnown
<1> QED
  BY <1>5, <1>6

\* A request that writes and ends.
LEMMA WritesAndEnds ==
    ASSUME DutyInv, NEW r \in Clerk, End(r), order[r].pc \in {"write", "apply"},
           NEW new \in WorkState, NEW why \in BOOLEAN, Write(new, why), new.at = "there",
           There \/ work = NoWork,
           Misses(Doer(new), new.duty) /\ Pair(new) # Pair(work) => why
    PROVE  DutyInv'
<1>1. UNCHANGED <<dept, holdings>>
  BY DEF Write
<1>2. (\A q \in Clerk : OrderOK(order[q])') /\ order' \in [Clerk -> OrderState]
  BY <1>1, EndKeeps DEF DutyInv
<1>3. \A q \in Clerk : order[q].pc = "notify" => order'[q].pc = "notify"
  BY OrderFields DEF DutyInv, End
<1> QED
  BY <1>2, <1>3, WriteKeeps

LEMMA CreateWorkKeeps ==
    ASSUME DutyInv, NEW r \in Clerk, CreateWork(r)
    PROVE  DutyInv'
<1>1. PICK o : o = order[r]
  OBVIOUS
<1>2. o \in OrderState /\ OrderOK(o) /\ work = NoWork
  BY <1>1, OrderFields DEF DutyInv, DutyTypes, CreateWork
<1>3. /\ o.pc = "write" /\ o.kind = "create" /\ End(r)
      /\ Write([NoWork EXCEPT !.at = "there", !.duty = o.duty, !.assignee = o.who, !.status = o.status], o.void)
  BY <1>1 DEF CreateWork
<1>4. PICK new : new = [NoWork EXCEPT !.at = "there", !.duty = o.duty, !.assignee = o.who, !.status = o.status]
  OBVIOUS
<1>5. o.saw = NoWork /\ o.duty # AsIs /\ o.who # AsIs /\ o.status # AsIs
  BY <1>2, <1>3 DEF OrderOK, ShapeOK
<1>6. NoWork \in WorkState /\ NoWork.status = "Open" /\ NoWork.prior = NoHolder
  BY DEF NoWork, WorkState
<1>7. /\ new \in WorkState /\ new.at = "there" /\ new.duty = o.duty /\ new.assignee = o.who
      /\ new.prior = NoHolder
  BY <1>2, <1>4, <1>5, <1>6 DEF WorkState, OrderState
<1>8. Doer(new) = o.who /\ Judged(o) = o.who /\ AfterDuty(o) = o.duty
  BY <1>3, <1>5, <1>6, <1>7 DEF Doer, Judged, AfterDuty, SentToReview
<1>9. Misses(Doer(new), new.duty) => o.void
  <2>1. Ruled(o) => Holds(o.who, o.duty) \/ o.void
    BY <1>2, <1>3, <1>8 DEF OrderOK
  <2>2. o.who # NoHolder /\ o.duty # NoDuty => Ruled(o)
    BY <1>5, <1>8 DEF Ruled
  <2> QED
    BY <1>7, <1>8, <2>1, <2>2 DEF Misses
<1>10. o.void \in BOOLEAN
  BY <1>2 DEF OrderState
<1> QED
  BY <1>1, <1>2, <1>3, <1>4, <1>7, <1>9, <1>10, WritesAndEnds

\* An order that has seen the task as it is writes a doer who holds the duty, or it is
\* void, or doer and duty are the old ones.
LEMMA EditWorkKeeps ==
    ASSUME DutyInv, NEW r \in Clerk, EditWork(r)
    PROVE  DutyInv'
<1>1. PICK o : o = order[r]
  OBVIOUS
<1>2. o \in OrderState /\ OrderOK(o) /\ work \in WorkState
  BY <1>1, OrderFields DEF DutyInv, DutyTypes
<1>3. PICK new : new = [work EXCEPT !.duty = IF o.duty = AsIs THEN @ ELSE o.duty,
                             !.assignee = IF o.who = AsIs THEN @ ELSE o.who,
                             !.status = IF o.status = AsIs THEN @ ELSE o.status,
                             !.prior = IF SentToReview(o) THEN o.saw.assignee
                                       ELSE IF o.kind = "exit" THEN NoHolder ELSE @]
  OBVIOUS
<1>4. PICK why : why = (o.void \/ o.saw # work \/ (SentToReview(o) /\ work.assignee = NoHolder))
  OBVIOUS
<1>5. o.pc = "write" /\ o.kind \in {"edit", "exit", "late exit"} /\ There /\ End(r)
  BY <1>1 DEF EditWork
<1>6. Write(new, why)
  BY <1>1, <1>3, <1>4, Zenon DEF EditWork
<1>7. /\ new.at = work.at /\ new.duty = (IF o.duty = AsIs THEN work.duty ELSE o.duty)
      /\ new.assignee = (IF o.who = AsIs THEN work.assignee ELSE o.who)
      /\ new.status = (IF o.status = AsIs THEN work.status ELSE o.status)
      /\ new.prior = (IF SentToReview(o) THEN o.saw.assignee
                      ELSE IF o.kind = "exit" THEN NoHolder ELSE work.prior)
  BY <1>2, <1>3 DEF WorkState
<1>8. new \in WorkState
  <2>1. o.saw.assignee \in Holder \cup {NoHolder}
    BY <1>2 DEF OrderState, WorkState
  <2>2. PICK d, p, s, q : /\ d = (IF o.duty = AsIs THEN work.duty ELSE o.duty)
                          /\ p = (IF o.who = AsIs THEN work.assignee ELSE o.who)
                          /\ s = (IF o.status = AsIs THEN work.status ELSE o.status)
                          /\ q = (IF SentToReview(o) THEN o.saw.assignee
                                  ELSE IF o.kind = "exit" THEN NoHolder ELSE work.prior)
    OBVIOUS
  <2>3. /\ d \in DutyId \cup {NoDuty} /\ p \in Holder \cup {NoHolder} /\ s \in {"Open", "Review"}
        /\ q \in Holder \cup {NoHolder}
    BY <1>2, <2>1, <2>2 DEF WorkState, OrderState
  <2>4. new = [work EXCEPT !.duty = d, !.assignee = p, !.status = s, !.prior = q]
    BY <1>3, <2>2
  <2> QED
    BY <1>2, <2>3, <2>4 DEF WorkState
<1>9. why \in BOOLEAN
  BY <1>4
<1>10. new.at = "there"
  BY <1>5, <1>7 DEF There
<1>11. ASSUME ~why, Misses(Doer(new), new.duty) PROVE Pair(new) = Pair(work)
  <2>1. o.saw = work /\ ~o.void /\ (SentToReview(o) => work.assignee # NoHolder)
    BY <1>4, <1>11
  <2>2. new.duty = AfterDuty(o) /\ new.duty # NoDuty /\ Doer(new) # NoHolder /\ ~Holds(Doer(new), new.duty)
    BY <1>7, <1>11, <2>1 DEF AfterDuty, Misses
  <2>3. CASE o.kind = "edit"
    <3>1. Doer(new) = Judged(o)
      BY <1>2, <1>7, <2>1, <2>3, DutyAssumption DEF OrderOK, ShapeOK, Doer, Judged, SentToReview
    <3>2. ~Ruled(o)
      BY <1>2, <1>5, <2>1, <2>2, <2>3, <3>1 DEF OrderOK
    <3>3. o.duty = AsIs /\ (o.who = AsIs \/ SentToReview(o))
      BY <2>2, <3>1, <3>2 DEF Ruled
    <3>4. SentToReview(o) /\ o.saw.status = "Open"
      BY <1>2, <2>3, <3>3, DutyAssumption DEF OrderOK, ShapeOK, SentToReview
    <3>5. Judged(o) = work.assignee /\ Doer(work) = work.assignee
      BY <2>1, <3>4 DEF Judged, Doer
    <3> QED
      BY <1>7, <3>1, <3>3, <3>5 DEF Pair
  <2>4. CASE o.kind \in {"exit", "late exit"}
    <3>1. work.status = "Review" /\ o.status = "Open" /\ o.who = work.prior /\ o.duty = AsIs
      BY <1>2, <2>1, <2>4 DEF OrderOK, ShapeOK
    <3>2. work.prior \in Holder \cup {NoHolder}
      BY <1>2 DEF WorkState
    <3>3. new.status = "Open" /\ new.assignee = work.prior /\ new.duty = work.duty
      BY <1>7, <3>1, <3>2, DutyAssumption
    <3>4. Doer(new) = work.prior
      BY <3>3 DEF Doer
    <3>5. Doer(work) = work.prior
      BY <2>2, <3>1, <3>4 DEF Doer
    <3> QED
      BY <3>3, <3>4, <3>5 DEF Pair
  <2> QED
    BY <1>5, <2>3, <2>4
<1> QED
  BY <1>1, <1>5, <1>6, <1>8, <1>9, <1>10, <1>11, WritesAndEnds

LEMMA ApplyKeeps ==
    ASSUME DutyInv, NEW r \in Clerk, Apply(r)
    PROVE  DutyInv'
<1>1. order[r] \in OrderState /\ Exists(order[r].duty) /\ work \in WorkState
  <2>1. Exists([work EXCEPT !.duty = order[r].duty].duty)
    BY DEF Apply, Write
  <2> QED
    BY <2>1, OrderFields DEF DutyInv, DutyTypes, WorkState
<1>2. order[r].duty \in DutyId \cup {NoDuty}
  BY <1>1 DEF Exists
<1>3. PICK new : new = [work EXCEPT !.duty = order[r].duty]
  OBVIOUS
<1>4. new \in WorkState /\ new.at = work.at
  BY <1>1, <1>2, <1>3 DEF WorkState
<1>5. Write(new, TRUE) /\ End(r) /\ There /\ order[r].pc = "apply"
  BY <1>3 DEF Apply
<1> QED
  BY <1>4, <1>5, WritesAndEnds DEF There

\* The owner is told next.
LEMMA GenerateKeeps ==
    ASSUME DutyInv, NEW r \in Clerk, Generate(r)
    PROVE  DutyInv'
<1>1. PICK o : o = order[r]
  OBVIOUS
<1>2. /\ o \in OrderState /\ OrderOK(o) /\ work = NoWork /\ node \in DutyId \cup {NoDuty}
      /\ NoWork \in WorkState
  BY <1>1, OrderFields DEF DutyInv, DutyTypes, Generate
<1>3. PICK new : new = [NoWork EXCEPT !.at = "there", !.made = TRUE, !.duty = node, !.assignee = o.who]
  OBVIOUS
<1>4. Write(new, FALSE) /\ Step(r, "write", "notify") /\ o.kind = "fill"
  BY <1>1, <1>3 DEF Generate
<1>5. o.who \in Holder \cup {NoHolder}
  BY <1>2, <1>4 DEF OrderOK, ShapeOK, OrderState
<1>6. new \in WorkState /\ new.at = "there"
  BY <1>2, <1>3, <1>5 DEF WorkState
<1>7. /\ (\A q \in Clerk : OrderOK(order[q])') /\ order' \in [Clerk -> OrderState] /\ order'[r].pc = "notify"
      /\ \A q \in Clerk : q # r => order'[q] = order[q]
  <2>1. UNCHANGED <<dept, holdings>>
    BY <1>4 DEF Write
  <2>2. order[r].pc # "again"
    BY <1>4 DEF Step
  <2>3. "notify" \in {"holds", "write", "notify"} /\ "notify" # "write"
    OBVIOUS
  <2> QED
    BY <1>4, <2>1, <2>2, <2>3, StepKeeps DEF DutyInv
<1> QED
  BY <1>2, <1>4, <1>6, <1>7, WriteKeeps

\* The copy takes the place of the task, and of its requests.
LEMMA CopyWorkKeeps ==
    ASSUME DutyInv, NEW r \in Clerk, CopyWork(r)
    PROVE  DutyInv'
<1>1. PICK o : o = order[r]
  OBVIOUS
<1>2. o \in OrderState /\ OrderOK(o) /\ NoWork \in WorkState
  BY <1>1, OrderFields DEF DutyInv, NoWork, WorkState
<1>3. /\ o.pc = "write" /\ o.kind \in {"copy", "recur"} /\ Exists(o.duty)
      /\ work' = [NoWork EXCEPT !.at = "there", !.duty = o.duty, !.assignee = o.who]
      /\ warned' = FALSE /\ excused' = (o.kind = "copy" /\ o.void)
      /\ UNCHANGED <<dept, catalog, holdings, node, slipped>>
  BY <1>1 DEF CopyWork
<1>4. /\ o.saw = NoWork /\ o.duty \in DutyId \cup {NoDuty} /\ o.who \in Holder \cup {NoHolder}
      /\ o.duty # AsIs /\ o.who # AsIs
  BY <1>2, <1>3 DEF OrderOK, ShapeOK, OrderState
<1>5. /\ work' \in WorkState /\ work'.at = "there" /\ work'.duty = o.duty /\ work'.assignee = o.who
      /\ Doer(work') = o.who
  <2>1. /\ work' \in WorkState /\ work'.at = "there" /\ work'.duty = o.duty
        /\ work'.assignee = o.who /\ work'.status = "Open"
    BY <1>2, <1>3, <1>4 DEF NoWork, WorkState
  <2> QED
    BY <2>1 DEF Doer
<1>6. ASSUME NEW q \in Clerk
      PROVE  order'[q] \in OrderState /\ OrderOK(order[q])'
  <2>1. order[q] \in OrderState /\ OrderOK(order[q])
    BY OrderFields DEF DutyInv
  <2>2. CASE order'[q] = NoOrder
    <3>1. OrderOK(order[q])'
      BY <2>2, NoOrderOK DEF OrderOK, ShapeOK
    <3> QED
      BY <2>2, <3>1, NoOrderOK
  <2>3. CASE order'[q] = order[q]
    <3>1. OrderOK(order[q])'
      BY <1>3, <2>1, <2>3 DEF OrderOK, ShapeOK, Ruled, Judged, AfterDuty, SentToReview, Holds
    <3> QED
      BY <2>1, <2>3, <3>1
  <2>4. CASE order'[q] = [o EXCEPT !.pc = "notify"] /\ q = r
    <3>1. PICK p : p = [o EXCEPT !.pc = "notify"]
      OBVIOUS
    <3>2. /\ p \in OrderState /\ p.pc = "notify" /\ p.kind = o.kind /\ p.duty = o.duty /\ p.who = o.who
          /\ p.status = o.status /\ p.saw = o.saw
      BY <1>2, <3>1 DEF OrderState
    <3>3. ShapeOK(p)
      BY <1>2, <3>2 DEF OrderOK, ShapeOK
    <3>4. OrderOK(order[q])'
      BY <2>4, <3>1, <3>2, <3>3 DEF OrderOK, ShapeOK
    <3> QED
      BY <2>4, <3>1, <3>2, <3>4
  <2>5. order'[q] = (IF q = r THEN IF o.kind = "recur" THEN [o EXCEPT !.pc = "notify"] ELSE NoOrder
                     ELSE IF OfTask(order[q]) THEN NoOrder ELSE order[q])
    BY <1>1 DEF CopyWork
  <2> QED
    BY <2>2, <2>3, <2>4, <2>5
<1>7. order' \in [Clerk -> OrderState]
  <2>1. order' = [q \in Clerk |-> order'[q]]
    BY DEF CopyWork
  <2> QED
    BY <1>6, <2>1
<1>8. DutyTypes'
  BY <1>2, <1>3, <1>5, <1>7 DEF DutyInv, DutyTypes, OrderState
<1>9. CatalogKept'
  <2>1. \A d \in DutyId : Used(d)' => Used(d) \/ d = o.duty
    BY <1>3, <1>5 DEF Used, Holds, There
  <2>2. \A d \in DutyId : Exists(d)' <=> Exists(d)
    BY <1>3 DEF Exists
  <2> QED
    BY <1>3, <2>1, <2>2 DEF DutyInv, CatalogKept
<1>10. MismatchKnown'
  <2>1. CASE o.kind = "recur"
    <3>1. order'[r] = [o EXCEPT !.pc = "notify"]
      BY <1>1, <2>1 DEF CopyWork
    <3>2. order'[r].pc = "notify"
      BY <1>2, <3>1 DEF OrderState
    <3> QED
      BY <3>2 DEF MismatchKnown
  <2>2. CASE o.kind = "copy"
    <3>1. Judged(o) = o.who /\ AfterDuty(o) = o.duty
          /\ (o.duty # NoDuty /\ o.who # NoHolder => Ruled(o))
      BY <1>4, <2>2 DEF Judged, AfterDuty, Ruled, SentToReview, NoWork
    <3>2. Misses(o.who, o.duty) => o.void
      BY <1>2, <1>3, <2>2, <3>1 DEF OrderOK, Misses
    <3>3. Mismatch(work)' => Misses(o.who, o.duty)
      BY <1>3, <1>5 DEF Mismatch, Misses, Doer, Holds
    <3> QED
      BY <1>3, <2>2, <3>2, <3>3 DEF MismatchKnown
  <2> QED
    BY <1>3, <2>1, <2>2
<1> QED
  BY <1>6, <1>8, <1>9, <1>10 DEF DutyInv

\* A request is checked, looks again, tells the owner or is given up.
LEMMA ChecksKeep ==
    ASSUME DutyInv, NEW r \in Clerk, CheckActive(r) \/ CheckHolds(r)
    PROVE  DutyInv'
<1>1. PICK from, to : /\ Step(r, from, to) /\ to \in {"holds", "write"} /\ from \in {"active", "holds"}
                      /\ to = "write" /\ Ruled(order[r]) => Holds(Judged(order[r]), AfterDuty(order[r]))
  BY DEF CheckActive, CheckHolds
<1>2. UNCHANGED <<dept, catalog, holdings, work, node, warned, excused, slipped>>
  BY DEF CheckActive, CheckHolds
<1>3. order[r].pc = from
  BY <1>1 DEF Step
<1>4. /\ \A q \in Clerk : OrderOK(order[q])'
      /\ order' \in [Clerk -> OrderState] /\ order'[r].pc = to
      /\ \A q \in Clerk : q # r => order'[q] = order[q]
  BY <1>1, <1>2, <1>3, StepKeeps DEF DutyInv
<1>5. CatalogKept' /\ MismatchKnown'
  BY <1>1, <1>2, <1>3, <1>4, RestKeeps DEF DutyInv
<1>6. DutyTypes'
  BY <1>2, <1>4 DEF DutyInv, DutyTypes
<1> QED
  BY <1>4, <1>5, <1>6 DEF DutyInv

LEMMA LookAgainKeeps ==
    ASSUME DutyInv, NEW r \in Clerk, LookAgain(r)
    PROVE  DutyInv'
<1>1. PICK p : p = [order[r] EXCEPT !.pc = "write", !.kind = IF work.status = "Review" THEN "exit" ELSE "late exit"]
  OBVIOUS
<1>2. /\ order[r].pc = "again"
      /\ order' = [order EXCEPT ![r] = p]
      /\ UNCHANGED <<dept, catalog, holdings, work, node, warned, excused, slipped>>
  BY <1>1 DEF LookAgain
<1>3. order[r] \in OrderState /\ OrderOK(order[r]) /\ order[r].kind = "exit"
  BY <1>2, OrderFields DEF DutyInv, OrderOK, ShapeOK
<1>4. /\ p \in OrderState /\ p.pc = "write" /\ p.kind \in {"exit", "late exit"} /\ p.duty = order[r].duty
      /\ p.who = order[r].who /\ p.status = order[r].status /\ p.saw = order[r].saw
  BY <1>1, <1>3 DEF OrderState
<1>5. OrderOK(p)'
  BY <1>3, <1>4 DEF OrderOK, ShapeOK
<1>6. \A q \in Clerk : OrderOK(order[q])'
  BY <1>2, <1>5, OrdersKept DEF DutyInv
<1>7. order' \in [Clerk -> OrderState] /\ \A q \in Clerk : q # r => order'[q] = order[q]
  BY <1>2, <1>4, OrderFields DEF DutyInv
<1>8. CatalogKept' /\ MismatchKnown'
  BY <1>2, <1>7, RestKeeps DEF DutyInv
<1>9. DutyTypes'
  BY <1>2, <1>7 DEF DutyInv, DutyTypes
<1> QED
  BY <1>6, <1>8, <1>9 DEF DutyInv

\* The reviewer of a task in Review is not its doer; of any other task the one told about is.
LEMMA NotifyKeeps ==
    ASSUME DutyInv, NEW r \in Clerk, Notify(r) \/ GiveUpOrder(r)
    PROVE  DutyInv'
<1>1. /\ End(r) /\ UNCHANGED <<dept, catalog, holdings, work, node, slipped>>
      /\ warned' \in BOOLEAN /\ excused' \in BOOLEAN /\ (warned => warned') /\ (excused => excused')
      /\ order[r].pc = "notify" /\ Mismatch(work) => warned' \/ excused'
  <2>1. CASE Notify(r)
    <3>1. work.status # "Review" => Doer(work) = work.assignee
      BY DEF Doer
    <3> QED
      BY <2>1, <3>1 DEF Notify, Mismatch, There, DutyInv, DutyTypes
  <2>2. CASE GiveUpOrder(r)
    BY <2>2 DEF GiveUpOrder, DutyInv, DutyTypes
  <2> QED
    BY <2>1, <2>2
<1>2. (\A q \in Clerk : OrderOK(order[q])') /\ order' \in [Clerk -> OrderState]
  BY <1>1, EndKeeps DEF DutyInv
<1>3. \A q \in Clerk : q # r => order'[q] = order[q]
  BY <1>1, OrderFields DEF End, DutyInv
<1>4. CatalogKept'
  BY <1>1 DEF DutyInv, CatalogKept, Used, Exists, Holds, There
<1>5. ASSUME Mismatch(work)' PROVE Mismatch(work)
  <2>1. work' = work /\ holdings' = holdings
    BY <1>1
  <2> QED
    BY <1>5, <2>1 DEF Mismatch, Misses, Doer, Holds
<1>6. ASSUME Mismatch(work)' PROVE warned' \/ excused' \/ \E q \in Clerk : order'[q].pc = "notify"
  <2>1. warned \/ excused \/ \E q \in Clerk : order[q].pc = "notify"
    BY <1>5, <1>6 DEF DutyInv, MismatchKnown
  <2>2. ASSUME NEW q \in Clerk, order[q].pc = "notify" PROVE order'[q].pc = "notify" \/ warned' \/ excused'
    BY <1>1, <1>3, <1>5, <1>6, <2>2
  <2> QED
    BY <1>1, <2>1, <2>2
<1>8. MismatchKnown'
  BY <1>6 DEF MismatchKnown
<1>7. DutyTypes'
  BY <1>1, <1>2 DEF DutyInv, DutyTypes
<1> QED
  BY <1>2, <1>4, <1>7, <1>8 DEF DutyInv

\* The department is restored, a duty archived, or the task deleted.
LEMMA StandingStep ==
    ASSUME DutyInv, RestoreDepartment \/ DeleteWork \/ \E d \in DutyId : ArchiveDuty(d)
    PROVE  DutyInv'
<1>1. /\ UNCHANGED <<holdings, node, order, warned, excused, slipped>> /\ dept' \in {dept, "active"}
      /\ work' = work \/ (work' = [NoWork EXCEPT !.at = "gone"] /\ There)
      /\ dept' = dept \/ dept' = "active"
  BY DEF RestoreDepartment, DeleteWork, ArchiveDuty
<1>2. /\ \A e \in DutyId : catalog'[e] = catalog[e] \/ (catalog[e] = "active" /\ catalog'[e] = "archived")
      /\ catalog' \in [DutyId -> {"none", "active", "archived", "gone"}]
  <2>1. CASE UNCHANGED catalog
    BY <2>1 DEF DutyInv, DutyTypes
  <2>2. CASE \E d \in DutyId : ArchiveDuty(d)
    BY <2>2 DEF ArchiveDuty, DutyInv, DutyTypes
  <2> QED
    BY <2>1, <2>2 DEF RestoreDepartment, DeleteWork
<1>3. ASSUME NEW q \in Clerk PROVE OrderOK(order[q])'
  <2>1. order'[q] = order[q] /\ OrderOK(order[q])
    BY <1>1 DEF DutyInv
  <2> QED
    BY <1>1, <2>1 DEF OrderOK, ShapeOK, Ruled, Judged, AfterDuty, SentToReview, Holds
<1>4. \A d \in DutyId : Used(d)' => Used(d)
  <2>1. There' => work' = work
    BY <1>1 DEF There, NoWork
  <2> QED
    BY <1>1, <2>1 DEF Used, Holds, There
<1>5. \A d \in DutyId : Exists(d) => Exists(d)'
  BY <1>2 DEF Exists
<1>6. CatalogKept'
  BY <1>1, <1>2, <1>4, <1>5 DEF DutyInv, CatalogKept
<1>7. ASSUME Mismatch(work)' PROVE Mismatch(work)
  <2>1. work' = work
    BY <1>1, <1>7 DEF Mismatch, NoWork
  <2> QED
    BY <1>1, <1>7, <2>1 DEF Mismatch, Misses, Doer, Holds
<1>8. MismatchKnown'
  BY <1>1, <1>7 DEF DutyInv, MismatchKnown
<1>9. work' \in WorkState /\ (work'.at = "none" => work' = NoWork)
  <2>1. NoWork \in WorkState
    BY DEF NoWork, WorkState
  <2> QED
    BY <1>1, <2>1 DEF DutyInv, DutyTypes, WorkState
<1>10. DutyTypes'
  BY <1>1, <1>2, <1>9 DEF DutyInv, DutyTypes
<1> QED
  BY <1>3, <1>6, <1>8, <1>10 DEF DutyInv

\* A duty that is taken away voids the requests that rely on it.
LEMMA TakeAwayKeeps ==
    ASSUME DutyInv, NEW p \in Holder, NEW d \in DutyId, TakeAway(p, d)
    PROVE  DutyInv'
<1>1. /\ holdings' = holdings \ {<<p, d>>} /\ UNCHANGED <<dept, catalog, work, node, warned, slipped>>
      /\ excused' = (excused \/ (There /\ Pair(work) = <<p, d>>))
  BY DEF TakeAway
<1>2. \A x, y : Holds(x, y) => Holds(x, y)' \/ <<x, y>> = <<p, d>>
  BY <1>1 DEF Holds
<1>3. ASSUME NEW q \in Clerk
      PROVE  /\ order'[q] \in OrderState /\ OrderOK(order[q])'
             /\ order'[q].pc = order[q].pc
  <2> DEFINE o == order[q]
  <2>1. o \in OrderState /\ OrderOK(o)
    BY OrderFields DEF DutyInv
  <2>2. CASE /\ o.pc = "write" /\ o.kind \in {"create", "edit", "copy"} /\ Ruled(o)
             /\ <<Judged(o), AfterDuty(o)>> = <<p, d>>
    <3>1. order'[q] = [order[q] EXCEPT !.void = TRUE]
      BY <2>2 DEF TakeAway
    <3>2. /\ order'[q] \in OrderState /\ order'[q].pc = order[q].pc /\ order'[q].kind = order[q].kind
          /\ order'[q].duty = order[q].duty /\ order'[q].who = order[q].who
          /\ order'[q].status = order[q].status /\ order'[q].saw = order[q].saw /\ order'[q].void = TRUE
      BY <2>1, <3>1 DEF OrderState
    <3>3. OrderOK(order[q])'
      BY <2>1, <3>2 DEF OrderOK, ShapeOK
    <3> QED
      BY <3>2, <3>3
  <2>3. CASE ~(/\ o.pc = "write" /\ o.kind \in {"create", "edit", "copy"} /\ Ruled(o)
               /\ <<Judged(o), AfterDuty(o)>> = <<p, d>>)
    <3>1. order'[q] = order[q]
      BY <2>3 DEF TakeAway
    <3>2. /\ ShapeOK(o) /\ (o.pc \in {"add", "restore"} => dept' = "active" \/ o.void)
      BY <1>1, <2>1 DEF OrderOK
    <3>3. o.pc = "write" /\ o.kind \in {"create", "edit", "copy"} /\ Ruled(o) =>
            Holds(Judged(o), AfterDuty(o))' \/ o.void
      <4>1. PICK x, y : x = Judged(o) /\ y = AfterDuty(o)
        OBVIOUS
      <4>2. o.pc = "write" /\ o.kind \in {"create", "edit", "copy"} /\ Ruled(o) => <<x, y>> \in holdings \/ o.void
        BY <2>1, <4>1 DEF OrderOK, Holds
      <4>3. o.pc = "write" /\ o.kind \in {"create", "edit", "copy"} /\ Ruled(o) => <<x, y>> \in holdings' \/ o.void
        BY <1>1, <2>3, <4>1, <4>2
      <4>4. (Judged(o) = x)' /\ (AfterDuty(o) = y)'
        BY <3>1, <4>1 DEF Judged, AfterDuty, SentToReview
      <4> QED
        BY <4>3, <4>4 DEF Holds
    <3>4. OrderOK(order[q])'
      BY <3>1, <3>2, <3>3 DEF OrderOK, ShapeOK, Ruled, Judged, AfterDuty, SentToReview
    <3> QED
      BY <2>1, <3>1, <3>4
  <2> QED
    BY <2>2, <2>3
<1>4. order' \in [Clerk -> OrderState]
  <2>1. order' = [q \in Clerk |-> order'[q]]
    BY DEF TakeAway
  <2> QED
    BY <1>3, <2>1
<1>5. CatalogKept'
  <2>1. \A e \in DutyId : Used(e)' => Used(e)
    BY <1>1 DEF Used, Holds, There
  <2>2. \A e \in DutyId : Exists(e) => Exists(e)'
    BY <1>1 DEF Exists
  <2> QED
    BY <1>1, <2>1, <2>2 DEF DutyInv, CatalogKept
<1>6. ASSUME Mismatch(work)' PROVE Mismatch(work) \/ (There /\ Pair(work) = <<p, d>>)
  <2>1. There /\ Doer(work) # NoHolder /\ work.duty # NoDuty /\ <<Doer(work), work.duty>> \notin holdings'
    BY <1>1, <1>6 DEF Mismatch, Misses, There, Doer, Holds
  <2>2. <<Doer(work), work.duty>> \notin holdings \/ Pair(work) = <<p, d>>
    BY <1>1, <2>1 DEF Pair
  <2> QED
    BY <2>1, <2>2 DEF Mismatch, Misses, There, Holds
<1>7. MismatchKnown'
  BY <1>1, <1>3, <1>6 DEF DutyInv, MismatchKnown
<1>8. DutyTypes'
  BY <1>1, <1>4 DEF DutyInv, DutyTypes
<1> QED
  BY <1>3, <1>5, <1>7, <1>8 DEF DutyInv

LEMMA DutyInitOK == DutiesInit => DutyInv
<1> SUFFICES ASSUME DutiesInit PROVE DutyInv
  OBVIOUS
<1>1. \A q \in Clerk : order[q] = NoOrder
  BY DEF DutiesInit
<1>2. \A q \in Clerk : OrderOK(order[q])
  <2>1. \A q \in Clerk : order[q].pc = "idle" /\ order[q].kind = "none" /\ order[q].duty # AsIs
    BY <1>1, NoOrderOK
  <2>2. \A q \in Clerk : ShapeOK(order[q])
    BY <2>1 DEF ShapeOK
  <2>3. \A q \in Clerk : order[q].pc \notin {"add", "restore", "write"}
    BY <2>1
  <2> QED
    BY <2>2, <2>3 DEF OrderOK
<1>3. work \in WorkState /\ (work.at = "none" => work = NoWork)
  <2>1. CASE work = NoWork
    <3>1. NoWork \in WorkState
      BY DEF NoWork, WorkState
    <3> QED
      BY <2>1, <3>1
  <2>2. CASE work \in [at : {"there"}, made : {TRUE}, status : {"Open"}, prior : {NoHolder},
                       duty : {NoDuty} \cup {d \in DutyId : catalog[d] = "active"}, assignee : Holder]
    <3>1. PICK d \in {NoDuty} \cup {e \in DutyId : catalog[e] = "active"}, p \in Holder :
             work = [at |-> "there", made |-> TRUE, status |-> "Open", prior |-> NoHolder,
                     duty |-> d, assignee |-> p]
      BY <2>2
    <3>2. d \in DutyId \cup {NoDuty}
      OBVIOUS
    <3> QED
      BY <3>1, <3>2 DEF WorkState
  <2> QED
    BY <2>1, <2>2 DEF DutiesInit
<1>4. /\ dept = "active" /\ catalog \in [DutyId -> {"none", "active"}]
      /\ holdings \in SUBSET (Holder \X {d \in DutyId : catalog[d] = "active"})
      /\ node \in {NoDuty} \cup {d \in DutyId : catalog[d] = "active"}
      /\ ~Mismatch(work) /\ warned = FALSE /\ excused = FALSE
  BY DEF DutiesInit
<1>7. There => work.duty \in {NoDuty} \cup {d \in DutyId : catalog[d] = "active"}
  <2>1. \/ work = NoWork
        \/ work.duty \in {NoDuty} \cup {d \in DutyId : catalog[d] = "active"}
    BY DEF DutiesInit
  <2> QED
    BY <2>1 DEF There, NoWork
<1>5. DutyTypes
  <2>1. order \in [Clerk -> OrderState]
    BY <1>1, NoOrderOK DEF DutiesInit
  <2>2. catalog \in [DutyId -> {"none", "active", "archived", "gone"}]
    BY <1>4
  <2> QED
    BY <1>3, <1>4, <2>1, <2>2 DEF DutyTypes
<1>6. \A d \in DutyId : Used(d) => Exists(d)
  BY <1>4, <1>7, DutyAssumption DEF Used, Holds, Exists
<1> QED
  BY <1>2, <1>4, <1>5, <1>6 DEF DutyInv, CatalogKept, MismatchKnown

LEMMA DutyStep == DutyInv /\ [DutiesNext]_duties => DutyInv'
<1> SUFFICES ASSUME DutyInv, [DutiesNext]_duties PROVE DutyInv'
  OBVIOUS
<1>1. CASE RestoreDepartment \/ DeleteWork \/ \E d \in DutyId : ArchiveDuty(d)
  BY <1>1, StandingStep
<1>2. CASE \E d \in DutyId, p \in Holder : TakeAway(p, d)
  BY <1>2, TakeAwayKeeps
<1>3. ASSUME NEW r \in Clerk, CreateDuty(r) \/ RestoreDuty(r) \/ DeleteDuty(r) \/ GrantDuty(r) \/ SetNode(r)
      PROVE  DutyInv'
  BY <1>3, CatalogStep
<1>4. ASSUME NEW r \in Clerk, AskBook(r) \/ ArchiveDepartment(r) \/ AskWork(r) PROVE DutyInv'
  BY <1>4, AskBookKeeps, ArchiveDepartmentKeeps, AskWorkKeeps
<1>5. ASSUME NEW r \in Clerk, CheckActive(r) \/ CheckHolds(r) \/ LookAgain(r) PROVE DutyInv'
  BY <1>5, ChecksKeep, LookAgainKeeps
<1>6. ASSUME NEW r \in Clerk, CreateWork(r) \/ EditWork(r) \/ Generate(r) \/ CopyWork(r) \/ Apply(r)
      PROVE  DutyInv'
  BY <1>6, CreateWorkKeeps, EditWorkKeeps, GenerateKeeps, CopyWorkKeeps, ApplyKeeps
<1>7. ASSUME NEW r \in Clerk, Notify(r) \/ GiveUpOrder(r) PROVE DutyInv'
  BY <1>7, NotifyKeeps
<1>8. CASE UNCHANGED duties
  <2>1. UNCHANGED <<dept, catalog, holdings, work, node, order, warned, excused, slipped>>
    BY <1>8 DEF duties
  <2>2. ASSUME NEW q \in Clerk PROVE OrderOK(order[q])'
    <3>1. order'[q] = order[q] /\ dept' = dept /\ holdings' = holdings /\ OrderOK(order[q])
      BY <2>1 DEF DutyInv
    <3> QED
      BY <3>1 DEF OrderOK, ShapeOK, Ruled, Judged, AfterDuty, SentToReview, Holds
  <2>3. CatalogKept' /\ MismatchKnown'
    BY <2>1, RestKeeps DEF DutyInv
  <2>4. DutyTypes'
    BY <2>1 DEF DutyInv, DutyTypes
  <2> QED
    BY <2>2, <2>3, <2>4 DEF DutyInv
<1> QED
  BY <1>1, <1>2, <1>3, <1>4, <1>5, <1>6, <1>7, <1>8 DEF DutiesNext

LEMMA DutyInvariance == DutiesSpec => []DutyInv
<1> QED
  BY DutyInitOK, DutyStep, PTL DEF DutiesSpec

\* A duty that is used exists, none becomes active in an archived department unnoticed,
\* and a task whose doer does not hold its duty came about in one of the ways that are
\* known, or the owner of its template is told: whatever duties, people and requests there are.
THEOREM DutiesTheorem == DutiesSpec => []DutiesHold
<1>1. DutyInv => DutiesHold
  BY DEF DutyInv, DutiesHold
<1> QED
  BY <1>1, DutyInvariance, PTL

-----------------------------------------------------------------------------
(* The chart.                                                              *)

Profiles == [Account -> [role : Role, active : BOOLEAN, sup : Account \cup {NoOne}]]

ChangeRequest ==
    [pc : {"supervisor", "reports", "write"}, kind : {"user", "merge"}, who : Account, from : Account,
     in : [sup : Account \cup {NoOne, Same}, role : Role \cup {Same}, active : BOOLEAN \cup {Same}],
     seen : SUBSET Profiles, counted : SUBSET Account, leaves : BOOLEAN]

\* A request has seen everyone active whom it is about to make a supervisor.
MoveOK(e) ==
    e.pc = "write" =>
        \A p \in DOMAIN e.lines :
            e.lines[p] # NoOne => e.lines[p] \in Account /\ \E u \in e.seen : u[e.lines[p]].active

\* It has counted no reports of one who loses the role, and seen inactive one whom it
\* deactivates without taking the reports away.
ChangeOK(e) ==
    /\ e \in ChangeRequest
    /\ e.kind = "user" =>
          /\ e.from = e.who /\ (e.leaves => e.in.active = FALSE)
          /\ e.in.active = FALSE /\ ~e.leaves => \E u \in e.seen : ~u[e.who].active
    /\ e.kind = "merge" =>
          /\ e.from # e.who /\ e.in.sup \notin {e.who, e.from, Same} /\ e.in.role # Same
          /\ e.in.active = Same /\ ~e.leaves /\ \E u \in e.seen : u[e.who].active
    /\ e.pc # "supervisor" /\ e.in.sup \in Account =>
          e.in.sup # e.who /\ \E u \in e.seen : u[e.in.sup].active
    /\ e.pc = "write" /\ e.in.role \in Role \ Boss => e.counted = {}

RequestOK(e) ==
    \/ e.pc = "idle"
    \/ e.pc \in {"chart", "write"} /\ e.kind = "org" /\ MoveOK(e)
    \/ ChangeOK(e)

ChartInv ==
    /\ user \in Profiles /\ (\A p \in Account : user[p].sup # p)
    /\ request = [r \in Writer |-> request[r]] /\ (\A r \in Writer : RequestOK(request[r]))
    /\ SupervisorsFit

\* A request is put, goes on or is given up.
LEMMA RequestKeeps ==
    ASSUME ChartInv, NEW r \in Writer, NEW e, request' = [request EXCEPT ![r] = e], RequestOK(e),
           UNCHANGED <<user, late, demoted>>
    PROVE  ChartInv'
<1>1. \A w \in Writer : request'[w] = IF w = r THEN e ELSE request[w]
  BY DEF ChartInv
<1>2. request' = [w \in Writer |-> request'[w]]
  BY DEF ChartInv
<1>3. \A w \in Writer : RequestOK(request'[w])
  BY <1>1 DEF ChartInv
<1>4. SupervisorsFit'
  BY DEF ChartInv, SupervisorsFit
<1> QED
  BY <1>2, <1>3, <1>4 DEF ChartInv

\* The accounts change and the request is over.
LEMMA AccountsKeep ==
    ASSUME ChartInv, NEW r \in Writer, request' = [request EXCEPT ![r] = Idle], user' \in Profiles,
           late \subseteq late', demoted \subseteq demoted',
           \A p \in Account : user'[p].sup # NoOne =>
               /\ user'[p].sup # p
               /\ user'[p].sup \in demoted' \/ user'[user'[p].sup].role \in Boss
               /\ user'[p].sup \in late' \/ user'[user'[p].sup].active
    PROVE  ChartInv'
<1>1. \A w \in Writer : request'[w] = IF w = r THEN Idle ELSE request[w]
  BY DEF ChartInv
<1>2. request' = [w \in Writer |-> request'[w]]
  BY DEF ChartInv
<1>3. RequestOK(Idle)
  BY DEF RequestOK, Idle
<1>4. \A w \in Writer : RequestOK(request'[w])
  BY <1>1, <1>3 DEF ChartInv
<1>5. \A p \in Account : user'[p].sup # p
  BY ChartAssumption
<1>6. SupervisorsFit'
  BY DEF SupervisorsFit
<1> QED
  BY <1>2, <1>4, <1>5, <1>6 DEF ChartInv

LEMMA ReadTeamKeeps ==
    ASSUME ChartInv, NEW r \in Writer, NEW p \in Account, ReadTeam(r, p)
    PROVE  ChartInv'
<1>1. PICK e : e = [pc |-> "chart", kind |-> "org", who |-> p, seen |-> {user},
                    reach |-> IF user[p].role = "Admin" THEN Account ELSE Team(user, p)]
  OBVIOUS
<1>2. RequestOK(e)
  BY <1>1 DEF RequestOK, MoveOK
<1>3. request' = [request EXCEPT ![r] = e] /\ UNCHANGED <<user, late, demoted>>
  BY <1>1 DEF ReadTeam
<1> QED
  BY <1>2, <1>3, RequestKeeps

\* Every supervisor in the batch is active by this reading.
LEMMA ReadChartKeeps ==
    ASSUME ChartInv, NEW r \in Writer, ReadChart(r)
    PROVE  ChartInv'
<1>1. PICK lines \in Saves(request[r].who, request[r].reach) :
         request' = [request EXCEPT ![r] =
             [pc |-> "write", kind |-> "org", who |-> @.who, reach |-> @.reach,
              seen |-> @.seen \cup {user}, lines |-> lines]]
  BY DEF ReadChart
<1>2. PICK e : e = [pc |-> "write", kind |-> "org", who |-> request[r].who, reach |-> request[r].reach,
                    seen |-> request[r].seen \cup {user}, lines |-> lines]
  OBVIOUS
<1>3. \A q \in DOMAIN lines : lines[q] # NoOne => lines[q] \in Account /\ user[lines[q]].active
  <2>1. PICK P : lines \in [P -> Account \cup {NoOne}]
    BY DEF Saves
  <2> QED
    BY <2>1 DEF Saves
<1>4. MoveOK(e)
  BY <1>2, <1>3 DEF MoveOK
<1>5. RequestOK(e)
  BY <1>2, <1>4 DEF RequestOK
<1>6. request' = [request EXCEPT ![r] = e] /\ UNCHANGED <<user, late, demoted>>
  BY <1>1, <1>2 DEF ReadChart, ChartInv
<1> QED
  BY <1>5, <1>6, RequestKeeps

LEMMA ReadUserKeeps ==
    ASSUME ChartInv, NEW r \in Writer, NEW p \in Account, ReadUser(r, p)
    PROVE  ChartInv'
<1>1. PICK in \in [sup : Account \cup {NoOne, Same}, role : Role \cup {Same}, active : BOOLEAN \cup {Same}] :
         request' = [request EXCEPT ![r] =
             [pc |-> "supervisor", kind |-> "user", who |-> p, from |-> p, in |-> in,
              seen |-> {user}, counted |-> {}, leaves |-> in.active = FALSE /\ user[p].active]]
  BY DEF ReadUser
<1>2. PICK leaves \in BOOLEAN : leaves = (in.active = FALSE /\ user[p].active)
  OBVIOUS
<1>3. PICK e : e = [pc |-> "supervisor", kind |-> "user", who |-> p, from |-> p, in |-> in,
                    seen |-> {user}, counted |-> {}, leaves |-> leaves]
  OBVIOUS
<1>4. e \in ChangeRequest
  BY <1>3 DEF ChangeRequest, ChartInv
<1>5. ChangeOK(e)
  BY <1>2, <1>3, <1>4 DEF ChangeOK
<1>6. request' = [request EXCEPT ![r] = e] /\ UNCHANGED <<user, late, demoted>>
  BY <1>1, <1>2, <1>3 DEF ReadUser
<1> QED
  BY <1>5, <1>6, RequestKeeps DEF RequestOK

LEMMA ReadAccountsKeeps ==
    ASSUME ChartInv, NEW r \in Writer, NEW p \in Account, NEW q \in Account, ReadAccounts(r, p, q)
    PROVE  ChartInv'
<1>1. PICK sup \in (Account \ {p, q}) \cup {NoOne}, role \in Role :
         request' = [request EXCEPT ![r] =
              [pc |-> "supervisor", kind |-> "merge", who |-> p, from |-> q,
               in |-> [sup |-> sup, role |-> role, active |-> Same],
               seen |-> {user}, counted |-> {}, leaves |-> FALSE]]
  BY DEF ReadAccounts
<1>2. PICK in : in = [sup |-> sup, role |-> role, active |-> Same]
  OBVIOUS
<1>3. PICK e : e = [pc |-> "supervisor", kind |-> "merge", who |-> p, from |-> q, in |-> in,
                    seen |-> {user}, counted |-> {}, leaves |-> FALSE]
  OBVIOUS
<1>4. /\ in \in [sup : Account \cup {NoOne, Same}, role : Role \cup {Same}, active : BOOLEAN \cup {Same}]
      /\ in.sup \notin {p, q, Same} /\ in.role # Same /\ in.active = Same
  BY <1>2, ChartAssumption
<1>5. e \in ChangeRequest
  BY <1>3, <1>4 DEF ChangeRequest, ChartInv
<1>6. user[p].active /\ p # q
  BY DEF ReadAccounts
<1>7. ChangeOK(e)
  BY <1>3, <1>4, <1>5, <1>6 DEF ChangeOK
<1>8. request' = [request EXCEPT ![r] = e] /\ UNCHANGED <<user, late, demoted>>
  BY <1>1, <1>2, <1>3 DEF ReadAccounts
<1> QED
  BY <1>7, <1>8, RequestKeeps DEF RequestOK

LEMMA ChecksOfTheChart ==
    ASSUME ChartInv, NEW r \in Writer, CheckSupervisor(r) \/ CountReports(r)
    PROVE  ChartInv'
<1>1. PICK e : e = request[r]
  OBVIOUS
<1>2. ChangeOK(e) /\ e \in ChangeRequest
  BY <1>1 DEF ChartInv, RequestOK, CheckSupervisor, CountReports, ChangeOK
<1>3. CASE CheckSupervisor(r)
  <2>1. PICK seen : seen = IF e.in.sup \in Account THEN e.seen \cup {user} ELSE e.seen
    OBVIOUS
  <2>2. PICK n : n = [e EXCEPT !.pc = "reports", !.seen = seen]
    OBVIOUS
  <2>3. seen \in SUBSET Profiles /\ e.seen \subseteq seen /\ (e.in.sup \in Account => user \in seen)
    BY <1>2, <2>1 DEF ChartInv, ChangeRequest
  <2>4. /\ n \in ChangeRequest /\ n.pc = "reports" /\ n.kind = e.kind /\ n.who = e.who /\ n.from = e.from
        /\ n.in = e.in /\ n.seen = seen /\ n.counted = e.counted /\ n.leaves = e.leaves
    BY <1>2, <2>2, <2>3 DEF ChangeRequest
  <2>5. e.in.sup \in Account => e.in.sup # e.who /\ user[e.in.sup].active
    BY <1>1, <1>3 DEF CheckSupervisor
  <2>6. ChangeOK(n)
    BY <1>2, <2>3, <2>4, <2>5 DEF ChangeOK
  <2>7. request' = [request EXCEPT ![r] = n] /\ UNCHANGED <<user, late, demoted>>
    BY <1>1, <1>3, <2>1, <2>2 DEF CheckSupervisor, ChartInv
  <2> QED
    BY <2>6, <2>7, RequestKeeps DEF RequestOK
<1>4. CASE CountReports(r)
  <2>1. PICK n : n = [e EXCEPT !.pc = "write", !.counted = Counted(e)]
    OBVIOUS
  <2>2. Counted(e) \subseteq Account
    BY DEF Counted, Reports
  <2>3. /\ n \in ChangeRequest /\ n.pc = "write" /\ n.kind = e.kind /\ n.who = e.who /\ n.from = e.from
        /\ n.in = e.in /\ n.seen = e.seen /\ n.counted = Counted(e) /\ n.leaves = e.leaves
    BY <1>2, <2>1, <2>2 DEF ChangeRequest
  <2>4. e.pc = "reports" /\ (e.in.role \in Role \ Boss => Counted(e) = {})
    BY <1>1, <1>4 DEF CountReports
  <2>5. ChangeOK(n)
    BY <1>2, <2>3, <2>4 DEF ChangeOK
  <2>6. request' = [request EXCEPT ![r] = n] /\ UNCHANGED <<user, late, demoted>>
    BY <1>1, <1>4, <2>1 DEF CountReports, ChartInv
  <2> QED
    BY <2>5, <2>6, RequestKeeps DEF RequestOK
<1> QED
  BY <1>3, <1>4

\* A batch of moves: the trigger sees the role of every new supervisor, and one who is
\* inactive now was active in the reading.
LEMMA CommitMoves ==
    ASSUME ChartInv, NEW r \in Writer, CommitChart(r), request[r].kind = "org", MoveOK(request[r])
    PROVE  ChartInv'
<1>1. PICK e : e = request[r]
  OBVIOUS
<1>2. /\ e.pc = "write" /\ e.kind = "org" /\ MoveOK(e) /\ After(e) = Moved(user, e.lines)
      /\ Rows(e) = DOMAIN e.lines /\ About(e) = {e.lines[p] : p \in DOMAIN e.lines} \cap Account
  BY <1>1 DEF CommitChart, After, Rows, About
<1>3. /\ \A p \in DOMAIN e.lines : Admits(After(e), p)
      /\ user' = After(e) /\ demoted \subseteq demoted' /\ request' = [request EXCEPT ![r] = Idle]
      /\ late' = late \cup {p \in About(e) : \E u \in e.seen : u[p].active # user[p].active}
  BY <1>1, <1>2 DEF CommitChart
<1>4. user' = [p \in Account |-> IF p \in DOMAIN e.lines THEN [user[p] EXCEPT !.sup = e.lines[p]] ELSE user[p]]
  BY <1>2, <1>3 DEF Moved
<1>5. ASSUME NEW p \in Account
      PROVE  /\ user'[p].role = user[p].role /\ user'[p].active = user[p].active
             /\ user'[p].sup = (IF p \in DOMAIN e.lines THEN e.lines[p] ELSE user[p].sup)
             /\ user'[p] \in [role : Role, active : BOOLEAN, sup : Account \cup {NoOne}]
  <2>1. user[p] \in [role : Role, active : BOOLEAN, sup : Account \cup {NoOne}]
    BY DEF ChartInv, Profiles
  <2>2. CASE p \in DOMAIN e.lines
    <3>1. user'[p] = [user[p] EXCEPT !.sup = e.lines[p]]
      BY <1>4, <2>2
    <3>2. e.lines[p] \in Account \cup {NoOne}
      BY <1>2, <2>2 DEF MoveOK
    <3> QED
      BY <2>1, <2>2, <3>1, <3>2
  <2>3. CASE p \notin DOMAIN e.lines
    BY <1>4, <2>1, <2>3
  <2> QED
    BY <2>2, <2>3
<1>6. user' \in Profiles
  BY <1>4, <1>5 DEF Profiles
<1>7. ASSUME NEW p \in Account, user'[p].sup # NoOne
      PROVE  /\ user'[p].sup # p
             /\ user'[p].sup \in demoted' \/ user'[user'[p].sup].role \in Boss
             /\ user'[p].sup \in late' \/ user'[user'[p].sup].active
  <2>1. PICK s : s = user'[p].sup
    OBVIOUS
  <2>2. s \in Account
    BY <1>5, <1>7, <2>1
  <2>3. CASE p \in DOMAIN e.lines
    <3>1. s = e.lines[p]
      BY <1>5, <2>1, <2>3
    <3>2. s # p /\ user'[s].role \in Boss
      BY <1>3, <1>7, <2>1, <2>3 DEF Admits
    <3>3. \E u \in e.seen : u[s].active
      BY <1>2, <1>7, <2>1, <2>3, <3>1 DEF MoveOK
    <3>4. s \in About(e)
      BY <1>2, <2>2, <2>3, <3>1
    <3>5. user[s].active \/ s \in late'
      BY <1>3, <3>3, <3>4
    <3>6. user'[s].active \/ s \in late'
      BY <1>5, <2>2, <3>5
    <3> QED
      BY <2>1, <3>2, <3>6
  <2>4. CASE p \notin DOMAIN e.lines
    <3>1. s = user[p].sup /\ s # NoOne
      BY <1>5, <1>7, <2>1, <2>4
    <3>2. s # p /\ (s \in demoted \/ user[s].role \in Boss) /\ (s \in late \/ user[s].active)
      BY <3>1 DEF ChartInv, SupervisorsFit
    <3> QED
      BY <1>3, <1>5, <2>1, <2>2, <3>2
  <2> QED
    BY <2>3, <2>4
<1> QED
  BY <1>3, <1>6, <1>7, AccountsKeep

\* The account as the form has it.
LEMMA ProfileRow ==
    ASSUME user \in Profiles, NEW e, ChangeOK(e)
    PROVE  /\ Profile(e) \in Profiles
           /\ \A p \in Account : p # e.who => Profile(e)[p] = user[p]
           /\ Profile(e)[e.who].role = Given(e.in.role, user[e.who].role)
           /\ Profile(e)[e.who].active = Given(e.in.active, user[e.who].active)
           /\ Profile(e)[e.who].sup = Given(e.in.sup, user[e.who].sup)
<1>1. e \in ChangeRequest /\ e.who \in Account
  BY DEF ChangeOK, ChangeRequest
<1>2. user[e.who] \in [role : Role, active : BOOLEAN, sup : Account \cup {NoOne}]
  BY <1>1 DEF Profiles
<1>3. PICK role, active, sup : /\ role = Given(e.in.role, user[e.who].role)
                               /\ active = Given(e.in.active, user[e.who].active)
                               /\ sup = Given(e.in.sup, user[e.who].sup)
  OBVIOUS
<1>4. role \in Role /\ active \in BOOLEAN /\ sup \in Account \cup {NoOne}
  BY <1>1, <1>2, <1>3 DEF ChangeRequest, Given
<1>5. Profile(e) = [user EXCEPT ![e.who] = [role |-> role, active |-> active, sup |-> sup]]
  BY <1>1, <1>3 DEF Profile, Profiles
<1> QED
  BY <1>1, <1>3, <1>4, <1>5 DEF Profiles

\* One account is changed: its reports are taken away when it is deactivated, or it was
\* inactive by the reading; and when it loses the role, it had none when they were counted.
LEMMA CommitUser ==
    ASSUME ChartInv, NEW r \in Writer, CommitChart(r), ChangeOK(request[r]), request[r].kind = "user"
    PROVE  ChartInv'
<1>1. PICK e : e = request[r]
  OBVIOUS
<1> DEFINE w == e.who
           P == Profile(e)
<1>2. /\ e \in ChangeRequest /\ ChangeOK(e) /\ e.pc = "write" /\ e.kind = "user" /\ e.from = w
      /\ w \in Account /\ user \in Profiles
  BY <1>1 DEF ChangeOK, ChangeRequest, CommitChart, ChartInv
<1>3. /\ user' = [p \in Account |-> IF e.leaves /\ P[p].sup = w THEN [P[p] EXCEPT !.sup = NoOne] ELSE P[p]]
      /\ Admits(user', w) /\ request' = [request EXCEPT ![r] = Idle]
      /\ late' = late \cup {p \in {w, e.in.sup} \cap Account : \E u \in e.seen : u[p].active # user[p].active}
      /\ demoted' = demoted \cup {p \in {w} : e.in.role \in Role \ Boss /\ Counted(e) # e.counted}
  <2>1. /\ Rows(e) = {w} /\ About(e) = {w, e.in.sup} \cap Account
        /\ After(e) = [p \in Account |-> IF e.leaves /\ P[p].sup = w THEN [P[p] EXCEPT !.sup = NoOne] ELSE P[p]]
    BY <1>2 DEF Rows, About, After
  <2> HIDE DEF P
  <2> QED
    BY <1>1, <1>2, <2>1 DEF CommitChart
<1>4. /\ P \in Profiles /\ \A p \in Account : p # w => P[p] = user[p]
      /\ P[w].role = Given(e.in.role, user[w].role)
      /\ P[w].active = Given(e.in.active, user[w].active)
      /\ P[w].sup = Given(e.in.sup, user[w].sup)
  BY <1>2, ProfileRow
<1> HIDE DEF P
<1>5. ASSUME NEW p \in Account
      PROVE  /\ user'[p].role = P[p].role /\ user'[p].active = P[p].active
             /\ user'[p].sup = (IF e.leaves /\ P[p].sup = w THEN NoOne ELSE P[p].sup)
             /\ user'[p] \in [role : Role, active : BOOLEAN, sup : Account \cup {NoOne}]
  <2>1. P[p] \in [role : Role, active : BOOLEAN, sup : Account \cup {NoOne}]
    BY <1>4 DEF Profiles
  <2>2. user'[p] = IF e.leaves /\ P[p].sup = w THEN [P[p] EXCEPT !.sup = NoOne] ELSE P[p]
    BY <1>3
  <2> QED
    BY <2>1, <2>2
<1>6. user' \in Profiles
  BY <1>3, <1>5 DEF Profiles
<1>7. ASSUME NEW p \in Account, user'[p].sup # NoOne
      PROVE  /\ user'[p].sup # p
             /\ user'[p].sup \in demoted' \/ user'[user'[p].sup].role \in Boss
             /\ user'[p].sup \in late' \/ user'[user'[p].sup].active
  <2>1. PICK s : s = user'[p].sup
    OBVIOUS
  <2>2. s \in Account /\ s = P[p].sup /\ ~(e.leaves /\ s = w)
    BY <1>5, <1>7, <2>1
  <2>3. CASE p = w
    <3>1. s # w /\ user'[s].role \in Boss
      BY <1>3, <1>7, <2>1, <2>3 DEF Admits
    <3>2. user'[s].active = user[s].active
      BY <1>4, <1>5, <2>2, <3>1
    <3>3. CASE e.in.sup = Same
      <4>1. s = user[p].sup /\ s # NoOne
        BY <1>4, <1>7, <2>1, <2>2, <2>3, <3>3 DEF Given
      <4>2. s \in late \/ user[s].active
        BY <4>1 DEF ChartInv, SupervisorsFit
      <4>3. user[s].active \/ s \in late'
        BY <1>3, <4>2
      <4> QED
        BY <2>1, <2>3, <3>1, <3>2, <4>3
    <3>4. CASE e.in.sup # Same
      <4>1. s = e.in.sup
        BY <1>4, <2>2, <2>3, <3>4 DEF Given
      <4>2. \E u \in e.seen : u[s].active
        BY <1>2, <2>2, <4>1 DEF ChangeOK
      <4>3. user[s].active \/ s \in late'
        BY <1>3, <2>2, <4>1, <4>2
      <4> QED
        BY <2>1, <2>3, <3>1, <3>2, <4>3
    <3> QED
      BY <3>3, <3>4
  <2>4. CASE p # w
    <3>1. s = user[p].sup /\ s # NoOne /\ s # p
      BY <1>4, <1>7, <2>1, <2>2, <2>4 DEF ChartInv
    <3>2. (s \in demoted \/ user[s].role \in Boss) /\ (s \in late \/ user[s].active)
      BY <3>1 DEF ChartInv, SupervisorsFit
    <3>3. CASE s # w
      BY <1>3, <1>4, <1>5, <2>1, <2>2, <3>1, <3>2, <3>3
    <3>4. CASE s = w
      <4>1. user'[w].role = Given(e.in.role, user[w].role) /\ user'[w].active = Given(e.in.active, user[w].active)
        BY <1>2, <1>4, <1>5
      <4>2. w \in demoted' \/ user'[w].role \in Boss
        <5>1. CASE e.in.role \in Role \ Boss
          <6>1. p \in Counted(e) /\ e.counted = {}
            BY <1>2, <3>1, <3>4, <5>1 DEF Counted, Reports, ChangeOK
          <6> QED
            BY <1>3, <5>1, <6>1
        <5>2. CASE e.in.role \in Boss
          BY <4>1, <5>2, ChartAssumption DEF Given
        <5>3. CASE e.in.role = Same
          BY <1>3, <3>2, <3>4, <4>1, <5>3 DEF Given
        <5> QED
          BY <1>2, <5>1, <5>2, <5>3 DEF ChangeRequest
      <4>3. w \in late' \/ user'[w].active
        <5>1. CASE e.in.active = FALSE
          <6>1. \E u \in e.seen : ~u[w].active
            BY <1>2, <2>2, <3>4, <5>1 DEF ChangeOK
          <6>2. user[w].active => w \in late'
            BY <1>2, <1>3, <6>1
          <6>3. w \in late \/ user[w].active
            BY <3>2, <3>4
          <6>4. w \in late => w \in late'
            BY <1>3
          <6> QED
            BY <6>2, <6>3, <6>4
        <5>2. CASE e.in.active = TRUE /\ e.in.active # Same
          BY <4>1, <5>2 DEF Given
        <5>3. CASE e.in.active = Same
          BY <1>3, <3>2, <3>4, <4>1, <5>3 DEF Given
        <5> QED
          BY <1>2, <5>1, <5>2, <5>3 DEF ChangeRequest
      <4> QED
        BY <2>1, <3>1, <3>4, <4>2, <4>3
    <3> QED
      BY <3>3, <3>4
  <2> QED
    BY <2>3, <2>4
<1> QED
  BY <1>3, <1>6, <1>7, AccountsKeep

\* Two accounts become one, which was active by the reading.
LEMMA CommitMerge ==
    ASSUME ChartInv, NEW r \in Writer, CommitChart(r), ChangeOK(request[r]), request[r].kind = "merge"
    PROVE  ChartInv'
<1>1. PICK e : e = request[r]
  OBVIOUS
<1> DEFINE w == e.who
           f == e.from
           P == Profile(e)
           base(p) == IF p = f THEN [user[p] EXCEPT !.active = FALSE] ELSE P[p]
<1>2. /\ e \in ChangeRequest /\ ChangeOK(e) /\ e.pc = "write" /\ e.kind = "merge" /\ f # w
      /\ w \in Account /\ f \in Account /\ user \in Profiles
  BY <1>1 DEF ChangeOK, ChangeRequest, CommitChart, ChartInv
<1>3. /\ user' = [p \in Account |-> IF base(p).sup = f THEN [base(p) EXCEPT !.sup = w] ELSE base(p)]
      /\ \A p \in {w, f} \cup Reports(user, f) : Admits(user', p)
      /\ request' = [request EXCEPT ![r] = Idle]
      /\ late' = late \cup {p \in {w, f, e.in.sup} \cap Account : \E u \in e.seen : u[p].active # user[p].active}
      /\ demoted' = demoted \cup {p \in {w} : e.in.role \in Role \ Boss /\ Counted(e) # e.counted}
  <2>1. /\ Rows(e) = {w, f} \cup Reports(user, f) /\ About(e) = {w, f, e.in.sup} \cap Account
        /\ After(e) = [p \in Account |-> IF base(p).sup = f THEN [base(p) EXCEPT !.sup = w] ELSE base(p)]
    BY <1>2 DEF Rows, About, After
  <2> HIDE DEF P, base
  <2> QED
    BY <1>1, <1>2, <2>1 DEF CommitChart
<1>4. /\ P \in Profiles /\ \A p \in Account : p # w => P[p] = user[p]
      /\ P[w].role = Given(e.in.role, user[w].role)
      /\ P[w].active = Given(e.in.active, user[w].active)
      /\ P[w].sup = Given(e.in.sup, user[w].sup)
  BY <1>2, ProfileRow
<1>5. e.in.sup \notin {w, f, Same} /\ e.in.role \in Role /\ e.in.role # Same /\ e.in.active = Same
  BY <1>2 DEF ChangeOK, ChangeRequest
<1>6. P[w].role = e.in.role /\ P[w].active = user[w].active /\ P[w].sup = e.in.sup
  BY <1>4, <1>5 DEF Given
<1> HIDE DEF P
<1>7. ASSUME NEW p \in Account
      PROVE  /\ user'[p].role = (IF p = w THEN e.in.role ELSE user[p].role)
             /\ user'[p].active = (IF p = f THEN FALSE ELSE user[p].active)
             /\ user'[p].sup = (IF p = w THEN e.in.sup ELSE IF user[p].sup = f THEN w ELSE user[p].sup)
             /\ user'[p] \in [role : Role, active : BOOLEAN, sup : Account \cup {NoOne}]
  <2>1. /\ P[p] \in [role : Role, active : BOOLEAN, sup : Account \cup {NoOne}]
        /\ user[p] \in [role : Role, active : BOOLEAN, sup : Account \cup {NoOne}]
    BY <1>2, <1>4 DEF Profiles
  <2>2. PICK x : x = base(p)
    OBVIOUS
  <2>3. /\ x \in [role : Role, active : BOOLEAN, sup : Account \cup {NoOne}]
        /\ x.role = (IF p = w THEN e.in.role ELSE user[p].role)
        /\ x.active = (IF p = f THEN FALSE ELSE user[p].active)
        /\ x.sup = (IF p = w THEN e.in.sup ELSE user[p].sup)
    <3>1. CASE p = f
      BY <1>2, <2>1, <2>2, <3>1
    <3>2. CASE p = w
      BY <1>2, <1>6, <2>1, <2>2, <3>2
    <3>3. CASE p # w /\ p # f
      BY <1>4, <2>1, <2>2, <3>3
    <3> QED
      BY <3>1, <3>2, <3>3
  <2>4. user'[p] = IF x.sup = f THEN [x EXCEPT !.sup = w] ELSE x
    BY <1>3, <2>2
  <2> HIDE DEF base
  <2> QED
    BY <1>2, <1>5, <2>3, <2>4
<1> HIDE DEF base
<1>8. user' \in Profiles
  BY <1>3, <1>7 DEF Profiles
<1>9. ASSUME NEW p \in Account, user'[p].sup # NoOne
      PROVE  /\ user'[p].sup # p
             /\ user'[p].sup \in demoted' \/ user'[user'[p].sup].role \in Boss
             /\ user'[p].sup \in late' \/ user'[user'[p].sup].active
  <2>1. PICK s : s = user'[p].sup
    OBVIOUS
  <2>2. s \in Account /\ s # f
    BY <1>2, <1>5, <1>7, <1>9, <2>1
  <2>3. user'[s].active = user[s].active
    BY <1>7, <2>2
  <2>4. w \in late' \/ user[w].active
    <3>1. \E u \in e.seen : u[w].active
      BY <1>2 DEF ChangeOK
    <3> QED
      BY <1>2, <1>3, <3>1
  <2>5. s \in late' \/ user[s].active
    <3>1. CASE p = w
      <4>1. s = e.in.sup
        BY <1>7, <2>1, <3>1
      <4>2. \E u \in e.seen : u[s].active
        BY <1>2, <2>2, <4>1 DEF ChangeOK
      <4> QED
        BY <1>3, <2>2, <4>1, <4>2
    <3>2. CASE p # w /\ user[p].sup = f
      BY <1>7, <2>1, <2>4, <3>2
    <3>3. CASE p # w /\ user[p].sup # f
      <4>1. s = user[p].sup
        BY <1>7, <2>1, <3>3
      <4> QED
        BY <1>3, <1>9, <2>1, <4>1 DEF ChartInv, SupervisorsFit
    <3> QED
      BY <3>1, <3>2, <3>3
  <2>6. CASE p \in {w, f} \cup Reports(user, f)
    <3>1. s # p /\ user'[s].role \in Boss
      BY <1>3, <1>9, <2>1, <2>6 DEF Admits
    <3> QED
      BY <2>1, <2>3, <2>5, <3>1
  <2>7. CASE p \notin {w, f} \cup Reports(user, f)
    <3>1. p # w /\ p # f /\ user[p].sup # f
      BY <2>7 DEF Reports
    <3>2. s = user[p].sup /\ s # p
      BY <1>7, <2>1, <3>1 DEF ChartInv
    <3>3. s \in demoted \/ user[s].role \in Boss
      BY <1>9, <2>1, <3>2 DEF ChartInv, SupervisorsFit
    <3>4. s \in demoted' \/ user'[s].role \in Boss
      <4>1. CASE s # w
        BY <1>3, <1>7, <2>2, <3>3, <4>1
      <4>2. CASE s = w /\ e.in.role \in Boss
        BY <1>7, <2>2, <4>2
      <4>3. CASE s = w /\ e.in.role \notin Boss
        <5>1. p \in Counted(e) /\ e.counted = {}
          BY <1>2, <1>5, <3>1, <3>2, <4>3 DEF Counted, Reports, ChangeOK
        <5> QED
          BY <1>3, <1>5, <4>3, <5>1
      <4> QED
        BY <4>1, <4>2, <4>3
    <3> QED
      BY <2>1, <2>3, <2>5, <3>2, <3>4
  <2> QED
    BY <2>6, <2>7
<1> QED
  BY <1>3, <1>8, <1>9, AccountsKeep

LEMMA ChartInitOK == ChartInit => ChartInv
<1> SUFFICES ASSUME ChartInit PROVE ChartInv
  OBVIOUS
<1>1. user \in [Account -> [role : Role, active : {TRUE}, sup : Account \cup {NoOne}]]
  BY DEF ChartInit
<1>2. ASSUME NEW p \in Account
      PROVE  user[p] \in [role : Role, active : BOOLEAN, sup : Account \cup {NoOne}] /\ user[p].active = TRUE
  <2>1. user[p] \in [role : Role, active : {TRUE}, sup : Account \cup {NoOne}]
    BY <1>1
  <2> QED
    BY <2>1
<1>3. user \in Profiles
  BY <1>1, <1>2 DEF Profiles
<1>4. \A p \in Account : user[p].sup # NoOne => user[p].sup # p /\ user[user[p].sup].role \in Boss
  BY DEF ChartInit, Admits
<1>5. \A p \in Account : user[p].sup # p
  BY <1>4, ChartAssumption
<1>6. SupervisorsFit
  <2> SUFFICES ASSUME NEW p \in Account, user[p].sup # NoOne
               PROVE  user[user[p].sup].role \in Boss /\ user[user[p].sup].active
    BY DEF SupervisorsFit
  <2>1. user[p].sup \in Account
    BY <1>2
  <2> QED
    BY <1>2, <1>4, <2>1
<1>7. request = [w \in Writer |-> request[w]] /\ \A w \in Writer : RequestOK(request[w])
  <2>1. \A w \in Writer : request[w].pc = "idle"
    BY DEF ChartInit, Idle
  <2> QED
    BY <2>1 DEF ChartInit, RequestOK
<1> QED
  BY <1>3, <1>5, <1>6, <1>7 DEF ChartInv

LEMMA ChartStep == ChartInv /\ [ChartNext]_chart => ChartInv'
<1> SUFFICES ASSUME ChartInv, [ChartNext]_chart PROVE ChartInv'
  OBVIOUS
<1>1. ASSUME NEW r \in Writer, NEW p \in Account, ReadTeam(r, p) \/ ReadUser(r, p) PROVE ChartInv'
  BY <1>1, ReadTeamKeeps, ReadUserKeeps
<1>2. ASSUME NEW r \in Writer, NEW p \in Account, NEW q \in Account, ReadAccounts(r, p, q) PROVE ChartInv'
  BY <1>2, ReadAccountsKeeps
<1>3. ASSUME NEW r \in Writer, ReadChart(r) \/ CheckSupervisor(r) \/ CountReports(r) PROVE ChartInv'
  BY <1>3, ReadChartKeeps, ChecksOfTheChart
<1>4. ASSUME NEW r \in Writer, CommitChart(r) PROVE ChartInv'
  <2>1. request[r].pc = "write" /\ RequestOK(request[r])
    BY <1>4 DEF CommitChart, ChartInv
  <2>2. CASE request[r].kind = "org" /\ MoveOK(request[r])
    BY <1>4, <2>2, CommitMoves
  <2>3. CASE ChangeOK(request[r])
    <3>1. request[r].kind \in {"user", "merge"}
      BY <2>3 DEF ChangeOK, ChangeRequest
    <3> QED
      BY <1>4, <2>3, <3>1, CommitUser, CommitMerge
  <2> QED
    BY <2>1, <2>2, <2>3 DEF RequestOK
<1>5. ASSUME NEW r \in Writer, GiveUpChart(r) PROVE ChartInv'
  <2>1. RequestOK(Idle)
    BY DEF RequestOK, Idle
  <2> QED
    BY <1>5, <2>1, RequestKeeps DEF GiveUpChart
<1>6. CASE UNCHANGED chart
  <2>1. UNCHANGED <<user, request, late, demoted>>
    BY <1>6 DEF chart
  <2> QED
    BY <2>1 DEF ChartInv, SupervisorsFit
<1> QED
  BY <1>1, <1>2, <1>3, <1>4, <1>5, <1>6 DEF ChartNext

\* A supervisor has the role and is active, but for who was written on an old reading, for
\* any accounts, roles and requests.
THEOREM SupervisorsTheorem == ChartSpec => []SupervisorsFit
<1>1. ChartInv => SupervisorsFit
  BY DEF ChartInv
<1> QED
  BY <1>1, ChartInitOK, ChartStep, PTL DEF ChartSpec

-----------------------------------------------------------------------------
(* The shape of the chart under a batch of moves.                          *)

Charted(u) == \A p \in Account : u[p].sup \in Account \cup {NoOne}

LEMMA UpwardClosed ==
    ASSUME NEW u, Charted(u), NEW p \in Account
    PROVE  /\ Upward(u, p) \subseteq Account
           /\ u[p].sup # NoOne => u[p].sup \in Upward(u, p)
           /\ \A a \in Upward(u, p) : u[a].sup # NoOne => u[a].sup \in Upward(u, p)
BY DEF Upward, Charted

LEMMA UpwardLeast ==
    ASSUME NEW u, Charted(u), NEW p \in Account, NEW V \in SUBSET Account,
           u[p].sup \in V \cup {NoOne}, \A a \in V : u[a].sup \in V \cup {NoOne}
    PROVE  Upward(u, p) \subseteq V
BY DEF Upward

\* Who is above p is p's supervisor, or above that one.
LEMMA UpwardUnfolds ==
    ASSUME NEW u, Charted(u), NEW p \in Account, NEW a \in Upward(u, p)
    PROVE  u[p].sup \in Account /\ (a = u[p].sup \/ a \in Upward(u, u[p].sup))
<1>1. CASE u[p].sup = NoOne
  <2>1. PICK V \in SUBSET Account : V = {}
    OBVIOUS
  <2>2. u[p].sup \in V \cup {NoOne} /\ \A b \in V : u[b].sup \in V \cup {NoOne}
    BY <1>1, <2>1
  <2>3. Upward(u, p) \subseteq V
    BY <2>2, UpwardLeast
  <2> QED
    BY <2>1, <2>3
<1>2. CASE u[p].sup # NoOne
  <2>1. u[p].sup \in Account
    BY <1>2 DEF Charted
  <2>2. PICK V : V = {u[p].sup} \cup Upward(u, u[p].sup)
    OBVIOUS
  <2>3. /\ V \in SUBSET Account /\ u[p].sup \in V \cup {NoOne}
        /\ \A b \in V : u[b].sup \in V \cup {NoOne}
    BY <2>1, <2>2, UpwardClosed
  <2>4. Upward(u, p) \subseteq V
    BY <2>3, UpwardLeast
  <2> QED
    BY <2>1, <2>2, <2>4
<1> QED
  BY <1>1, <1>2

LEMMA UpwardRises ==
    ASSUME NEW u, Charted(u), NEW p \in Account, NEW a \in Upward(u, p)
    PROVE  Upward(u, a) \subseteq Upward(u, p)
<1>1. a \in Account /\ Upward(u, p) \subseteq Account
  BY UpwardClosed
<1>2. u[a].sup \in Upward(u, p) \cup {NoOne}
  BY UpwardClosed
<1>3. \A b \in Upward(u, p) : u[b].sup \in Upward(u, p) \cup {NoOne}
  BY UpwardClosed
<1> QED
  BY <1>1, <1>2, <1>3, UpwardLeast

\* Only the supervisors count.
LEMMA SameLines ==
    ASSUME NEW u, NEW v, \A p \in Account : u[p].sup = v[p].sup
    PROVE  \A p \in Account : Upward(u, p) = Upward(v, p)
BY DEF Upward

\* From anywhere above one who is above themselves, the way up leads back to them.
LEMMA Around ==
    ASSUME NEW u, Charted(u), NEW p \in Account, p \in Upward(u, p), NEW x \in Upward(u, p)
    PROVE  p \in Upward(u, x)
<1> DEFINE T == {q \in Upward(u, p) : p \in Upward(u, q)}
<1>1. T \in SUBSET Account
  BY UpwardClosed
<1>2. ASSUME NEW q \in Account, p \in Upward(u, q), u[q].sup \in Upward(u, p)
      PROVE  u[q].sup \in T
  <2>1. u[q].sup \in Account /\ (p = u[q].sup \/ p \in Upward(u, u[q].sup))
    BY <1>2, UpwardUnfolds
  <2> QED
    BY <1>2, <2>1
<1>3. u[p].sup \in T
  <2>1. u[p].sup \in Account
    BY UpwardUnfolds
  <2>2. u[p].sup # NoOne
    BY <2>1, ChartAssumption
  <2> QED
    BY <1>2, <2>2, UpwardClosed
<1>4. \A q \in T : u[q].sup \in T
  <2> SUFFICES ASSUME NEW q \in T PROVE u[q].sup \in T
    OBVIOUS
  <2>1. q \in Account /\ p \in Upward(u, q) /\ q \in Upward(u, p)
    BY <1>1
  <2>2. u[q].sup \in Account
    BY <2>1, UpwardUnfolds
  <2>3. u[q].sup \in Upward(u, p)
    BY <2>1, <2>2, UpwardClosed, ChartAssumption
  <2> QED
    BY <1>2, <2>1, <2>3
<1>5. Upward(u, p) \subseteq T
  BY <1>1, <1>3, <1>4, UpwardLeast
<1> QED
  BY <1>5

\* People who all report to one another are in a loop somewhere: the smallest such set of
\* them is one.
LEMMA SomebodyLoops ==
    ASSUME NEW u, Charted(u), NEW V \in SUBSET Account, V # {}, \A a \in V : u[a].sup \in V
    PROVE  \E a \in V : a \in Upward(u, a)
<1> DEFINE T == {W \in SUBSET V : W # {} /\ \A a \in W : u[a].sup \in W}
<1>1. IsFiniteSet(V)
  BY ChartAssumption, FS_Subset
<1>2. T \subseteq FiniteSubsetsOf(V)
  BY <1>1, FS_Subset DEF FiniteSubsetsOf
<1>3. V \in T
  OBVIOUS
<1>4. IsWellFoundedOn(StrictSubsetOrdering(V), FiniteSubsetsOf(V))
  BY FS_StrictSubsetOrderingWellFounded
<1>5. PICK W \in T : \A X \in T : ~(<<X, W>> \in StrictSubsetOrdering(V))
  <2> HIDE DEF T
  <2> QED
    BY <1>2, <1>3, <1>4, WFMin
<1>6. \A X \in T : X \subseteq W => X = W
  BY <1>5 DEF StrictSubsetOrdering
<1>7. PICK a : a \in W
  OBVIOUS
<1>8. Upward(u, a) \subseteq W
  BY <1>7, UpwardLeast, W \in SUBSET Account, a \in Account
<1>9. Upward(u, a) \in T
  <2>1. u[a].sup # NoOne /\ a \in Account
    BY <1>7, ChartAssumption
  <2>2. u[a].sup \in Upward(u, a)
    BY <2>1, UpwardClosed
  <2>3. \A b \in Upward(u, a) : u[b].sup # NoOne
    BY <1>8, ChartAssumption
  <2>4. \A b \in Upward(u, a) : u[b].sup \in Upward(u, a)
    BY <2>1, <2>3, UpwardClosed
  <2> QED
    BY <1>8, <2>2, <2>4
<1> QED
  BY <1>6, <1>7, <1>8, <1>9

\* A batch that is checked in the chart that results closes no loop: a loop without any
\* of its moves was there before, and one with a move is above that move.
LEMMA NoLoopCloses ==
    ASSUME NEW u, Charted(u), NEW P \in SUBSET Account, NEW lines \in [P -> Account \cup {NoOne}],
           NEW v, v = Moved(u, lines), Loopless(u, lines)
    PROVE  Looped(v) \subseteq Looped(u)
<1> SUFFICES ASSUME NEW p \in Account, p \in Upward(v, p) PROVE p \in Upward(u, p)
  BY DEF Looped
<1>1. Charted(v) /\ \A q \in Account \ P : v[q].sup = u[q].sup
  BY DEF Charted, Moved
<1>2. PICK W \in SUBSET Account : W = Upward(v, p)
  BY <1>1, UpwardClosed
<1>3. CASE W \cap P = {}
  <2>1. PICK U \in SUBSET Account : U = Upward(u, p) \cap W
    BY <1>2
  <2>2. v[p].sup \in U \cup {NoOne}
    BY <1>1, <1>2, <1>3, <2>1, UpwardClosed
  <2>3. \A a \in U : v[a].sup \in U \cup {NoOne}
    BY <1>1, <1>2, <1>3, <2>1, UpwardClosed
  <2>4. Upward(v, p) \subseteq U
    BY <1>1, <2>2, <2>3, UpwardLeast
  <2> QED
    BY <2>1, <2>4
<1>4. CASE W \cap P # {}
  <2>1. PICK q \in W : q \in P
    BY <1>4
  <2>2. p \in Upward(v, q)
    BY <1>1, <1>2, <2>1, Around
  <2>3. p \notin Looped(v)
    BY <2>1, <2>2 DEF Loopless, Ends
  <2> QED
    BY <2>3 DEF Looped
<1> QED
  BY <1>3, <1>4

\* Moves within a team keep it: who is above one outside is not moved; and who is in it
\* comes up to its head, as a way that stayed inside would end in a loop.
LEMMA TeamStays ==
    ASSUME NEW u, Charted(u), NEW w \in Account, NEW P \in SUBSET Team(u, w),
           NEW lines \in [P -> Team(u, w) \cup {w}], NEW v, v = Moved(u, lines), Loopless(u, lines)
    PROVE  Team(v, w) = Team(u, w)
<1>1. PICK R \in SUBSET Account : R = Team(u, w)
  BY DEF Team
<1>2. Charted(v) /\ \A q \in Account \ P : v[q].sup = u[q].sup
  BY <1>1 DEF Charted, Moved
<1>3. \A q \in P : v[q].sup \in R \cup {w}
  BY <1>1 DEF Moved
<1>4. w \notin R
  BY <1>1 DEF Team
<1>5. \A q \in Account : q \in R <=> q # w /\ w \in Upward(u, q)
  BY <1>1 DEF Team
<1>6. \A q \in R : v[q].sup \in R \cup {w}
  <2> SUFFICES ASSUME NEW q \in R \ P PROVE v[q].sup \in R \cup {w}
    BY <1>3
  <2>1. u[q].sup \in Account /\ (w = u[q].sup \/ w \in Upward(u, u[q].sup))
    BY <1>5, UpwardUnfolds
  <2> QED
    BY <1>2, <1>5, <2>1
<1>7. ASSUME NEW q \in Account \ R, q # w PROVE w \notin Upward(v, q)
  <2>1. PICK A \in SUBSET Account : A = Upward(u, q)
    BY UpwardClosed
  <2>2. w \notin A
    BY <1>5, <1>7, <2>1
  <2>3. \A a \in A : a \notin R
    BY <1>5, <2>1, <2>2, UpwardRises
  <2>4. \A a \in A \cup {q} : v[a].sup = u[a].sup
    BY <1>1, <1>2, <1>7, <2>3
  <2>5. v[q].sup \in A \cup {NoOne} /\ \A a \in A : v[a].sup \in A \cup {NoOne}
    BY <2>1, <2>4, UpwardClosed
  <2>6. Upward(v, q) \subseteq A
    BY <1>2, <2>5, UpwardLeast
  <2> QED
    BY <2>2, <2>6
<1>8. ASSUME NEW q \in R PROVE w \in Upward(v, q)
  <2> SUFFICES ASSUME w \notin Upward(v, q) PROVE FALSE
    OBVIOUS
  <2>1. PICK V \in SUBSET Account : V = Upward(v, q)
    BY <1>2, UpwardClosed
  <2>2. v[q].sup \in V \cap R
    BY <1>2, <1>6, <2>1, UpwardClosed, ChartAssumption
  <2>3. \A a \in V \cap R : v[a].sup \in V \cap R
    BY <1>2, <1>6, <2>1, UpwardClosed, ChartAssumption
  <2>4. PICK I \in SUBSET Account : I = V \cap R
    OBVIOUS
  <2>5. I # {} /\ \A a \in I : v[a].sup \in I
    BY <2>2, <2>3, <2>4
  <2>6. PICK p \in I : p \in Upward(v, p)
    BY <1>2, <2>5, SomebodyLoops
  <2>7. PICK W \in SUBSET Account : W = Upward(v, p)
    BY <1>2, UpwardClosed
  <2>8. W \subseteq I
    BY <1>2, <2>5, <2>6, <2>7, UpwardLeast
  <2>9. W \cap P = {}
    <3> SUFFICES ASSUME NEW m \in W, m \in P PROVE FALSE
      OBVIOUS
    <3>1. p \in Upward(v, m)
      BY <1>2, <2>6, <2>7, Around
    <3>2. p \notin Looped(v)
      BY <3>1 DEF Loopless, Ends
    <3> QED
      BY <2>6, <3>2 DEF Looped
  <2>10. u[p].sup \in W /\ \A a \in W : u[a].sup \in W
    <3>1. \A a \in W : v[a].sup \in W
      BY <1>2, <2>5, <2>7, <2>8, UpwardClosed, ChartAssumption
    <3> QED
      BY <1>2, <2>6, <2>7, <2>9, <3>1
  <2>11. Upward(u, p) \subseteq W
    BY <2>10, UpwardLeast
  <2> QED
    BY <1>4, <1>5, <2>4, <2>6, <2>8, <2>11
<1> QED
  BY <1>1, <1>4, <1>7, <1>8 DEF Team

\* What a save of the Organization screen goes by: the team of its user and the chart in
\* which its moves close no loop are in the readings it has made.
TeamRead(e) ==
    /\ e.who \in Account
    /\ e.reach = Account \/ \E u \in e.seen : e.reach = Team(u, e.who)

MovesRead(e) ==
    /\ \E P \in SUBSET e.reach :
          IF e.reach = Account THEN e.lines \in [P -> Account \cup {NoOne}]
          ELSE e.lines \in [P -> e.reach \cup {e.who}]
    /\ \E u \in e.seen : Loopless(u, e.lines)

Informed(e) ==
    /\ e.pc = "chart" => TeamRead(e)
    /\ e.pc = "write" /\ e.kind = "org" => TeamRead(e) /\ MovesRead(e)

SaveInv == request = [r \in Writer |-> request[r]] /\ \A r \in Writer : Informed(request[r])

LEMMA SavePut ==
    ASSUME SaveInv, NEW r \in Writer, NEW e, request' = [request EXCEPT ![r] = e], Informed(e)
    PROVE  SaveInv'
<1>1. \A w \in Writer : request'[w] = IF w = r THEN e ELSE request[w]
  BY DEF SaveInv
<1>2. request' = [w \in Writer |-> request'[w]]
  BY DEF SaveInv
<1>3. \A w \in Writer : Informed(request'[w])
  BY <1>1 DEF SaveInv
<1> QED
  BY <1>2, <1>3 DEF SaveInv

LEMMA ReadTeamInforms ==
    ASSUME SaveInv, NEW r \in Writer, NEW p \in Account, ReadTeam(r, p)
    PROVE  SaveInv'
<1>1. PICK e : e = [pc |-> "chart", kind |-> "org", who |-> p, seen |-> {user},
                    reach |-> IF user[p].role = "Admin" THEN Account ELSE Team(user, p)]
  OBVIOUS
<1>2. Informed(e)
  BY <1>1 DEF Informed, TeamRead
<1> QED
  BY <1>1, <1>2, SavePut DEF ReadTeam

LEMMA ReadChartInforms ==
    ASSUME SaveInv, NEW r \in Writer, ReadChart(r)
    PROVE  SaveInv'
<1>1. PICK lines \in Saves(request[r].who, request[r].reach) :
         request' = [request EXCEPT ![r] =
             [pc |-> "write", kind |-> "org", who |-> @.who, reach |-> @.reach,
              seen |-> @.seen \cup {user}, lines |-> lines]]
  BY DEF ReadChart
<1>2. PICK e : e = [pc |-> "write", kind |-> "org", who |-> request[r].who, reach |-> request[r].reach,
                    seen |-> request[r].seen \cup {user}, lines |-> lines]
  OBVIOUS
<1>3. TeamRead(request[r])
  BY DEF ReadChart, SaveInv, Informed
<1>4. TeamRead(e)
  BY <1>2, <1>3 DEF TeamRead
<1>5. PICK P \in SUBSET e.reach : lines \in [P -> Account \cup {NoOne}]
  BY <1>2 DEF Saves
<1>6. Loopless(user, lines) /\ \A q \in P : lines[q] = NoOne => e.reach = Account
  BY <1>2, <1>5 DEF Saves
<1>7. \A q \in P : lines[q] # NoOne => lines[q] \in e.reach \cup {e.who}
  BY <1>2, <1>5 DEF Saves
<1>8. e.reach # Account => lines \in [P -> e.reach \cup {e.who}]
  BY <1>5, <1>6, <1>7
<1>9. MovesRead(e)
  BY <1>2, <1>5, <1>6, <1>8 DEF MovesRead
<1>10. Informed(e)
  BY <1>2, <1>4, <1>9 DEF Informed
<1>11. request' = [request EXCEPT ![r] = e]
  BY <1>1, <1>2 DEF SaveInv
<1> QED
  BY <1>10, <1>11, SavePut

\* The other two requests are of another kind, and never have one of the screen's.
LEMMA OthersInform ==
    ASSUME ChartInv, SaveInv, NEW r \in Writer,
           \/ \E p \in Account : ReadUser(r, p)
           \/ \E p, q \in Account : ReadAccounts(r, p, q)
           \/ CheckSupervisor(r) \/ CountReports(r) \/ CommitChart(r) \/ GiveUpChart(r)
    PROVE  SaveInv'
<1>1. Informed(Idle)
  BY DEF Informed, Idle
<1>2. ASSUME NEW p \in Account, ReadUser(r, p) PROVE SaveInv'
  <2>1. PICK in \in [sup : Account \cup {NoOne, Same}, role : Role \cup {Same},
                     active : BOOLEAN \cup {Same}] :
           request' = [request EXCEPT ![r] =
              [pc |-> "supervisor", kind |-> "user", who |-> p, from |-> p, in |-> in,
               seen |-> {user}, counted |-> {}, leaves |-> in.active = FALSE /\ user[p].active]]
    BY <1>2 DEF ReadUser
  <2>2. PICK e : e = [pc |-> "supervisor", kind |-> "user", who |-> p, from |-> p, in |-> in,
               seen |-> {user}, counted |-> {}, leaves |-> in.active = FALSE /\ user[p].active]
    OBVIOUS
  <2>3. Informed(e)
    BY <2>2 DEF Informed
  <2> QED
    BY <2>1, <2>2, <2>3, SavePut
<1>3. ASSUME NEW p \in Account, NEW q \in Account, ReadAccounts(r, p, q) PROVE SaveInv'
  <2>1. PICK e : /\ e.pc = "supervisor" /\ request' = [request EXCEPT ![r] = e]
    BY <1>3 DEF ReadAccounts
  <2>2. Informed(e)
    BY <2>1 DEF Informed
  <2> QED
    BY <2>1, <2>2, SavePut
<1>4. ASSUME CheckSupervisor(r) PROVE SaveInv'
  <2>1. ChangeOK(request[r])
    BY <1>4 DEF CheckSupervisor, ChartInv, RequestOK
  <2>2. PICK E : request' = [request EXCEPT ![r].pc = "reports", ![r].seen = E]
    BY <1>4 DEF CheckSupervisor
  <2>3. PICK e : e = [request[r] EXCEPT !.pc = "reports", !.seen = E]
    OBVIOUS
  <2>4. request' = [request EXCEPT ![r] = e]
    BY <2>2, <2>3 DEF SaveInv
  <2>5. e.pc = "reports" /\ e.kind = request[r].kind
    BY <2>1, <2>3 DEF ChangeOK, ChangeRequest
  <2>6. Informed(e)
    BY <2>1, <2>5 DEF ChangeOK, ChangeRequest, Informed
  <2> QED
    BY <2>4, <2>6, SavePut
<1>5. ASSUME CountReports(r) PROVE SaveInv'
  <2>1. ChangeOK(request[r])
    BY <1>5 DEF CountReports, ChartInv, RequestOK
  <2>2. PICK e : e = [request[r] EXCEPT !.pc = "write", !.counted = Counted(request[r])]
    OBVIOUS
  <2>3. request' = [request EXCEPT ![r] = e]
    BY <1>5, <2>2 DEF SaveInv, CountReports
  <2>4. e.pc = "write" /\ e.kind = request[r].kind
    BY <2>1, <2>2 DEF ChangeOK, ChangeRequest
  <2>5. Informed(e)
    BY <2>1, <2>4 DEF ChangeOK, ChangeRequest, Informed
  <2> QED
    BY <2>3, <2>5, SavePut
<1>6. ASSUME CommitChart(r) \/ GiveUpChart(r) PROVE SaveInv'
  BY <1>1, <1>6, SavePut DEF CommitChart, GiveUpChart
<1> QED
  BY <1>2, <1>3, <1>4, <1>5, <1>6

LEMMA SaveInitOK == ChartInit => SaveInv
BY DEF ChartInit, SaveInv, Informed, Idle

LEMMA SaveStep == ChartInv /\ SaveInv /\ [ChartNext]_chart => SaveInv'
<1> SUFFICES ASSUME ChartInv, SaveInv, [ChartNext]_chart PROVE SaveInv'
  OBVIOUS
<1>1. CASE UNCHANGED chart
  BY <1>1 DEF chart, SaveInv
<1>2. CASE ChartNext
  BY <1>2, ReadTeamInforms, ReadChartInforms, OthersInform DEF ChartNext
<1> QED
  BY <1>1, <1>2

\* The step that saves a batch.
LEMMA TheSave ==
    ASSUME ChartInv, SaveInv, [ChartNext]_chart, NEW r \in Writer, request[r].pc = "write",
           request[r].kind = "org", user' # user, request'[r] # request[r],
           \A u \in request[r].seen, p \in Account : u[p].sup = user[p].sup
    PROVE  /\ Looped(user') \subseteq Looped(user)
           /\ request[r].reach # Account => Team(user', request[r].who) = Team(user, request[r].who)
<1>1. PICK w \in Writer : CommitChart(w)
  BY DEF ChartNext, chart, ReadTeam, ReadUser, ReadAccounts, ReadChart, CheckSupervisor,
         CountReports, GiveUpChart
<1>2. w = r
  BY <1>1 DEF CommitChart, ChartInv
<1>3. PICK e : e = request[r]
  OBVIOUS
<1>4. user' = Moved(user, e.lines)
  BY <1>1, <1>2, <1>3 DEF CommitChart, After
<1>5. TeamRead(e) /\ MovesRead(e)
  BY <1>3 DEF SaveInv, Informed
<1>6. Charted(user) /\ \A p \in Account : user[p].sup # p
  BY DEF ChartInv, Profiles, Charted
<1>7. \A u \in e.seen : \A p \in Account : Upward(u, p) = Upward(user, p)
  BY <1>3, SameLines
<1>8. PICK P \in SUBSET e.reach :
         IF e.reach = Account THEN e.lines \in [P -> Account \cup {NoOne}]
         ELSE e.lines \in [P -> e.reach \cup {e.who}]
  BY <1>5 DEF MovesRead
<1>9. P \in SUBSET Account /\ e.lines \in [P -> Account \cup {NoOne}]
  BY <1>5, <1>8 DEF TeamRead, Team
<1>10. Loopless(user, e.lines)
  <2>1. PICK u \in e.seen : Loopless(u, e.lines)
    BY <1>5 DEF MovesRead
  <2>2. \A p \in Account : Moved(u, e.lines)[p].sup = Moved(user, e.lines)[p].sup
    <3> SUFFICES ASSUME NEW p \in Account
                 PROVE  Moved(u, e.lines)[p].sup = Moved(user, e.lines)[p].sup
      OBVIOUS
    <3>1. CASE p \notin P
      BY <1>3, <1>9, <3>1 DEF Moved
    <3>2. CASE p \in P
      BY <1>9, <3>2 DEF Moved
    <3> QED
      BY <3>1, <3>2
  <2>3. \A p \in Account : Upward(Moved(u, e.lines), p) = Upward(Moved(user, e.lines), p)
    BY <2>2, SameLines
  <2> QED
    BY <1>9, <2>1, <2>3 DEF Loopless, Ends, Looped
<1>11. Looped(user') \subseteq Looped(user)
  BY <1>4, <1>6, <1>9, <1>10, NoLoopCloses
<1>12. ASSUME e.reach # Account PROVE Team(user', e.who) = Team(user, e.who)
  <2>1. e.who \in Account /\ e.reach = Team(user, e.who)
    BY <1>5, <1>7, <1>12 DEF TeamRead, Team
  <2> QED
    BY <1>4, <1>6, <1>8, <1>10, <1>12, <2>1, TeamStays
<1> QED
  BY <1>3, <1>11, <1>12

\* A save of the Organization screen whose readings still hold closes no loop, and keeps
\* the team of a manager, for any accounts, charts and batches.
THEOREM SavesTheorem == ChartSpec => SavesKeepTheChart
<1>1. ChartInv /\ SaveInv /\ [ChartNext]_chart =>
        [\A r \in Writer :
           LET e == request[r] IN
           e.pc = "write" /\ e.kind = "org" /\ user' # user /\ request'[r] # e
           /\ (\A u \in e.seen, p \in Account : u[p].sup = user[p].sup)
           => /\ Looped(user') \subseteq Looped(user)
              /\ e.reach # Account => Team(user', e.who) = Team(user, e.who)]_chart
  BY TheSave
<1> QED
  BY <1>1, ChartInitOK, ChartStep, SaveInitOK, SaveStep, PTL DEF ChartSpec, SavesKeepTheChart

-----------------------------------------------------------------------------
(* The day.                                                                *)

DayRow == [row : BOOLEAN, completed : BOOLEAN, noted : BOOLEAN]
Readings == [day : DayRow, entries : [Duty -> Nat], held : SUBSET Duty]

DaySave(forms) ==
    [how : {"save", "complete", "reopen", "deleting", "saving"}, left : SUBSET {"day", "entries", "held"},
     saw : Readings, drops : SUBSET Duty, form : forms, overtaken : SUBSET {"day", "entries", "held", "rows"}]

\* Its transaction has begun.
Begun(s) == s.how \in {"deleting", "saving"}

\* What has been read is there still, unless it is overtaken: the day for a transaction
\* that has begun, everything before that.
ReadingsOK(s) ==
    /\ "day" \notin s.left \cup s.overtaken => s.saw.day = day
    /\ ~Begun(s) /\ "entries" \notin s.left \cup s.overtaken => s.saw.entries = entries
    /\ ~Begun(s) /\ "held" \notin s.left \cup s.overtaken => s.saw.held = held

\* A transaction writes what has been checked, and deletes what is not wanted.
SavingOK(s) ==
    /\ Begun(s) \/ s.drops = {}
    /\ Begun(s) =>
          /\ s.left = {} /\ ~s.saw.day.completed /\ Total(s.form.want) <= DayMax
          /\ {"entries", "held"} \cap s.overtaken = {} =>
                \A d \in Logged(s.form.want) : d \in held \/ s.form.want[d] <= entries[d]
          /\ "rows" \notin s.overtaken => s.drops = Logged(entries) \ Logged(s.form.want)

SaveOK(s) ==
    s = Quiet \/ (/\ s \in DaySave(IF Begun(s) THEN DayForms ELSE {{}})
                 /\ ReadingsOK(s) /\ SavingOK(s))

DayInv ==
    /\ entries \in [Duty -> Nat] /\ day \in DayRow /\ held \subseteq Duty
    /\ save = [r \in Window |-> save[r]] /\ \A r \in Window : SaveOK(save[r])

\* A request that is told what was written.
LEMMA ToldKeeps ==
    ASSUME DayInv, NEW q \in Window, NEW what \in SUBSET {"day", "entries", "held", "rows"},
           NEW gone, gone = {} \/ "rows" \in what,
           "day" \in what \/ day' = day, {"entries", "rows"} \subseteq what \/ entries' = entries,
           "held" \in what \/ held' = held, save'[q] = Told(q, what, gone)
    PROVE  SaveOK(save[q])'
<1>1. PICK s : s = save[q]
  OBVIOUS
<1>2. SaveOK(s)
  BY <1>1 DEF DayInv
<1>3. CASE s = Quiet
  <2>1. save'[q] = Quiet
    BY <1>1, <1>3 DEF Told, Quiet
  <2> QED
    BY <2>1 DEF SaveOK
<1>4. CASE s # Quiet
  <2>1. PICK forms : forms = IF Begun(s) THEN DayForms ELSE {{}}
    OBVIOUS
  <2>2. s \in DaySave(forms) /\ ReadingsOK(s) /\ SavingOK(s)
    BY <1>2, <1>4, <2>1 DEF SaveOK
  <2>3. PICK over : over = s.overtaken \cup (what \ s.left)
    OBVIOUS
  <2>4. PICK t : t = [s EXCEPT !.overtaken = over, !.drops = s.drops \ gone]
    OBVIOUS
  <2>5. s.how # "none"
    BY <2>2 DEF DaySave
  <2>6. save'[q] = t
    BY <1>1, <2>3, <2>4, <2>5 DEF Told
  <2>7. /\ t \in DaySave(forms) /\ t.how = s.how /\ t.left = s.left /\ t.saw = s.saw
        /\ t.drops = s.drops \ gone /\ t.form = s.form /\ t.overtaken = over
    BY <2>2, <2>3, <2>4 DEF DaySave
  <2>8. ReadingsOK(t)'
    BY <2>2, <2>3, <2>7 DEF ReadingsOK, Begun
  <2>9. SavingOK(t)'
    <3> SUFFICES ASSUME Begun(s) PROVE SavingOK(t)'
      <4>1. (Begun(t) <=> Begun(s)) /\ (s.drops = {} => t.drops = {})
        BY <2>7 DEF Begun
      <4>2. Begun(s) \/ s.drops = {}
        BY <2>2 DEF SavingOK
      <4> QED
        BY <4>1, <4>2 DEF SavingOK, Begun
    <3>1. s.left = {} /\ ~s.saw.day.completed /\ Total(s.form.want) <= DayMax
      BY <2>2 DEF SavingOK
    <3>2. {"entries", "held"} \cap over = {} => entries' = entries /\ held' = held /\ {"entries", "held"} \cap s.overtaken = {}
      BY <2>3, <3>1
    <3>3. "rows" \notin over => entries' = entries /\ "rows" \notin s.overtaken /\ gone = {}
      BY <2>3, <3>1
    <3>4. {"entries", "held"} \cap over = {} =>
              \A d \in Logged(s.form.want) : d \in held' \/ s.form.want[d] <= entries'[d]
      BY <2>2, <3>2 DEF SavingOK
    <3>5. "rows" \notin over => s.drops \ gone = Logged(entries') \ Logged(s.form.want)
      <4>1. "rows" \notin over => s.drops = Logged(entries) \ Logged(s.form.want)
        BY <2>2, <3>3 DEF SavingOK
      <4>2. "rows" \notin over => Logged(entries') = Logged(entries) /\ s.drops \ gone = s.drops
        BY <3>3
      <4> QED
        BY <4>1, <4>2
    <3> QED
      BY <2>7, <3>1, <3>4, <3>5 DEF SavingOK, Begun
  <2>10. SaveOK(t)'
    BY <2>1, <2>7, <2>8, <2>9 DEF SaveOK, Begun
  <2> QED
    BY <2>6, <2>10 DEF SaveOK, ReadingsOK, SavingOK, Begun
<1> QED
  BY <1>3, <1>4

\* Something is written, and everyone else is told.
LEMMA OvertakeKeeps ==
    ASSUME DayInv, NEW r \in Window, NEW what \in SUBSET {"day", "entries", "held", "rows"}, Overtake(r, what),
           save[r].drops = {} \/ "rows" \in what,
           "day" \in what \/ day' = day, {"entries", "rows"} \subseteq what \/ entries' = entries,
           held' = held, entries' \in [Duty -> Nat], day' \in DayRow
    PROVE  DayInv'
<1>1. save' = [q \in Window |-> IF q = r THEN Quiet ELSE Told(q, what, save[r].drops)]
  BY DEF Overtake
<1>2. ASSUME NEW q \in Window PROVE SaveOK(save[q])'
  <2>1. CASE q = r
    <3>1. save'[q] = Quiet
      BY <1>1, <2>1
    <3> QED
      BY <3>1 DEF SaveOK
  <2>2. CASE q # r
    <3>1. save'[q] = Told(q, what, save[r].drops)
      BY <1>1, <2>2
    <3> QED
      BY <3>1, ToldKeeps
  <2> QED
    BY <2>1, <2>2
<1>3. save' = [q \in Window |-> save'[q]]
  BY <1>1
<1> QED
  BY <1>2, <1>3 DEF DayInv

\* A request that goes on by itself.
LEMMA SaveKeeps ==
    ASSUME DayInv, NEW r \in Window, NEW s, SaveOK(s), save' = [save EXCEPT ![r] = s],
           UNCHANGED <<entries, day, held>>
    PROVE  DayInv'
<1>1. save' = [q \in Window |-> save'[q]]
  BY DEF DayInv
<1>2. \A q \in Window : save'[q] = IF q = r THEN s ELSE save[q]
  BY DEF DayInv
<1>3. \A q \in Window : SaveOK(save'[q])
  BY <1>2 DEF DayInv
<1>4. \A q \in Window : SaveOK(save[q])'
  BY <1>3 DEF SaveOK, ReadingsOK, SavingOK, Begun
<1> QED
  BY <1>1, <1>4 DEF DayInv

\* A request as it is, by its fields.
LEMMA OpenSave ==
    ASSUME DayInv, NEW r \in Window, save[r].how # "none"
    PROVE  /\ save[r] \in DaySave(IF Begun(save[r]) THEN DayForms ELSE {{}})
           /\ ReadingsOK(save[r]) /\ SavingOK(save[r])
<1>1. SaveOK(save[r])
  BY DEF DayInv
<1>2. save[r] # Quiet
  BY DEF Quiet
<1> QED
  BY <1>1, <1>2 DEF SaveOK

LEMMA AskDayKeeps ==
    ASSUME DayInv, NEW r \in Window, NEW how \in {"save", "complete", "reopen"}, AskDay(r, how)
    PROVE  DayInv'
<1>1. DOMAIN Blank = {"day", "entries", "held"} /\ Blank \in Readings
  BY DEF Blank, NoDay, Readings, DayRow
<1>2. PICK s : s = [how |-> how, left |-> DOMAIN Blank, saw |-> Blank, drops |-> {}, form |-> {}, overtaken |-> {}]
  OBVIOUS
<1>3. s \in DaySave({{}}) /\ ~Begun(s) /\ s.left = {"day", "entries", "held"} /\ s.drops = {}
  BY <1>1, <1>2 DEF DaySave, Begun
<1>4. SaveOK(s)
  BY <1>3 DEF SaveOK, ReadingsOK, SavingOK, Begun
<1>5. save' = [save EXCEPT ![r] = s] /\ UNCHANGED <<entries, day, held>>
  BY <1>2 DEF AskDay
<1> QED
  BY <1>4, <1>5, SaveKeeps

\* What is read is what is stored.
LEMMA ReadDayKeeps ==
    ASSUME DayInv, NEW r \in Window, NEW what \in {"day", "entries", "held"}, ReadDay(r, what)
    PROVE  DayInv'
<1>1. PICK s : s = save[r]
  OBVIOUS
<1>2. PICK forms : forms = IF Begun(s) THEN DayForms ELSE {{}}
  OBVIOUS
<1>3. s \in DaySave(forms) /\ ReadingsOK(s) /\ SavingOK(s) /\ what \in s.left
  BY <1>1, <1>2, OpenSave DEF ReadDay
<1>4. ~Begun(s)
  BY <1>3 DEF SavingOK
<1>5. PICK saw : saw = [s.saw EXCEPT ![what] = Stored[what]]
  OBVIOUS
<1>6. /\ saw \in Readings
      /\ saw.day = (IF what = "day" THEN day ELSE s.saw.day)
      /\ saw.entries = (IF what = "entries" THEN entries ELSE s.saw.entries)
      /\ saw.held = (IF what = "held" THEN held ELSE s.saw.held)
  <2>1. s.saw \in Readings
    BY <1>3 DEF DaySave
  <2>2. CASE what = "day"
    <3>1. saw = [s.saw EXCEPT !.day = day]
      BY <1>5, <2>2 DEF Stored
    <3> QED
      BY <2>1, <2>2, <3>1 DEF Readings, DayInv
  <2>3. CASE what = "entries"
    <3>1. saw = [s.saw EXCEPT !.entries = entries]
      BY <1>5, <2>3 DEF Stored
    <3> QED
      BY <2>1, <2>3, <3>1 DEF Readings, DayInv
  <2>4. CASE what = "held"
    <3>1. saw = [s.saw EXCEPT !.held = held]
      BY <1>5, <2>4 DEF Stored
    <3> QED
      BY <2>1, <2>4, <3>1 DEF Readings, DayInv
  <2> QED
    BY <2>2, <2>3, <2>4
<1>7. PICK t : t = [s EXCEPT !.saw = saw, !.left = s.left \ {what}]
  OBVIOUS
<1>8. /\ t \in DaySave(forms) /\ t.how = s.how /\ t.left = s.left \ {what} /\ t.saw = saw
      /\ t.overtaken = s.overtaken /\ t.drops = s.drops
  BY <1>3, <1>6, <1>7 DEF DaySave
<1>9. ReadingsOK(t) /\ SavingOK(t)
  BY <1>3, <1>4, <1>6, <1>8 DEF ReadingsOK, SavingOK, Begun
<1>10. SaveOK(t)
  BY <1>2, <1>8, <1>9 DEF SaveOK, Begun
<1>11. save' = [save EXCEPT ![r] = t] /\ UNCHANGED <<entries, day, held>>
  BY <1>1, <1>3, <1>5, <1>7 DEF ReadDay, DayInv, DaySave
<1> QED
  BY <1>10, <1>11, SaveKeeps

\* The transaction begins with what was checked, and with the rows it deletes.
LEMMA ClearDayKeeps ==
    ASSUME DayInv, NEW r \in Window, NEW form \in DayForms, ClearDay(r, form)
    PROVE  DayInv'
<1>1. PICK s : s = save[r]
  OBVIOUS
<1>2. PICK drops : drops = Logged(entries) \ Logged(form.want)
  OBVIOUS
<1>3. s.how = "save" /\ s.left = {} /\ Fits(s.saw, form.want)
  BY <1>1 DEF ClearDay
<1>4. s \in DaySave({{}}) /\ ReadingsOK(s)
  BY <1>1, <1>3, OpenSave DEF Begun
<1>5. PICK saw : saw = [s.saw EXCEPT !.entries = Blank.entries, !.held = Blank.held]
  OBVIOUS
<1>6. PICK over : over = s.overtaken \ {"rows"}
  OBVIOUS
<1>7. saw \in Readings /\ saw.day = s.saw.day
  BY <1>4, <1>5 DEF DaySave, Readings, Blank
<1>8. PICK t : t = [s EXCEPT !.how = "deleting", !.form = form, !.drops = drops, !.overtaken = over, !.saw = saw]
  OBVIOUS
<1>9. drops \subseteq Duty
  BY <1>2 DEF Logged
<1>10. /\ t \in DaySave(DayForms) /\ t.how = "deleting" /\ t.left = {} /\ t.saw.day = s.saw.day
       /\ t.form = form /\ t.drops = drops /\ t.overtaken = over
  BY <1>3, <1>4, <1>6, <1>7, <1>8, <1>9 DEF DaySave
<1>11. ReadingsOK(t)
  BY <1>3, <1>4, <1>6, <1>10 DEF ReadingsOK, Begun
<1>12. SavingOK(t)
  <2>1. ~s.saw.day.completed /\ Total(form.want) <= DayMax
    BY <1>3 DEF Fits
  <2>2. ASSUME {"entries", "held"} \cap over = {}, NEW d \in Logged(form.want)
        PROVE  d \in held \/ form.want[d] <= entries[d]
    <3>1. s.saw.entries = entries /\ s.saw.held = held
      BY <1>3, <1>4, <1>6, <2>2 DEF ReadingsOK, Begun
    <3> QED
      BY <1>3, <2>2, <3>1 DEF Fits
  <2> QED
    BY <1>2, <1>10, <2>1, <2>2 DEF SavingOK, Begun
<1>13. SaveOK(t)
  BY <1>10, <1>11, <1>12 DEF SaveOK, Begun
<1>14. save' = [save EXCEPT ![r] = t] /\ UNCHANGED <<entries, day, held>>
  BY <1>1, <1>2, <1>5, <1>6, <1>8 DEF ClearDay, Drops, DayInv
<1> QED
  BY <1>13, <1>14, SaveKeeps

LEMMA DeleteRowsKeeps ==
    ASSUME DayInv, NEW r \in Window, DeleteRows(r)
    PROVE  DayInv'
<1>1. PICK s : s = save[r]
  OBVIOUS
<1>2. /\ s.how = "deleting" /\ Begun(s) /\ s \in DaySave(DayForms) /\ ReadingsOK(s) /\ SavingOK(s)
  BY <1>1, OpenSave DEF DeleteRows, Begun
<1>3. PICK t : t = [s EXCEPT !.how = "saving"]
  OBVIOUS
<1>4. /\ t \in DaySave(DayForms) /\ Begun(t) /\ t.left = s.left /\ t.saw = s.saw /\ t.drops = s.drops
      /\ t.form = s.form /\ t.overtaken = s.overtaken
  BY <1>2, <1>3 DEF DaySave, Begun
<1>5. SaveOK(t)
  BY <1>2, <1>4 DEF SaveOK, ReadingsOK, SavingOK
<1>6. save' = [save EXCEPT ![r] = t] /\ UNCHANGED <<entries, day, held>>
  BY <1>1, <1>3 DEF DeleteRows, DayInv
<1> QED
  BY <1>5, <1>6, SaveKeeps

\* The commit, and what it comes to.
LEMMA CommitDayHolds ==
    ASSUME DayInv, NEW r \in Window, CommitDay(r)
    PROVE  /\ DayInv'
           /\ "day" \notin save[r].overtaken => ~day.completed
           /\ {"entries", "held"} \cap save[r].overtaken = {} =>
                  (\A d \in Duty \ held : entries'[d] <= entries[d])
           /\ "rows" \notin save[r].overtaken =>
                  (Total(entries') <= DayMax /\ (Logged(entries') # {} => day'.row))
<1>1. PICK s : s = save[r]
  OBVIOUS
<1>2. s.how = "saving" /\ Begun(s) /\ s \in DaySave(DayForms) /\ ReadingsOK(s) /\ SavingOK(s)
  BY <1>1, OpenSave DEF CommitDay, Begun
<1>3. PICK want, noted, completed : want = s.form.want /\ noted = s.form.noted /\ completed = s.form.completed
  OBVIOUS
<1>4. want \in [Duty -> Nat] /\ noted \in BOOLEAN /\ completed \in BOOLEAN
  BY <1>2, <1>3, DayAssumption DEF DaySave, DayForms
<1>5. PICK keep \in BOOLEAN : keep = (Logged(want) # {} \/ noted \/ completed)
  OBVIOUS
<1>6. /\ entries' = [d \in Duty |-> IF want[d] > 0 THEN want[d] ELSE IF d \in s.drops THEN 0 ELSE entries[d]]
      /\ day' = IF keep THEN [row |-> TRUE, completed |-> completed, noted |-> noted]
                ELSE IF s.saw.day.row THEN NoDay ELSE day
      /\ Overtake(r, {"day", "entries", "rows"}) /\ UNCHANGED held
  BY <1>1, <1>3, <1>5 DEF CommitDay
<1>7. entries \in [Duty -> Nat] /\ day \in DayRow
  BY DEF DayInv
<1>8. \A d \in Duty : entries'[d] = IF want[d] > 0 THEN want[d] ELSE IF d \in s.drops THEN 0 ELSE entries[d]
  BY <1>6
<1>9. entries' \in [Duty -> Nat]
  BY <1>4, <1>6, <1>7
<1>10. day' \in DayRow
  BY <1>4, <1>6, <1>7 DEF DayRow, NoDay
<1>11. DayInv'
  BY <1>6, <1>9, <1>10, OvertakeKeeps
<1>12. "day" \notin s.overtaken => ~day.completed
  BY <1>2 DEF ReadingsOK, SavingOK
<1>13. ASSUME {"entries", "held"} \cap s.overtaken = {}, NEW d \in Duty \ held
       PROVE  entries'[d] <= entries[d]
  <2>1. want[d] > 0 => want[d] <= entries[d]
    BY <1>2, <1>3, <1>13 DEF SavingOK, Logged
  <2> QED
    BY <1>4, <1>7, <1>8, <2>1
<1>14. ASSUME "rows" \notin s.overtaken
       PROVE  Total(entries') <= DayMax /\ (Logged(entries') # {} => day'.row)
  <2>1. s.drops = Logged(entries) \ Logged(want) /\ Total(want) <= DayMax
    BY <1>2, <1>3, <1>14 DEF SavingOK
  <2>2. entries' = want
    BY <1>4, <1>6, <1>7, <2>1 DEF Logged
  <2>3. Total(entries') <= DayMax
    BY <2>1, <2>2 DEF Total
  <2>4. Logged(entries') # {} => keep
    BY <1>5, <2>2 DEF Logged
  <2> QED
    BY <1>6, <2>3, <2>4
<1> QED
  BY <1>1, <1>11, <1>12, <1>13, <1>14

\* A request deletes nothing before its transaction.
LEMMA NoRows ==
    ASSUME DayInv, NEW r \in Window, save[r].how \in {"complete", "reopen"}
    PROVE  save[r].drops = {}
BY OpenSave DEF SavingOK, Begun

\* A day is completed or reopened.
LEMMA CompleteKeeps ==
    ASSUME DayInv, NEW r \in Window, Complete(r)
    PROVE  DayInv'
<1>1. day' \in DayRow
  BY DEF Complete, DayInv, DayRow
<1>2. save[r].drops = {}
  BY NoRows DEF Complete
<1> QED
  BY <1>1, <1>2, OvertakeKeeps DEF Complete, DayInv

LEMMA ReopenHolds ==
    ASSUME DayInv, NEW r \in Window, Reopen(r)
    PROVE  /\ DayInv'
           /\ {"day", "entries"} \cap save[r].overtaken = {} =>
                  (Logged(entries') # {} \/ day'.noted => day'.row)
<1>1. PICK s : s = save[r]
  OBVIOUS
<1>2. /\ s.how = "reopen" /\ s.left = {"held"} /\ day.row
      /\ day' = IF Logged(s.saw.entries) = {} /\ ~s.saw.day.noted THEN NoDay ELSE [day EXCEPT !.completed = FALSE]
      /\ Overtake(r, {"day"}) /\ UNCHANGED <<entries, held>>
  BY <1>1 DEF Reopen
<1>3. day' \in DayRow /\ (day' = NoDay \/ day'.row)
  BY <1>2 DEF DayInv, DayRow, NoDay
<1>4. DayInv'
  <2>1. save[r].drops = {}
    BY <1>1, <1>2, NoRows
  <2> QED
    BY <1>2, <1>3, <2>1, OvertakeKeeps DEF DayInv
<1>5. ReadingsOK(s)
  BY <1>1, <1>2, OpenSave
<1>6. ASSUME {"day", "entries"} \cap s.overtaken = {}, Logged(entries') # {} \/ day'.noted
      PROVE  day'.row
  <2>1. s.saw.entries = entries
    BY <1>2, <1>5, <1>6 DEF ReadingsOK, Begun
  <2>2. CASE day' = NoDay
    <3>1. Logged(entries) = {}
      BY <1>2, <1>3, <2>1, <2>2 DEF NoDay, DayInv, DayRow
    <3> QED
      BY <1>2, <1>6, <2>2, <3>1 DEF NoDay
  <2> QED
    BY <1>3, <2>2
<1> QED
  BY <1>1, <1>4, <1>6

LEMMA DropDutyKeeps ==
    ASSUME DayInv, NEW d \in Duty, DropDuty(d)
    PROVE  DayInv'
<1>1. save' = [q \in Window |-> Told(q, {"held"}, {})] /\ held' = held \ {d} /\ UNCHANGED <<entries, day>>
  BY DEF DropDuty
<1>2. ASSUME NEW q \in Window PROVE SaveOK(save[q])'
  <2>1. save'[q] = Told(q, {"held"}, {})
    BY <1>1
  <2>2. {"held"} \in SUBSET {"day", "entries", "held", "rows"}
    OBVIOUS
  <2> QED
    BY <1>1, <2>1, <2>2, ToldKeeps
<1>3. save' = [q \in Window |-> save'[q]]
  BY <1>1
<1> QED
  BY <1>1, <1>2, <1>3 DEF DayInv

LEMMA DaysInitOK == DaysInit => DayInv
<1> SUFFICES ASSUME DaysInit PROVE DayInv
  OBVIOUS
<1>1. entries \in [Duty -> Nat] /\ held = Duty
  BY DayAssumption DEF DaysInit
<1>2. day \in DayRow
  <2>1. PICK completed \in BOOLEAN :
           day = [row |-> completed \/ Logged(entries) # {}, completed |-> completed, noted |-> FALSE]
    BY DEF DaysInit
  <2> QED
    BY <2>1 DEF DayRow
<1>3. save = [r \in Window |-> save[r]] /\ \A r \in Window : save[r] = Quiet
  BY DEF DaysInit
<1> QED
  BY <1>1, <1>2, <1>3 DEF DayInv, SaveOK

\* What one step does, of the day's rules and of the invariant.
LEMMA DaysStep ==
    ASSUME DayInv, [DaysNext]_days
    PROVE  DayInv'
<1>1. ASSUME NEW r \in Window, NEW how \in {"save", "complete", "reopen"}, AskDay(r, how) PROVE DayInv'
  BY <1>1, AskDayKeeps
<1>2. ASSUME NEW r \in Window, NEW what \in {"day", "entries", "held"}, ReadDay(r, what) PROVE DayInv'
  BY <1>2, ReadDayKeeps
<1>3. ASSUME NEW r \in Window, NEW form \in DayForms, ClearDay(r, form) PROVE DayInv'
  BY <1>3, ClearDayKeeps
<1>4. ASSUME NEW r \in Window, DeleteRows(r) \/ CommitDay(r) \/ Complete(r) \/ Reopen(r) PROVE DayInv'
  BY <1>4, DeleteRowsKeeps, CommitDayHolds, CompleteKeeps, ReopenHolds
<1>5. ASSUME NEW r \in Window, EndAsk(r) PROVE DayInv'
  <2>1. SaveOK(Quiet)
    BY DEF SaveOK
  <2> QED
    BY <1>5, <2>1, SaveKeeps DEF EndAsk
<1>6. ASSUME NEW d \in Duty, DropDuty(d) PROVE DayInv'
  BY <1>6, DropDutyKeeps
<1>7. CASE UNCHANGED days
  <2>1. UNCHANGED <<entries, day, held, save>>
    BY <1>7 DEF days
  <2> QED
    BY <2>1 DEF DayInv, SaveOK, ReadingsOK, SavingOK
<1> QED
  BY <1>1, <1>2, <1>3, <1>4, <1>5, <1>6, <1>7 DEF DaysNext

\* The rules of a day hold of every save and every reopening that nobody has overtaken,
\* for any windows, duties, amounts and length of a day.
THEOREM DayTheorem == DaysSpec => DayHolds
<1>1. DayInv /\ [DaysNext]_days => DayInv'
  BY DaysStep
<1>2. DayInv /\ [DaysNext]_days =>
        [\A r \in Window :
            /\ CommitDay(r) =>
                /\ "day" \notin save[r].overtaken => ~day.completed
                /\ {"entries", "held"} \cap save[r].overtaken = {} =>
                      (\A d \in Duty \ held : entries'[d] <= entries[d])
                /\ "rows" \notin save[r].overtaken =>
                      (Total(entries') <= DayMax /\ (Logged(entries') # {} => day'.row))
            /\ Reopen(r) /\ {"day", "entries"} \cap save[r].overtaken = {} =>
                  (Logged(entries') # {} \/ day'.noted => day'.row)]_days
  BY CommitDayHolds, ReopenHolds
<1> QED
  BY <1>1, <1>2, DaysInitOK, PTL DEF DaysSpec, DayHolds

-----------------------------------------------------------------------------
(* The business clock.                                                     *)

WallInv == zone \in Zone /\ dailyAt \in 0 .. 23 /\ instant \in Int

\* The changes of the zone, on the calendar.
LEMMA Changes ==
    ASSUME zone \in Zone
    PROVE  \E w, a, b, m, n \in Int, p \in 1 .. 6, q \in 2 .. 6 :
              /\ a + 48 <= b /\ a = 24 * m + p - w /\ b = 24 * n + q - (w + 1)
              /\ \A hr \in Int : ZoneOffset(hr) = IF a <= hr /\ hr < b THEN w + 1 ELSE w
<1>1. /\ zone.winter \in Int /\ zone.summer \in Int /\ zone.spring \in Int /\ zone.autumn \in Int
      /\ zone.summer = zone.winter + 1 /\ zone.spring + 48 <= zone.autumn
      /\ (zone.spring + zone.winter) % 24 \in 1 .. 6 /\ (zone.autumn + zone.summer) % 24 \in 2 .. 6
  BY ZoneAssumption
<1>2. \A x \in Int : x = 24 * (x \div 24) + (x % 24) /\ x \div 24 \in Int
  OBVIOUS
<1>3. PICK w \in Int, a \in Int, b \in Int : w = zone.winter /\ a = zone.spring /\ b = zone.autumn
  BY <1>1
<1>4. /\ zone.summer = w + 1 /\ a + 48 <= b
      /\ (a + w) % 24 \in 1 .. 6 /\ (b + (w + 1)) % 24 \in 2 .. 6
  BY <1>1, <1>3
<1>5. PICK x \in Int, y \in Int : x = a + w /\ y = b + (w + 1)
  OBVIOUS
<1>6. PICK m \in Int, n \in Int, p \in 1 .. 6, q \in 2 .. 6 : x = 24 * m + p /\ y = 24 * n + q
  BY <1>2, <1>4, <1>5
<1>7. a = 24 * m + p - w /\ b = 24 * n + q - (w + 1)
  BY <1>5, <1>6
<1>8. \A hr \in Int : ZoneOffset(hr) = IF a <= hr /\ hr < b THEN w + 1 ELSE w
  BY <1>3, <1>4 DEF ZoneOffset
<1> QED
  BY <1>4, <1>7, <1>8

\* The date of a moment, by its limits on the clock.
LEMMA DateLimits ==
    ASSUME zone \in Zone, NEW t \in Int
    PROVE  /\ ZoneOffset(t) \in Int /\ ToBusinessDate(t) \in Int
           /\ 24 * ToBusinessDate(t) <= t + ZoneOffset(t) /\ t + ZoneOffset(t) < 24 * ToBusinessDate(t) + 24
           /\ \A k \in Int : 24 * k <= t + ZoneOffset(t) /\ t + ZoneOffset(t) < 24 * k + 24 =>
                 ToBusinessDate(t) = k
<1>1. ZoneOffset(t) \in Int
  BY Changes
<1>2. PICK x \in Int : x = t + ZoneOffset(t)
  BY <1>1
<1>3. /\ x \div 24 \in Int /\ 24 * (x \div 24) <= x /\ x < 24 * (x \div 24) + 24
      /\ \A k \in Int : 24 * k <= x /\ x < 24 * k + 24 => x \div 24 = k
  OBVIOUS
<1> QED
  BY <1>1, <1>2, <1>3 DEF ToBusinessDate

\* A time of the clock on a date is found; one that is left out, an hour away on that date.
LEMMA FromDate ==
    ASSUME zone \in Zone, NEW k \in Int, NEW h \in 0 .. 23
    PROVE  /\ FromBusinessDate(k, h) \in Int /\ ToBusinessDate(FromBusinessDate(k, h)) = k
           /\ h \in {0, 7, 19} =>
                 FromBusinessDate(k, h) + ZoneOffset(FromBusinessDate(k, h)) = 24 * k + h
<1>1. PICK w \in Int, a \in Int, b \in Int, m \in Int, n \in Int, p \in 1 .. 6, q \in 2 .. 6 :
         /\ a + 48 <= b /\ a = 24 * m + p - w /\ b = 24 * n + q - (w + 1)
         /\ \A hr \in Int : ZoneOffset(hr) = IF a <= hr /\ hr < b THEN w + 1 ELSE w
  BY Changes
<1>3. w \in Int /\ a \in Int /\ b \in Int /\ a + 48 <= b /\ a = 24 * m + p - w /\ b = 24 * n + q - (w + 1)
  BY <1>1
<1>4. \A hr \in Int : ZoneOffset(hr) = IF a <= hr /\ hr < b THEN w + 1 ELSE w
  BY <1>1
<1>5. PICK c \in Int : c = 24 * k + h
  OBVIOUS
<1>6. PICK first \in Int : first = c - ZoneOffset(c)
  BY <1>3, <1>4, <1>5
<1>7. PICK r \in Int : r = c - ZoneOffset(first)
  BY <1>3, <1>4, <1>5, <1>6
<1>8. r = FromBusinessDate(k, h)
  BY <1>5, <1>6, <1>7 DEF FromBusinessDate
<1>9. r = IF a <= first /\ first < b THEN c - w - 1 ELSE c - w
  BY <1>3, <1>4, <1>5, <1>6, <1>7
<1>10. first = c - w \/ first = c - w - 1
  BY <1>3, <1>4, <1>5, <1>6
<1>11. r + ZoneOffset(r) = c \/ (r + ZoneOffset(r) \in {c - 1, c + 1} /\ h = p)
  <2>1. CASE a <= first /\ first < b
    <3>1. r = c - w - 1
      BY <1>9, <2>1
    <3>2. CASE a <= r
      BY <1>3, <1>4, <1>5, <1>10, <2>1, <3>1, <3>2
    <3>3. CASE r < a
      <4>1. c = 24 * m + p
        BY <1>3, <1>5, <1>10, <2>1, <3>1, <3>3
      <4>2. h = p
        BY <1>5, <4>1
      <4> QED
        BY <1>3, <1>4, <1>5, <3>1, <3>3, <4>2
    <3> QED
      BY <1>3, <3>2, <3>3
  <2>2. CASE ~(a <= first /\ first < b)
    <3>1. r = c - w
      BY <1>9, <2>2
    <3>2. CASE a <= r /\ r < b
      <4>1. c = 24 * m + p
        BY <1>3, <1>5, <1>10, <2>2, <3>1, <3>2
      <4>2. h = p
        BY <1>5, <4>1
      <4> QED
        BY <1>3, <1>4, <1>5, <3>1, <3>2, <4>2
    <3>3. CASE ~(a <= r /\ r < b)
      BY <1>3, <1>4, <1>5, <3>1, <3>3
    <3> QED
      BY <3>2, <3>3
  <2> QED
    BY <2>1, <2>2
<1>12. 24 * k <= r + ZoneOffset(r) /\ r + ZoneOffset(r) < 24 * k + 24
  BY <1>5, <1>11
<1>13. ToBusinessDate(r) = k
  BY <1>12, DateLimits
<1> QED
  BY <1>5, <1>8, <1>11, <1>13

\* A later moment has no earlier date.
LEMMA DatesRise ==
    ASSUME zone \in Zone, NEW t \in Int, NEW u \in Int, t <= u
    PROVE  ToBusinessDate(t) <= ToBusinessDate(u)
<1>1. PICK w \in Int, a \in Int, b \in Int, m \in Int, n \in Int, p \in 1 .. 6, q \in 2 .. 6 :
         /\ a + 48 <= b /\ a = 24 * m + p - w /\ b = 24 * n + q - (w + 1)
         /\ \A hr \in Int : ZoneOffset(hr) = IF a <= hr /\ hr < b THEN w + 1 ELSE w
  BY Changes
<1>3. w \in Int /\ a \in Int /\ b \in Int /\ a + 48 <= b /\ a = 24 * m + p - w /\ b = 24 * n + q - (w + 1)
  BY <1>1
<1>4. \A x \in Int : ZoneOffset(x) = IF a <= x /\ x < b THEN w + 1 ELSE w
  BY <1>1
<1>5. PICK i \in Int, j \in Int : i = ToBusinessDate(t) /\ j = ToBusinessDate(u)
  BY DateLimits
<1>6. /\ 24 * i <= t + ZoneOffset(t) /\ t + ZoneOffset(t) < 24 * i + 24
      /\ 24 * j <= u + ZoneOffset(u) /\ u + ZoneOffset(u) < 24 * j + 24
  BY <1>5, DateLimits
<1>7. CASE t < b /\ b <= u
  <2>1. t + ZoneOffset(t) <= 24 * n + q - 1 /\ 24 * n + q - 1 <= u + ZoneOffset(u)
    BY <1>3, <1>4, <1>7
  <2>2. i <= n /\ n <= j
    BY <1>6, <2>1, <1>3, <1>4
  <2> QED
    BY <1>5, <2>2
<1>8. CASE ~(t < b /\ b <= u)
  <2>1. t + ZoneOffset(t) <= u + ZoneOffset(u)
    BY <1>3, <1>4, <1>8
  <2> QED
    BY <1>3, <1>4, <1>5, <1>6, <2>1
<1> QED
  BY <1>7, <1>8

\* A day ends where the next one begins.
LEMMA DayEnds ==
    ASSUME zone \in Zone, NEW k \in Int
    PROVE  ToBusinessDate(EndOfBusinessDay(k)) = k /\ ToBusinessDate(EndOfBusinessDay(k) + 1) = k + 1
<1>1. PICK w \in Int, a \in Int, b \in Int, m \in Int, n \in Int, p \in 1 .. 6, q \in 2 .. 6 :
         /\ a + 48 <= b /\ a = 24 * m + p - w /\ b = 24 * n + q - (w + 1)
         /\ \A hr \in Int : ZoneOffset(hr) = IF a <= hr /\ hr < b THEN w + 1 ELSE w
  BY Changes
<1>3. w \in Int /\ a \in Int /\ b \in Int /\ a + 48 <= b /\ a = 24 * m + p - w /\ b = 24 * n + q - (w + 1)
  BY <1>1
<1>4. \A x \in Int : ZoneOffset(x) = IF a <= x /\ x < b THEN w + 1 ELSE w
  BY <1>1
<1>5. PICK r \in Int : r = FromBusinessDate(k + 1, 0)
  BY FromDate
<1>6. r + ZoneOffset(r) = 24 * (k + 1) /\ ToBusinessDate(r) = k + 1
  BY <1>5, FromDate
<1>7. ZoneOffset(r - 1) = ZoneOffset(r)
  BY <1>3, <1>4, <1>6
<1>8. 24 * k <= (r - 1) + ZoneOffset(r - 1) /\ (r - 1) + ZoneOffset(r - 1) < 24 * k + 24
  BY <1>3, <1>4, <1>6, <1>7
<1>9. ToBusinessDate(r - 1) = k
  BY <1>8, DateLimits
<1>10. EndOfBusinessDay(k) = r - 1 /\ (r - 1) + 1 = r
  BY <1>5 DEF EndOfBusinessDay
<1> QED
  BY <1>6, <1>9, <1>10

LEMMA WallFits ==
    ASSUME WallInv
    PROVE  ClockFits
<1>1. zone \in Zone /\ dailyAt \in 0 .. 23 /\ instant \in Int
  BY DEF WallInv
<1>2. PICK k \in Int : k = ToBusinessDate(instant)
  BY <1>1, DateLimits
<1>12. \A d \in Int : /\ FromBusinessDate(d, dailyAt) \in Int
                      /\ ToBusinessDate(FromBusinessDate(d, dailyAt)) = d
  BY <1>1, FromDate
<1>13. k - 1 \in Int /\ k + 1 \in Int
  OBVIOUS
<1>3. PICK run \in Int, before \in Int, after \in Int :
         /\ run = FromBusinessDate(k, dailyAt) /\ before = FromBusinessDate(k - 1, dailyAt)
         /\ after = FromBusinessDate(k + 1, dailyAt)
  BY <1>12, <1>13
<1>4. ToBusinessDate(run) = k /\ ToBusinessDate(before) = k - 1 /\ ToBusinessDate(after) = k + 1
  BY <1>3, <1>12, <1>13
<1>5. before < instant /\ before < run /\ instant < after
  BY <1>1, <1>2, <1>4, DatesRise
<1>6. /\ LastDailyRunAt(instant) = (IF run <= instant THEN run ELSE before)
      /\ NextDailyRunAt(instant) = (IF run > instant THEN run ELSE after)
  BY <1>2, <1>3 DEF LastDailyRunAt, NextDailyRunAt
<1>7. PICK last, next : last = LastDailyRunAt(instant) /\ next = NextDailyRunAt(instant)
  OBVIOUS
<1>8. last <= instant /\ instant < next
  BY <1>1, <1>3, <1>5, <1>6, <1>7
<1>9. DailyWindowStart(next) = last /\ LastDailyRunAt(next) = next
  <2>1. CASE run > instant
    <3>1. next = run /\ last = before
      BY <1>1, <1>3, <1>6, <1>7, <2>1
    <3>2. DailyWindowStart(run) = before /\ LastDailyRunAt(run) = run
      BY <1>3, <1>4 DEF DailyWindowStart, LastDailyRunAt
    <3> QED
      BY <3>1, <3>2
  <2>2. CASE run <= instant
    <3>1. next = after /\ last = run
      BY <1>1, <1>3, <1>6, <1>7, <2>2
    <3>2. DailyWindowStart(after) = run /\ LastDailyRunAt(after) = after
      BY <1>3, <1>4 DEF DailyWindowStart, LastDailyRunAt
    <3> QED
      BY <3>1, <3>2
  <2> QED
    BY <1>1, <1>3, <2>1, <2>2
<1>10. ASSUME NEW h \in {7, 19}, NEW t, t = OffsetFromAnchor(instant, 1, h)
       PROVE  ToBusinessDate(t) = k + 1 /\ (t + ZoneOffset(t)) % 24 = h
  <2>1. t = FromBusinessDate(k + 1, h)
    BY <1>2, <1>10 DEF OffsetFromAnchor
  <2>2. ToBusinessDate(t) = k + 1 /\ t + ZoneOffset(t) = 24 * (k + 1) + h
    <3>1. k + 1 \in Int /\ h \in 0 .. 23 /\ h \in {0, 7, 19}
      OBVIOUS
    <3> QED
      BY <1>1, <2>1, <3>1, FromDate
  <2>3. (24 * (k + 1) + h) % 24 = h
    OBVIOUS
  <2> QED
    BY <2>2, <2>3
<1>11. ToBusinessDate(EndOfBusinessDay(k)) = k /\ ToBusinessDate(EndOfBusinessDay(k) + 1) = k + 1
  BY <1>1, DayEnds
<1> QED
  BY <1>2, <1>7, <1>8, <1>9, <1>10, <1>11 DEF ClockFits

\* In any zone whose clock is changed by an hour in the small hours, and at any hour of the
\* daily run, every moment is in exactly one daily window, also when the clock leaves out
\* the hour of the runs or shows it twice; and days join.
THEOREM ClockTheorem == WallSpec => []ClockFits
<1>1. WallInit => WallInv
  BY ZoneAssumption DEF WallInit, WallInv
<1>2. WallInv /\ [WallNext]_wall => WallInv'
  BY DEF WallInv, WallNext, wall
<1>3. WallInv => ClockFits
  BY WallFits
<1> QED
  BY <1>1, <1>2, <1>3, PTL DEF WallSpec
=============================================================================
