----------------------------- MODULE UnreadBell -----------------------------
(***************************************************************************)
(* The unread count of one user in one server process: several tabs poll   *)
(* it, a memo answers them for a short while, and what the user does about *)
(* a notification or a reminder drops the memo; what he does elsewhere may *)
(* change his count and drops nothing. The parts of the count are read on  *)
(* their own, so that one part, 0 or 1, stands for all.                    *)
(***************************************************************************)
EXTENDS Naturals, FiniteSets

CONSTANTS
    Tab,        \* the polls that may be under way at once
    TTL,        \* UNREAD_CACHE_TTL_MS
    MaxCompute, \* the longest time between a reading and the memo made from it
    MaxNow      \* a bound of the runs

ASSUME BellAssumption == TTL \in Nat \ {0} /\ MaxCompute \in Nat /\ MaxNow \in Nat

VARIABLES
    now,
    unread,     \* the count as the database has it
    memo,       \* the memo (a set)
    poll,       \* the polls that found none (crossed: with a reading that an own change of
                \* the user overtook and that its drop does not reach)
    own,        \* the user's own change is written, and not yet followed by the drop
    lastTrue,   \* when each count was last true, ...
    trueSince   \* ... and the ones true since the user's last own change

bell == <<now, unread, memo, poll, own, lastTrue, trueSince>>

Count == {0, 1}

BellInit ==
    /\ now = 0 /\ unread \in Count /\ memo = {} /\ own = FALSE
    /\ poll = [c \in Tab |-> [pc |-> "idle"]]
    /\ lastTrue = [v \in Count |-> 0] /\ trueSince = {unread}

\* getCachedUnread
Memo == {e \in memo : now - e.at < TTL}

\* A poll that the memo answers changes nothing (but for an expired entry it drops).
Poll(c) ==
    /\ poll[c].pc = "idle" /\ Memo = {}
    /\ memo' = {} /\ poll' = [poll EXCEPT ![c] = [pc |-> "count"]]
    /\ UNCHANGED <<now, unread, own, lastTrue, trueSince>>

CountUnread(c) ==
    /\ poll[c].pc = "count"
    /\ poll' = [poll EXCEPT ![c] = [pc |-> "store", value |-> unread, since |-> now, crossed |-> own]]
    /\ UNCHANGED <<now, unread, memo, own, lastTrue, trueSince>>

\* setCachedUnread
StoreMemo(c) ==
    /\ poll[c].pc = "store"
    /\ memo' = {[at |-> now, value |-> poll[c].value, crossed |-> poll[c].crossed \/ own]}
    /\ poll' = [poll EXCEPT ![c] = [pc |-> "idle"]]
    /\ UNCHANGED <<now, unread, own, lastTrue, trueSince>>

\* The counts that are true from now on.
BecomesTrue(v) ==
    /\ unread' = v /\ lastTrue' = [lastTrue EXCEPT ![v] = now, ![unread] = now]

\* Read, unread, snoozed, added or removed by the user: the row first, ...
OwnChange(v) ==
    /\ ~own /\ own' = TRUE /\ BecomesTrue(v) /\ trueSince' = {v}
    /\ poll' = [c \in Tab |-> IF poll[c].pc = "store" THEN [poll[c] EXCEPT !.crossed = TRUE] ELSE poll[c]]
    /\ UNCHANGED <<now, memo>>

\* Mutant of Invalidate: another change that forgets it.
InvalidateNot == own /\ own' = FALSE /\ UNCHANGED <<now, unread, memo, poll, lastTrue, trueSince>>

\* ... then invalidateUnread. A poll may have stored a reading from between the two.
Invalidate ==
    /\ own /\ own' = FALSE /\ memo' = {}
    /\ UNCHANGED <<now, unread, poll, lastTrue, trueSince>>

\* What the user changes without the drop: the reminders that a change of the task takes
\* away (its own author's too), the categories switched off, what goes with a deleted
\* task. A reading from before it counts as one that crossed it.
OwnChangeUntold(v) ==
    /\ BecomesTrue(v) /\ trueSince' = {v}
    /\ memo' = {[e EXCEPT !.crossed = TRUE] : e \in memo}
    /\ poll' = [c \in Tab |-> IF poll[c].pc = "store" THEN [poll[c] EXCEPT !.crossed = TRUE] ELSE poll[c]]
    /\ UNCHANGED <<now, own>>

\* New notifications, reminders that fall due, what a second process changes.
Elsewhere(v) ==
    /\ v # unread /\ BecomesTrue(v) /\ trueSince' = trueSince \cup {v}
    /\ UNCHANGED <<now, memo, poll, own>>

Later ==
    /\ now < MaxNow
    /\ \A c \in Tab : poll[c].pc = "store" => now < poll[c].since + MaxCompute
    /\ now' = now + 1 /\ lastTrue' = [lastTrue EXCEPT ![unread] = now']
    /\ UNCHANGED <<unread, memo, poll, own, trueSince>>

BellNext ==
    \/ \E c \in Tab : Poll(c) \/ CountUnread(c) \/ StoreMemo(c)
    \/ \E v \in Count : OwnChange(v) \/ OwnChangeUntold(v) \/ Elsewhere(v)
    \/ Invalidate \/ Later

BellSpec == BellInit /\ [][BellNext]_bell

\* What the memo answers was true a memo's life and one computation ago at most; and it
\* was true after the user's last own change, once that is followed by its drop, unless the
\* count had been read before the drop and was stored after it, or the change is one of
\* those that drop nothing (and the count was read before it): only then an own change is
\* masked.
ServedIsRecent ==
    \A e \in Memo :
        /\ lastTrue[e.value] + TTL + MaxCompute >= now
        /\ ~e.crossed /\ ~own => e.value \in trueSince
=============================================================================
