-------------------------- MODULE OccurrenceLedger --------------------------
(***************************************************************************)
(* What the recurring series promise their users, whoever makes the        *)
(* occurrences: an occurrence that exists is not made again, and a series  *)
(* relative to completion makes the next one only after the previous one   *)
(* has been completed.                                                     *)
(***************************************************************************)
EXTENDS Naturals

CONSTANTS
    Series,     \* recurring templates and recurring tasks
    Fixed,      \* the series with a fixed schedule
    Seq         \* the places in a series, from 1

VARIABLES
    issued,     \* per series, the occurrences that exist
    finished    \* the occurrences that have been completed at least once

vars == <<issued, finished>>

\* A recurring task is its own first occurrence.
Init ==
    /\ issued \in [Series -> {{}, {1}}]
    /\ finished = {}

\* An occurrence is made: a new one, and in a relative series in its turn.
Issue(s, n) ==
    /\ n \notin issued[s]
    /\ s \in Fixed \/ n = 1 \/ <<s, n - 1>> \in finished
    /\ issued' = [issued EXCEPT ![s] = @ \cup {n}]
    /\ UNCHANGED finished

\* Its work is done.
Finish(s, n) ==
    /\ n \in issued[s]
    /\ finished' = finished \cup {<<s, n>>}
    /\ UNCHANGED issued

\* It is deleted, and its place in the series is free again.
Void(s, n) ==
    /\ issued' = [issued EXCEPT ![s] = @ \ {n}]
    /\ UNCHANGED finished

\* The series is deleted.
Close(s) ==
    /\ issued' = [issued EXCEPT ![s] = {}]
    /\ UNCHANGED finished

Next ==
    \E s \in Series :
        \/ Close(s)
        \/ \E n \in Seq : Issue(s, n) \/ Finish(s, n) \/ Void(s, n)

Spec == Init /\ [][Next]_vars
=============================================================================
