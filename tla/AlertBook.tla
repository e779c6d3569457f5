----------------------------- MODULE AlertBook ------------------------------
(* What Exclusives promises of the alerts of the watched listings: each is  *)
(* written down once, at the end of its listing's log, and then dealt with  *)
(* once and for good, by a task or by finding that none is due.             *)
EXTENDS Naturals, Sequences

CONSTANTS Listing

VARIABLE book   \* per listing, what became of each of its alerts

Init == book = [l \in Listing |-> <<>>]

\* A change of some listings is logged.
Log(L) ==
    /\ L # {}
    /\ book' = [l \in Listing |-> IF l \in L THEN Append(book[l], "waiting") ELSE book[l]]

\* Some waiting alerts get their task, or need none.
Deal(D, outcome) ==
    /\ D # {} /\ \A a \in D : book[a[1]][a[2]] = "waiting"
    /\ book' = [l \in Listing |-> [n \in DOMAIN book[l] |->
                   IF <<l, n>> \in D THEN outcome ELSE book[l][n]]]

Entries == UNION {{l} \X DOMAIN book[l] : l \in Listing}

Next ==
    \/ \E L \in SUBSET Listing : Log(L)
    \/ \E D \in SUBSET Entries, outcome \in {"task", "none"} : Deal(D, outcome)

Spec == Init /\ [][Next]_book
=============================================================================
