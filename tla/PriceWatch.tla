----------------------------- MODULE PriceWatch -----------------------------
(***************************************************************************)
(* What a check of one listing announces of its prices and of its Buy Box: *)
(* the fresh data is brought to the form of the saved row, compared with   *)
(* it, and then replaces it, except for a price pair that cannot be        *)
(* compared. A check is one step here; ExclusivesPass has how checks race. *)
(***************************************************************************)
EXTENDS Integers

CONSTANTS
    Price       \* the amounts Amazon gives, in tenths of a cent

ASSUME PriceAssumption == Price \subseteq Nat

VARIABLES
    row,        \* the saved snapshot
    told,       \* what the alerts so far tell their readers
    lapsed      \* history variable: our Buy Box went to nobody, and is not ours again

watch == <<row, told, lapsed>>

Missing == -1
Amount == Price \cup {Missing}
Winner == {"none", "us", "rival"}

\* A listing watched for the first time, or one whose row is older than the prices.
PriceInit ==
    /\ row \in {[saved |-> b, cp |-> Missing, hl |-> Missing, recorded |-> FALSE,
                 winner |-> w] : b \in BOOLEAN, w \in Winner}
    /\ told = [side |-> "unknown", cp |-> Missing, held |-> row.winner = "us"]
    /\ lapsed = FALSE

\* The Decimal(10,2) columns: half up to the cent.
Cents(a) == IF a = Missing THEN Missing ELSE (a + 5) \div 10

\* comparablePrices; competitiveOrMinusOne is the value of a missing price.
Comparable(v) == v.hl # Missing /\ v.hl # v.cp

\* snapshotFields
Fields(d) ==
    LET v == [cp |-> Cents(d.cp), hl |-> Cents(d.hl)]
    IN  [saved |-> TRUE, cp |-> v.cp, hl |-> v.hl, recorded |-> Comparable(v),
         winner |-> d.winner]

\* replacementFields
Replacement(old, d) ==
    IF Fields(d).recorded THEN Fields(d)
    ELSE [Fields(d) EXCEPT !.cp = old.cp, !.hl = old.hl, !.recorded = old.recorded]

Side(v) == IF v.hl < v.cp THEN "under" ELSE "over"

\* The client's five rules.
PriceAlerts(old, new) ==
    IF ~old.recorded \/ old.hl = Missing \/ ~Comparable(new) THEN {}
    ELSE LET moved == old.cp # new.cp
             ours == old.hl # new.hl
             crossed(s) == Side(old) # s /\ Side(new) = s
         IN  {a \in {"CompetitivePriceBelowOurs"} : crossed("over") /\ moved}
             \cup {a \in {"CompetitivePriceAboveOurs"} : crossed("under") /\ moved}
             \cup {a \in {"CompetitivePriceChanged"} : Side(old) = Side(new) /\ moved}
             \cup {a \in {"OurPriceAboveCompetitive"} : crossed("over") /\ ours}
             \cup {a \in {"OurPriceBelowCompetitive"} : crossed("under") /\ ours}

\* Mutant of BoxAlerts: a Buy Box that nobody held is not won.
BoxTaken(old, d) ==
    {a \in {"BuyBoxWon"} : old.winner = "rival" /\ d.winner = "us"}
    \cup {a \in {"BuyBoxLost"} : old.winner = "us" /\ d.winner = "rival" /\ d.priced}

\* Won and lost. A Buy Box without a price is suppressed, not lost, and neither is
\* one whose winner is not known.
BoxAlerts(old, d) ==
    {a \in {"BuyBoxWon"} : old.winner # "us" /\ d.winner = "us"}
    \cup {a \in {"BuyBoxLost"} : old.winner = "us" /\ d.winner = "rival" /\ d.priced}

\* What a reader concludes. The alerts about the competitive price carry it.
Conclude(alerts, d) ==
    [side |-> IF alerts \cap {"CompetitivePriceBelowOurs", "OurPriceAboveCompetitive"} # {}
              THEN "over"
              ELSE IF alerts \cap {"CompetitivePriceAboveOurs", "OurPriceBelowCompetitive"} # {}
              THEN "under" ELSE told.side,
     cp |-> IF alerts \cap {"CompetitivePriceBelowOurs", "CompetitivePriceAboveOurs",
                            "CompetitivePriceChanged"} # {}
            THEN Cents(d.cp) ELSE told.cp,
     held |-> "BuyBoxWon" \in alerts \/ (told.held /\ "BuyBoxLost" \notin alerts)]

\* resolveBuyBox and resolveCompetitive: a winner is named only with a price.
Drafts ==
    {d \in [cp : Amount, hl : Amount, winner : Winner, priced : BOOLEAN] :
        d.winner # "none" => d.priced}

\* The first snapshot, or one that replaces another. The first pair that can be
\* compared is where the readers of the alerts start from.
Check(d) ==
    LET alerts == IF row.saved THEN PriceAlerts(row, Fields(d)) \cup BoxAlerts(row, d) ELSE {}
    IN  /\ row' = (IF row.saved THEN Replacement(row, d) ELSE Fields(d))
        /\ told' = IF ~row.saved
                   THEN [side |-> IF row'.recorded THEN Side(row') ELSE "unknown", cp |-> row'.cp,
                         held |-> d.winner = "us"]
                   ELSE IF told.side # "unknown" \/ ~row'.recorded THEN Conclude(alerts, d)
                   ELSE [Conclude(alerts, d) EXCEPT !.side = Side(row'), !.cp = row'.cp]

        /\ lapsed' = (/\ row.saved /\ d.winner # "us"
                      /\ IF row.winner = "us" THEN d.winner = "none" ELSE lapsed)

PriceNext == \E d \in Drafts : Check(d)

PriceSpec == PriceInit /\ [][PriceNext]_watch

\* "A saved, recorded pair is never equal", and our price is in it, through checks in
\* which prices are missing, equal, or differ by less than the cent that is stored.
RecordedPair == row.recorded => row.hl # Missing /\ row.hl # row.cp

\* Whoever follows the alerts knows what the row says: on which side of ours the
\* competitive price is and how much it is, so that no crossing and no move is lost in
\* the checks between that could not compare; and whether we hold the Buy Box, but for
\* one case. Won and lost are told from the last row alone, so a Buy Box that was
\* suppressed, or without a known winner, when we held it was not lost, and no later
\* check tells of a rival who takes it up: the reader believes it ours until it is.
AlertsTell ==
    /\ row.recorded => told.side = Side(row) /\ told.cp = row.cp
    /\ told.held <=> row.winner = "us" \/ lapsed
=============================================================================
