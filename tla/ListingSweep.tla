---------------------------- MODULE ListingSweep ----------------------------
(***************************************************************************)
(* One sweep of the watched listings: batches of one marketplace, each     *)
(* with a listings, a pricing and perhaps a catalog call, any of which may *)
(* fail or answer for some listings only. A listing whose data is not      *)
(* complete is skipped, so that its saved snapshot stays as it is.         *)
(***************************************************************************)
EXTENDS Naturals, Sequences, FiniteSets, SequencesExt

CONSTANTS
    Sku,        \* the monitored listings
    Market,     \* marketplaces
    Home,       \* the marketplace of each
    Thin,       \* the ones without brand content of their own (resold)
    BatchSize, MaxConsecutiveFailures

ASSUME SweepAssumption ==
    /\ IsFiniteSet(Sku) /\ Home \in [Sku -> Market] /\ Thin \subseteq Sku
    /\ BatchSize \in Nat \ {0} /\ MaxConsecutiveFailures \in Nat \ {0}

VARIABLES
    todo,           \* the listings of the batches to come
    snapshots,      \* the drafts: the listing, whose prices it has, and how they were matched
    skipped,        \* the listings without one, and why
    failures,       \* of batches, and of the catalog, in a row
    aborted,
    catalogued,     \* the listings a catalog call has answered for
    tried           \* how the batches went

sweep == <<todo, snapshots, skipped, failures, aborted, catalogued, tried>>

SweepInit ==
    /\ todo = Sku /\ snapshots = {} /\ skipped = {}
    /\ failures = [batch |-> 0, catalog |-> 0]
    /\ aborted = FALSE /\ catalogued = {} /\ tried = <<>>

Smaller(a, b) == IF a <= b THEN a ELSE b

\* groupByMarketplace, and batch(skus, 20).
Batches ==
    {B \in SUBSET todo :
        \E m \in Market :
            LET left == {s \in todo : Home[s] = m}
            IN  B \subseteq left /\ left # {} /\ Cardinality(B) = Smaller(BatchSize, Cardinality(left))}

Skip(S, reason) == S \X {reason}

-----------------------------------------------------------------------------
(* The pricing answers, matched to what was asked.                         *)

\* What Amazon may answer: in any order, some missing, some naming no listing, and some
\* transient failures (isTransientOfferResult).
Answers(B) ==
    SeqOf({a \in [about : B, names : SUBSET B, good : BOOLEAN] : a.names \in {{}, {a.about}}},
          Cardinality(B))

\* Mutant of AnswerFor: by position.
AnswerAt(asked, answers, s) == {answers[i] : i \in {j \in DOMAIN answers : asked[j] = s}}

\* matchAnswersToSkus: the first answer that names s, or else the one that names none
\* and stands in its place.
AnswerFor(asked, answers, s) ==
    LET naming == {i \in DOMAIN answers : answers[i].names = {s}}
    IN  IF naming # {} THEN {answers[i] : i \in {j \in naming : \A k \in naming : j <= k}}
        ELSE {answers[i] : i \in {j \in DOMAIN answers : asked[j] = s /\ answers[j].names = {}}}

\* The drafts of the listings returned whose answer can be trusted.
Drafted(asked, answers, R) ==
    UNION {{[sku |-> s, about |-> a.about, named |-> a.names # {}] :
               a \in {b \in AnswerFor(asked, answers, s) : b.good}} : s \in R}

\* What the listings and the pricing call of a batch can give.
Fetched(B) ==
    {[returned |-> R, drafts |-> Drafted(asked, answers, R)] :
        asked \in SetToSeqs(B), R \in SUBSET B, answers \in Answers(B)}

-----------------------------------------------------------------------------
\* The drafts that need the catalog's content.
Gaps(f) == {d.sku : d \in f.drafts} \cap Thin

\* Mutant of Store: the drafts that could not be filled are reported, and stored.
StoreAll(B, f, dropped) ==
    /\ snapshots' = snapshots \cup f.drafts
    /\ skipped' = skipped \cup Skip(B \ f.returned, "not-returned")
                          \cup Skip(f.returned \ {d.sku : d \in f.drafts}, "pricing-unavailable")
                          \cup Skip(dropped, "catalog-unavailable")
    /\ todo' = todo \ B /\ tried' = Append(tried, "ok")

\* A batch went well, but for the listings to drop for want of the catalog.
Store(B, f, dropped) ==
    /\ snapshots' = snapshots \cup {d \in f.drafts : d.sku \notin dropped}
    /\ skipped' = skipped \cup Skip(B \ f.returned, "not-returned")
                          \cup Skip(f.returned \ {d.sku : d \in f.drafts}, "pricing-unavailable")
                          \cup Skip(dropped, "catalog-unavailable")
    /\ todo' = todo \ B /\ tried' = Append(tried, "ok")

\* No draft needs the catalog, or the catalog answers (it may not know a listing).
SweepBatch(B) ==
    /\ ~aborted
    /\ \E f \in Fetched(B) :
          /\ Gaps(f) = {} \/ failures.catalog < MaxConsecutiveFailures
          /\ Store(B, f, {})
          /\ catalogued' = catalogued \cup Gaps(f)
          /\ failures' = [batch |-> 0, catalog |-> IF Gaps(f) = {} THEN failures.catalog ELSE 0]
    /\ UNCHANGED aborted

\* The catalog fails, or is no longer asked in this sweep.
SweepUnfilled(B) ==
    /\ ~aborted
    /\ \E f \in Fetched(B) : Gaps(f) # {} /\ Store(B, f, Gaps(f))
    /\ failures' = [batch |-> 0,
                    catalog |-> Smaller(failures.catalog + 1, MaxConsecutiveFailures)]
    /\ UNCHANGED <<aborted, catalogued>>

\* Mutant of FailBatch: the failures are counted over the whole sweep.
FailAnyBatch(B) ==
    /\ ~aborted
    /\ skipped' = skipped \cup Skip(B, "batch-failed")
    /\ failures' = [failures EXCEPT !.batch = @ + 1]
    /\ aborted' = (\E i \in DOMAIN tried : tried[i] = "failed")
    /\ todo' = todo \ B /\ tried' = Append(tried, "failed")
    /\ UNCHANGED <<snapshots, catalogued>>

\* The listings or the pricing call fails.
FailBatch(B) ==
    /\ ~aborted
    /\ skipped' = skipped \cup Skip(B, "batch-failed")
    /\ failures' = [failures EXCEPT !.batch = @ + 1]
    /\ aborted' = (failures'.batch >= MaxConsecutiveFailures)
    /\ todo' = todo \ B /\ tried' = Append(tried, "failed")
    /\ UNCHANGED <<snapshots, catalogued>>

SkipBatch(B) ==
    /\ aborted
    /\ skipped' = skipped \cup Skip(B, "sweep-aborted")
    /\ todo' = todo \ B
    /\ UNCHANGED <<snapshots, failures, aborted, catalogued, tried>>

\* The next pass.
SweepAgain ==
    /\ todo = {} /\ todo' = Sku /\ snapshots' = {} /\ skipped' = {}
    /\ failures' = [batch |-> 0, catalog |-> 0]
    /\ aborted' = FALSE /\ catalogued' = {} /\ tried' = <<>>

SweepNext == SweepAgain \/ \E B \in Batches : SweepBatch(B) \/ SweepUnfilled(B) \/ FailBatch(B) \/ SkipBatch(B)

SweepSpec == SweepInit /\ [][SweepNext]_sweep

\* Every monitored listing is accounted for once: with one draft, or skipped for one reason.
EachOnce ==
    \A s \in Sku :
        Cardinality({d \in snapshots : d.sku = s}) + Cardinality({x \in skipped : x[1] = s})
            = (IF s \in todo THEN 0 ELSE 1)

\* A draft has the prices of its own listing, unless the answer named none, whatever the
\* order of the answers; and of a resold listing there is none without the catalog's
\* answer, which would read as its content removed.
TrustedOnly ==
    \A d \in snapshots : (d.about = d.sku \/ ~d.named) /\ (d.sku \in Thin => d.sku \in catalogued)

\* The sweep stops when so many batches in a row have failed, and only then: failures of
\* the catalog, or ones with a good batch between them, never stop it.
StopsWhenDown ==
    aborted <=> /\ Len(tried) >= MaxConsecutiveFailures
                /\ \A i \in Len(tried) + 1 - MaxConsecutiveFailures .. Len(tried) : tried[i] = "failed"
=============================================================================
