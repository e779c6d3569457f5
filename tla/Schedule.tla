------------------------------ MODULE Schedule ------------------------------
(***************************************************************************)
(* The dates of a fixed schedule: every so many days, weeks (on chosen     *)
(* weekdays), months or years from an anchor, up to a limit; which of them *)
(* are due, which are previewed as ghosts, and when the scheduler has to   *)
(* wake for the next. A date is a number of days since Sunday, 1 January   *)
(* 2023; the hour, which the code keeps, is left out.                      *)
(***************************************************************************)
EXTENDS Integers, FiniteSets, SequencesExt

CONSTANTS
    Plan,       \* schedules: unit, count, weekdays, anchor, limit, offset and lead time
    MaxSeq,     \* how far the walks over the occurrences go (HARD_CAP)
    Horizon,    \* GHOST_HORIZON_OCCURRENCES
    Ceiling,    \* the scheduler's longest sleep
    Until,      \* a bound of the runs
    Months      \* how far the calendar goes

ASSUME ScheduleAssumption ==
    /\ Plan \subseteq [unit : {"Day", "Week", "Month", "Year"}, count : Nat \ {0},
                       weekdays : SUBSET (0 .. 6), anchor : Nat, offset : Int, lead : Nat,
                       endType : {"Never", "AfterOccurrences", "OnDate"}, end : Nat]
    /\ \A n \in {MaxSeq, Horizon, Ceiling, Months} : n \in Nat \ {0}
    /\ Until \in Nat

VARIABLES
    plan,
    fired,      \* the occurrences that exist
    today       \* where the scheduler stands

series == <<plan, fired, today>>

ScheduleInit == plan \in Plan /\ fired = {} /\ today = plan.anchor

-----------------------------------------------------------------------------
(* The calendar.                                                           *)

Leap(year) == year % 4 = 0

\* The days of a month, counted from January 2023.
DaysIn(m) ==
    IF m % 12 = 1 THEN IF Leap(2023 + m \div 12) THEN 29 ELSE 28
    ELSE IF m % 12 \in {3, 5, 8, 10} THEN 30 ELSE 31

\* The days of a year before each month, without the leap day.
Before == <<0, 31, 59, 90, 120, 151, 181, 212, 243, 273, 304, 334>>

\* The first day of each month, with the leap days so far.
FirstOf == [m \in 0 .. Months |->
    365 * (m \div 12) + ((m \div 12 + 2) \div 4) + Before[(m % 12) + 1]
    + IF m % 12 > 1 /\ Leap(2023 + m \div 12) THEN 1 ELSE 0]

MonthOf == [d \in 0 .. FirstOf[Months] - 1 |->
               CHOOSE m \in 0 .. Months - 1 : FirstOf[m] <= d /\ d < FirstOf[m + 1]]

DayOf(d) == d - FirstOf[MonthOf[d]]

\* The calendar is long enough for the occurrences of the schedules.
ASSUME CalendarAssumption ==
    \A p \in Plan : p.unit \in {"Month", "Year"} =>
        /\ p.anchor < FirstOf[Months]
        /\ MonthOf[p.anchor] + (IF p.unit = "Month" THEN 1 ELSE 12) * p.count * (MaxSeq - 1) + 1 < Months

AddMonths(d, n) ==
    LET m == MonthOf[d] + n
    IN  FirstOf[m] + (IF DayOf(d) < DaysIn(m) THEN DayOf(d) ELSE DaysIn(m) - 1)

AddInterval(d, unit, n) ==
    CASE unit = "Day" -> d + n
      [] unit = "Week" -> d + 7 * n
      [] unit = "Month" -> AddMonths(d, n)
      [] unit = "Year" -> AddMonths(d, 12 * n)

-----------------------------------------------------------------------------
(* The occurrences.                                                        *)

\* The chosen weekdays after the anchor, week by week: at least one in each after the first.
WeekdayDates(p, weeks) ==
    FlattenSeq([c \in 1 .. weeks |->
        LET sunday == p.anchor - (p.anchor % 7) + 7 * p.count * (c - 1)
        IN  SelectSeq([i \in 1 .. Cardinality(p.weekdays) |->
                          sunday + SetToSortSeq(p.weekdays, <)[i]],
                      LAMBDA d : d > p.anchor)])

\* weeklyByweekdayDate: the first occurrence is the anchor, whatever its weekday.
WeeklyDate(p, n) == IF n = 1 THEN p.anchor ELSE WeekdayDates(p, n)[n - 1]

\* Mutant of AnchorForSeq: each date is counted from the one before.
AnchorFromLast(p, n) ==
    LET at[k \in 1 .. n] ==
          IF k = 1 THEN p.anchor ELSE AddInterval(at[k - 1], p.unit, p.count)
    IN  IF p.weekdays # {} THEN WeeklyDate(p, n) ELSE at[n]

\* fixedAnchorForSeq
AnchorForSeq(p, n) ==
    IF p.unit = "Week" /\ p.weekdays # {} THEN WeeklyDate(p, n)
    ELSE AddInterval(p.anchor, p.unit, p.count * (n - 1))

Anchors == [p \in Plan |-> [n \in 1 .. MaxSeq |-> AnchorForSeq(p, n)]]

SeqAllowed(p, n) ==
    CASE p.endType = "Never" -> TRUE
      [] p.endType = "AfterOccurrences" -> n <= p.end
      [] p.endType = "OnDate" -> Anchors[p][n] <= p.end

\* The earliest date of the occurrence less the lead time.
EligibleAt(p, n) == Anchors[p][n] + p.offset - p.lead

IsWithinLeadTime(p, n) == today >= EligibleAt(p, n)

\* The walk stops at the first occurrence that is not allowed or not due.
DueFixedSeqs(p) ==
    {n \in 1 .. MaxSeq : \A k \in 1 .. n : SeqAllowed(p, k) /\ IsWithinLeadTime(p, k)} \ fired

UpcomingFixedSeqs(p) ==
    LET open == {n \in 1 .. MaxSeq : \A k \in 1 .. n : SeqAllowed(p, k)} \ fired
    IN  IF p.endType = "Never" THEN {n \in open : Cardinality({k \in open : k < n}) < Horizon}
        ELSE open

\* computeNextWakeAt: the first ghost that is not yet due.
NextWake(p) ==
    LET ahead == {n \in UpcomingFixedSeqs(p) : EligibleAt(p, n) > today}
    IN  {EligibleAt(p, n) : n \in {m \in ahead : \A k \in ahead : m <= k}}

-----------------------------------------------------------------------------
\* A pass makes what is due, in order, and may fail on the way.
Materialize(n) == n \in DueFixedSeqs(plan) /\ fired' = fired \cup {k \in DueFixedSeqs(plan) : k <= n}
                  /\ UNCHANGED <<plan, today>>

\* A user clicks a ghost through, or deletes a copy of a recurring task.
ClickGhost(n) == n \in UpcomingFixedSeqs(plan) /\ fired' = fired \cup {n} /\ UNCHANGED <<plan, today>>
DeleteCopy(n) == n \in fired /\ fired' = fired \ {n} /\ UNCHANGED <<plan, today>>

\* The scheduler sleeps until the next date, or the ceiling.
Sleep ==
    /\ today < Until
    /\ today' \in NextWake(plan) \cup {today + Ceiling}
    /\ today' <= today + Ceiling /\ \A d \in NextWake(plan) : today' <= d
    /\ UNCHANGED <<plan, fired>>

ScheduleNext == Sleep \/ \E n \in 1 .. MaxSeq : Materialize(n) \/ ClickGhost(n) \/ DeleteCopy(n)

ScheduleSpec == ScheduleInit /\ [][ScheduleNext]_series

-----------------------------------------------------------------------------
\* What the schedule says, date by date: in a month without the anchor's day its last
\* day stands for it, and the day comes back in the next.
Falls(p, d) ==
    LET months == MonthOf[d] - MonthOf[p.anchor]
        right == DayOf(d) = DayOf(p.anchor) \/ (DayOf(d) < DayOf(p.anchor) /\ DayOf(d + 1) = 0)
    IN  CASE p.unit = "Day" -> (d - p.anchor) % p.count = 0
          [] p.unit = "Month" -> months % p.count = 0 /\ right
          [] p.unit = "Year" -> months % (12 * p.count) = 0 /\ right
          [] p.unit = "Week" /\ p.weekdays = {} -> (d - p.anchor) % (7 * p.count) = 0
          [] OTHER -> d = p.anchor \/ (d % 7 \in p.weekdays /\ ((d \div 7) - (p.anchor \div 7)) % p.count = 0)

\* The n-th occurrence is the n-th date the schedule falls on, without drift.
NoDrift == [p \in Plan |->
    LET dates == {d \in p.anchor .. Anchors[p][MaxSeq] : Falls(p, d)}
    IN  \A n \in 1 .. MaxSeq :
            /\ Anchors[p][n] \in dates
            /\ Cardinality({d \in dates : d < Anchors[p][n]}) = n - 1]

\* What a pass makes is everything allowed and due that does not exist, though its walk
\* stops at the first date that is not; and the scheduler sleeps over none that is to
\* come, whatever was clicked through or deleted before, unless so many are overdue that
\* the preview has no other.
WalksFit ==
    LET missing == {n \in 1 .. MaxSeq \ fired : SeqAllowed(plan, n)}
    IN  /\ DueFixedSeqs(plan) = {n \in missing : IsWithinLeadTime(plan, n)}
        /\ Cardinality(DueFixedSeqs(plan)) < Horizon =>
              \A n \in missing : EligibleAt(plan, n) > today =>
                  \E d \in NextWake(plan) : d <= EligibleAt(plan, n)

\* The dates are those of the schedule, and what is due, previewed and woken for follows
\* from them.
ScheduleFits == NoDrift[plan] /\ WalksFit
=============================================================================
