---------------------------- MODULE BusinessClock ----------------------------
(***************************************************************************)
(* Dates on the calendar and moments, in a business zone that changes its  *)
(* offset twice a year; and the days of the daily alert tasks, which run   *)
(* from one time of the clock to the same time of the next date. A moment  *)
(* is a number of hours.                                                   *)
(***************************************************************************)
EXTENDS Integers

CONSTANTS
    Zone,       \* the offsets from UTC, and when summer time begins and ends
    DailyAt,    \* EXCLUSIVES_DAILY_TASKS_AT
    FirstHour, LastHour     \* bounds of the runs

\* Zones as the code cares for: the clock is put an hour forward in the small hours, and
\* back some days later, in hours that the default ones are nowhere near.
ASSUME ZoneAssumption ==
    /\ Zone \subseteq [winter : Int, summer : Int, spring : Int, autumn : Int]
    /\ \A z \in Zone :
          /\ z.summer = z.winter + 1 /\ z.spring + 48 <= z.autumn
          /\ (z.spring + z.winter) % 24 \in 1 .. 6 /\ (z.autumn + z.summer) % 24 \in 2 .. 6
    /\ DailyAt \subseteq 0 .. 23 /\ FirstHour \in Int /\ LastHour \in Int

VARIABLES
    zone, dailyAt,  \* the configuration
    instant         \* the present moment

wall == <<zone, dailyAt, instant>>

WallInit == zone \in Zone /\ dailyAt \in DailyAt /\ instant = FirstHour

\* zoneOffsetMs
ZoneOffset(t) == IF zone.spring <= t /\ t < zone.autumn THEN zone.summer ELSE zone.winter

ToBusinessDate(t) == (t + ZoneOffset(t)) \div 24

\* Mutant of FromBusinessDate: the offset is resolved once.
FromFirstGuess(date, h) == 24 * date + h - ZoneOffset(24 * date + h)

\* The offset is resolved twice: the first guess may be on the other side of a change.
FromBusinessDate(date, h) ==
    LET clockTime == 24 * date + h
    IN  clockTime - ZoneOffset(clockTime - ZoneOffset(clockTime))

\* The last hour of the date.
EndOfBusinessDay(date) == FromBusinessDate(date + 1, 0) - 1

\* A date some days from the anchor's, whatever the anchor's time.
OffsetFromAnchor(anchor, days, h) == FromBusinessDate(ToBusinessDate(anchor) + days, h)

LastDailyRunAt(t) ==
    LET run == FromBusinessDate(ToBusinessDate(t), dailyAt)
    IN  IF run <= t THEN run ELSE FromBusinessDate(ToBusinessDate(t) - 1, dailyAt)

NextDailyRunAt(t) ==
    LET run == FromBusinessDate(ToBusinessDate(t), dailyAt)
    IN  IF run > t THEN run ELSE FromBusinessDate(ToBusinessDate(t) + 1, dailyAt)

DailyWindowStart(end) == FromBusinessDate(ToBusinessDate(end) - 1, dailyAt)

\* Time passes.
WallNext == instant < LastHour /\ instant' = instant + 1 /\ UNCHANGED <<zone, dailyAt>>

WallSpec == WallInit /\ [][WallNext]_wall

\* "every alert falls in exactly one day": the window that ends at the next run begins at
\* the last one, also when the day has 23 or 25 hours, and when the clock leaves out the
\* hour of the runs or shows it twice. The default hours, some days after a moment, are
\* shown by the clock on that date; and a day ends where the next one begins.
ClockFits ==
    LET last == LastDailyRunAt(instant)
        next == NextDailyRunAt(instant)
        today == ToBusinessDate(instant)
    IN  /\ last <= instant /\ instant < next
        /\ DailyWindowStart(next) = last /\ LastDailyRunAt(next) = next
        /\ \A h \in {7, 19} :
              LET t == OffsetFromAnchor(instant, 1, h)
              IN  ToBusinessDate(t) = today + 1 /\ (t + ZoneOffset(t)) % 24 = h
        /\ ToBusinessDate(EndOfBusinessDay(today)) = today
        /\ ToBusinessDate(EndOfBusinessDay(today) + 1) = today + 1
=============================================================================
