----------------------------- MODULE MCServices -----------------------------
(***************************************************************************)
(* The small services side by side. They share no state here: each         *)
(* behaviour is one of one service, so that the run checks their sum.      *)
(***************************************************************************)
EXTENDS PriceWatch, ListingSweep, AmazonClient, TaskReview, MailDelivery, UnreadBell, Organization,
        BusinessClock, Schedule, TimeDays, CommentFiles, DutyBook, TLC

CONSTANTS a1, b1, b2, d1, us, ca, mx, c1, c2, e1, v1, m1, o1, o2, o3, y1, y2, n1

MCHome == a1 :> us @@ b1 :> ca @@ b2 :> ca @@ d1 :> mx
MCAbove == {<<v1, e1>>}
\* The two actors of every service that has two, as no service meets another; and the
\* two duties of a day, or files of a task.
Symmetry == {f @@ g : f \in Permutations({c1, c2}), g \in Permutations({y1, y2})}

Some(role, sup) == [role |-> role, active |-> TRUE, sup |-> sup]
Three(a, b, c, s) == o1 :> Some(a, NoOne) @@ o2 :> Some(b, o1) @@ o3 :> Some(c, s)
MCCharts == {Three("Admin", "Manager", "Member", o1), Three("Admin", "Manager", "Member", o2),
             Three("Manager", "Manager", "Manager", o2)}

MCZone == {[winter |-> -5, summer |-> -4, spring |-> 79, autumn |-> 150],
           [winter |-> 2, summer |-> 3, spring |-> 72, autumn |-> 143]}

Every(unit, count, weekdays, anchor, offset, lead, endType, end) ==
    [unit |-> unit, count |-> count, weekdays |-> weekdays, anchor |-> anchor,
     offset |-> offset, lead |-> lead, endType |-> endType, end |-> end]
Fortnight == Every("Week", 2, {1, 4}, 10, 0, 3, "AfterOccurrences", 4)
MCPlan == {Fortnight, Every("Month", 1, {}, 30, 0, 7, "Never", 0),
           Every("Month", 2, {}, 60, 0, 0, "OnDate", 181), Every("Week", 1, {}, 6, -9, 0, "OnDate", 27),
           Every("Week", 1, {0, 3, 6}, 6, 0, 0, "OnDate", 18), Every("Day", 10, {}, 3, -2, 20, "Never", 0),
           Every("Year", 1, {}, 424, 0, 30, "AfterOccurrences", 3)}

VARIABLE part

all == <<part, watch, sweep, client, tasks, mailing, bell, chart, wall, series, days, thread, duties>>

\* A service that has no part stays in one of its initial states.
ServicesInit ==
    /\ part \in {"prices", "sweep", "client", "task", "mail", "bell", "chart", "clock", "plan", "days", "thread", "duties"}
    /\ SweepInit /\ ClientInit /\ MailInit
    /\ PriceInit /\ (part # "prices" => ~row.saved /\ row.winner = "none")
    /\ TaskInit /\ (part # "task" => task.status = "Open" /\ task.assignee = e1 /\ task.start)
    /\ BellInit /\ (part # "bell" => unread = 0)
    /\ user \in MCCharts /\ ChartInit /\ (part # "chart" => user[o3] = Some("Member", o2))
    /\ WallInit /\ (part # "clock" => zone.summer = 3 /\ dailyAt = 7)
    /\ ScheduleInit /\ (part # "plan" => plan.unit = "Day")
    /\ ThreadInit
    /\ DutiesInit /\ (part # "duties" => catalog[n1] = "none" /\ work = NoWork)
    /\ DaysInit /\ (IF part = "days" THEN day.completed <=> Logged(entries) # {} ELSE ~day.row)

\* A part that ends at a bound of the runs.
Ended ==
    \/ part = "client" /\ clock = MaxClock
    \/ part = "chart" /\ begun = MaxBegun /\ \A r \in Writer : request[r].pc = "idle"
    \/ part = "clock" /\ instant = LastHour
    \/ part = "days" /\ asked = MaxAsked /\ \A r \in Window : save[r] = Quiet
    \/ part = "thread" /\ (~live \/ posts = MaxPosts) /\ \A r \in Poster : post[r] = NoPost

ServicesNext ==
    \/ part = "prices" /\ PriceNext
       /\ UNCHANGED <<part, sweep, client, tasks, mailing, bell, chart, wall, series, days, thread, duties>>
    \/ part = "sweep" /\ SweepNext
       /\ UNCHANGED <<part, watch, client, tasks, mailing, bell, chart, wall, series, days, thread, duties>>
    \/ part = "client" /\ ClientNext
       /\ UNCHANGED <<part, watch, sweep, tasks, mailing, bell, chart, wall, series, days, thread, duties>>
    \/ part = "task" /\ TaskNext
       /\ UNCHANGED <<part, watch, sweep, client, mailing, bell, chart, wall, series, days, thread, duties>>
    \/ part = "mail" /\ MailNext
       /\ UNCHANGED <<part, watch, sweep, client, tasks, bell, chart, wall, series, days, thread, duties>>
    \/ part = "bell" /\ BellNext
       /\ UNCHANGED <<part, watch, sweep, client, tasks, mailing, chart, wall, series, days, thread, duties>>
    \/ part = "chart" /\ ChartNext
       /\ UNCHANGED <<part, watch, sweep, client, tasks, mailing, bell, wall, series, days, thread, duties>>
    \/ part = "clock" /\ WallNext
       /\ UNCHANGED <<part, watch, sweep, client, tasks, mailing, bell, chart, series, days, thread, duties>>
    \/ part = "plan" /\ ScheduleNext
       /\ UNCHANGED <<part, watch, sweep, client, tasks, mailing, bell, chart, wall, days, thread, duties>>
    \/ part = "days" /\ DaysNext
       /\ UNCHANGED <<part, watch, sweep, client, tasks, mailing, bell, chart, wall, series, thread, duties>>
    \/ part = "thread" /\ ThreadNext
       /\ UNCHANGED <<part, watch, sweep, client, tasks, mailing, bell, chart, wall, series, days, duties>>
    \/ part = "duties" /\ DutiesNext
       /\ UNCHANGED <<part, watch, sweep, client, tasks, mailing, bell, chart, wall, series, days, thread>>
    \/ Ended /\ UNCHANGED all

ServicesSpec == ServicesInit /\ [][ServicesNext]_all
=============================================================================
