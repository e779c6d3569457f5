# HL Central in TLA+

HL Central is a task-management server (Express, Prisma, PostgreSQL; `src/backend`)
with a React client (`src/frontend`) and a package of shared types
(`src/packages/shared`). Every request is a sequence of database statements in which
any other request may come between two of them; a scheduler inside the server process
makes the occurrences of recurring work, moves goals on, mails reminders and runs the
checks of Amazon listings ("Exclusives"). There are few locks: most of the code relies
on unique indexes, conditional updates, transactions and optimistic version checks. The
modules here say what these have to guarantee, in which interleavings they do, and where
they do not.

Contents: 1 the parts of the system, 2 the modules and the code, 3 the runs,
4 the proofs, 5 disagreements found, 6 what is left out, 7 the plan.

## 1. The parts of the system

| part (services) | state | operations | interacts with |
| --- | --- | --- | --- |
| Task relationships (`task.relationships`) | `Task.parentId`, `TaskDependency`, history rows | set/clear parent, add/remove dependency, create subtask | tasks, templates (copies of whole trees) |
| Tasks and review (`task`, `task-history`) | `Task` rows: status, assignee, prior status and assignee, dates | create, update, send to review, reviewed, recall, delete, duplicate | reminders, notifications, recurrence |
| Templates (`template`, `template-instantiation`) | template tree, schedule, `TemplateOccurrence` | edit, pause, delete, instantiate, click a ghost, apply to occurrences | scheduler, relationships, duties |
| Task recurrence (`task-recurrence`, `recurrence`) | `TaskRecurrence`, generated tasks with (source, seq) | set, clear, click a ghost, generate | scheduler, tasks |
| Scheduler (`scheduler`, `app-settings`) | process memory (timer, last pass, next wake, last report), `SchedulerState.lastAlertAt` | pass, tick, arm, next wake, overdue measurement, watchdog | all that falls due |
| Goals (`goal`) | `Goal` rows | draft, edit, delete, submit, approve, reject, results, finalize, resolve, review pass | scheduler, organization |
| Reminders and notifications (`reminder`, `notification`, `unread-cache`) | `Reminder`, `Notification`, an in-process memo | add, read, snooze, cancel notices, due mails, unread count | tasks, scheduler, email queue |
| Email (`queue/*`, `worker`, `mailer`) | BullMQ jobs, failed-email rows | direct or queued delivery, retries, record of failures | all mails |
| Exclusives (`exclusives/*`) | groups, snapshots, alert log, advisory lock, pacer | pass (fetch, detect, save), alert tasks, daily window | scheduler, templates |
| Time days (`time`) | `TimeDay`, `TimeEntry` | save, complete, reopen | duties |
| Organization (`org`, `user`) | supervisors, users | move, merge, deactivate | access, goals |
| Departments and duties (`department`, `duty-check`, `org`) | departments, duties, who holds them | create, archive, restore, delete, grant, take away | tasks, templates, time |
| Comments, attachments (`comment`, `attachment`, `storage/*`) | rows, and objects in a storage | sign, post, edit, confirm, delete | tasks, notifications |
| Business time (`utils/business-time`, `exclusives/daily-window`) | none | dates to moments and back, the window of a daily run | recurrence, Exclusives |
| Access, sessions, search, exports, reports | none of their own, or sessions | decisions and reads | all |

What is hard in them, and what each must get right:

* **Relationships.** Cycle checks walk the graph in many statements, and some writers
  do not take the lock. *Neither graph ever has a cycle, and the history tells the
  graph.*
* **Recurrence.** Several passes, clicks, crashes, completions and deletions race for
  an occurrence. *Each is made once, in its turn, and one that is due is made.*
* **Scheduler.** A self-arming timer, failures that are caught, restarts that forget.
  *It always wakes within the ceiling, blames itself only with reason, and mails an
  outage once.*
* **Goals.** Two triggers of one transition, supervisors that change, stale screens,
  requests that overlap. *No stage is skipped, and what is active is what was approved.*
* **Review of tasks.** Two reads of one row per request, three people who may end a
  review. *A task in review can always be given back to whom it came from.*
* **Reminders and mails.** Claim before send, fallbacks, retries. *At most one mail per
  reminder; no live reminder on a canceled task; no count masked for longer than the
  memo lives.*
* **Exclusives.** A lock that can time out under its holder. *One task per alert; no
  change of a listing without its alert.*
* **Time days, organization.** *A completed day does not change; the chart has no loop.*
* **Duties.** Checks in other services, before the write. *A used duty is there, and
  nobody has a task whose duty he lacks without somebody who knows.*
* **Comments and files.** A row and an object that no transaction spans. *A file that is
  shown is there, and no comment is empty.*

`PROJECT.json` lists every part with its status and every hazard with its line and the
properties that cover it, or why none does yet.

## 2. The modules and the code

Each module has its code's names where they exist (`setParent`, `Due`, `Down`, ...).
`PROJECT.json` ("map") gives the lines of every definition. A definition called "Mutant
of X" in its comment is a plausible bug: the properties must fail with it, which shows
that they depend on that line of the code; no specification uses it.

### TaskRelationships

`task.relationships.service.ts`, with the parts of `task.service.ts` and
`template-instantiation.service.ts` that write the same rows. State: the rows (`tasks`),
`parent`, `deps`, the advisory transaction lock, one record per request under way, and
the history of both relations. A request is one action per statement: it takes the
lock (`LockRelationships`), reads, walks the ancestors or successors one statement at a
time (`Walk`), and writes. `clearParent`, `removeDependency`, subtasks, instantiations
and deletions take no lock and come in anywhere. `duplicateTask` collects its subtree
level by level (`CollectLevel`), reads the rows and the dependencies later
(`ReadOriginals`) and clones one by one (`Clone`); it is one transaction at read
committed, so that it sees what others commit meanwhile. Neither a copy nor an occurrence
of a template has entries of the history of dependencies: `born` is a ghost, the
dependencies a task was created with, on top of which its history is read (`Recorded`). A
row's id is never used again (`used`), so that an instance must have room for the copies
a request is going to make (`Room`). `Ops` and `Serves` say which operations an instance
offers, and which request may ask for what.

### Occurrences, and the abstract OccurrenceLedger

`OccurrenceLedger` is what recurring work promises: an occurrence that exists is not
made again, and a series relative to completion goes on only after the previous
occurrence was completed. `Occurrences` is how `scheduler.service.ts`,
`task-recurrence.service.ts` and `template-instantiation.service.ts` do it: nothing
locks a series; a pass lists the series, reads what each has (`OpenTemplate`,
`OpenSource`), and inserts what is missing one by one (`Fire`), with the unique index on
(series, seq) as the claim (`Make`). Templates are read one at a time, but the fixed
task series all at once before the loop (`fired`), and so is the state of the source
tasks (`own`): the pass works from old readings, and the model keeps them as such.
`FailSeries` is the catch around one series, `Crash` the end of a process, `StartClick`
and `FinishClick` a user clicking a future occurrence through. `LedgerSpec` is the
refinement: `issued <- rows`, `finished <- finished`. Dates are steps: `Anchor(n)` is
`Interval * (n - 1)`.

### SchedulerClock

`tick`, `arm`, `runScheduler` (its measurements and reports), `computeNextWakeAt`,
`checkSchedulerHealth`. The work of a pass is one action here (`Work`), with any subset
failing; `Throw` is a pass that throws, which `tick` catches. One unit of time is about
the shortest sleep, and a pass takes at least one and at most `MaxPass`. Process memory
(`lastTick`, `nextWake`, `lastHealth`) is lost in a `Crash`; the claim of the outage mail
(`lastAlert`) is in the database. `trouble` is a ghost: what has gone wrong for an item
since it was set up, which the properties need to tell a justified report from a false
one. Two things never fall on the very instant of a pass's start or of a timer set for
the longest sleep (`Moment`): at millisecond resolution the code cannot tell them apart
either way.

### GoalLifecycle

`goal.service.ts`, every operation: the request reads and checks the goal (`Ask`:
status, version, permission), reads the owner's supervisor in another statement
(`Authorize`), and writes by id alone (`Write`). The review pass is one conditional
update. A window (`win`) is what a person has on the screen, and the client sends its
version with every operation but the deletion (`GoalDetailModal.tsx`,
`GoalEditorModal.tsx`); `assertNotStale` skips the check for a caller that sends none,
and no such caller is modelled. `Terms` are the fields an approval is about; notes, risks,
mitigations and results are only a new version. Any requests on the same goal can be under
way at once. A request is `late` once another has written the goal since it was read, and
`raced` says that a late request has written: both are ghosts, and the properties say what
holds regardless and what until then. `GoalRace` shows why they must.

### ExclusivesPass, and the abstract AlertBook

`AlertBook` is what Exclusives promises of its alerts: each change of a listing is
written down once, at the end of the listing's log, and dealt with once and for good.
`ExclusivesPass` is how `pass.service.ts`, `detection.service.ts`,
`alert-tasks.service.ts`, `group-write.service.ts` and their repositories do it. A
process tries the advisory lock, reads the active listings, fetches, reads the
snapshots, and saves alerts and snapshots in one transaction that leaves out listings
and groups that are gone. The lock lives in a transaction with a timeout: it can end
while the pass goes on (`overlap`). The immediate maker runs under the lock, the daily
one outside it, and both claim an alert by a conditional update of `taskHandledAt` in
the transaction that makes the task. Administrators watch and drop listings, edit,
switch and delete groups and change the mode of the alert type at any time. `BookSpec` is
the refinement: an alert's outcome is `taskHandledAt` with the number of tasks that were
made for it.

### PriceWatch, ListingSweep, AmazonClient

`PriceWatch` is `alert-detection.ts`, `snapshot.repository.ts` and the drafts of
`sp-api/pricing.ts`, for the competitive price and the Buy Box: what a check compares
(`Comparable`), announces (`PriceAlerts`, `BoxAlerts`) and saves (`Replacement`), with
amounts in tenths of a cent, because the columns keep cents. `told` is what a reader of
the alerts believes, and `lapsed` that the Buy Box went from us to nobody and has not been
ours since. `ListingSweep` is `sweep.service.ts`: batches by marketplace, each
with its listings, pricing and catalog call, any of which fails or answers in part; the
answers of a batch of prices come in any order, some without a name (`AnswerFor`).
`AmazonClient` is the pacer, the retries and the token of `sp-api/`: time is a counter,
an attempt takes its slot and then goes out when its timer fires, at most `MaxLag` late.

### TaskReview

`updateTask` and `exitReview` of `task.service.ts`, `task-history.service.ts` and
`reminder.service.ts`, for one task. An edit reads the task, is checked, and commits a
transaction that looks at nothing again; leaving Review reads it once to find what to
restore and a second time as an edit. `raced` is a ghost: the fields that a commit wrote
although another had written them since its reading. `before` is what Review began
from.

### MailDelivery, UnreadBell

`MailDelivery` follows the mail of a reminder from the claim
(`notification.service.ts`) through `queue/*`: the queue takes it, or answers too late,
or not, and then the process sends it itself; the worker tries it, writes or clears the
row of the failed mail, and the queue library counts the try afterwards, or gives the
job to another worker when the first one dies: once (`Stalls`), as `email-worker.ts` leaves
the library's limit at its default; a job that stalls a second time is failed without its
processor (`StallsOut`). What the library does is external, as the code relies on it; where
the code does not tell (whether that counts as a try, whether a retry by hand forgets the
stalls), both are modelled. `UnreadBell` is `unread-cache.ts` with the polls and the changes
of `notification.service.ts`, in one process, and the changes of the user's own count that
do not drop the memo (`OwnChangeUntold`: reminders a change of the task removes, categories
switched off).

### Organization

The three writers of the chart of supervisors: `saveOrgChanges` (`org.service.ts`),
`updateUser` with `deactivateUser`, and `mergeUsers` (`user.service.ts`), each as its
readings, its checks and one transaction, and the trigger of
`20260724000100_supervisor_role_check` as a condition on every row that is written
(`Admits`). `late` and `demoted` are ghosts: who was written on a reading that was old.

### BusinessClock, Schedule

The calendar. `BusinessClock` is `business-time.ts` and `daily-window.ts`: a moment is
an hour, and a zone has two offsets and the moments they change, so that a date has 23,
24 or 25 hours. `Schedule` is `recurrence.ts` with `computeNextWakeAt` of the scheduler:
months of 28 to 31 days, leap years, weekdays of every n-th week, and the three walks over
the occurrences (due, previewed, woken for) between which users click, delete and the
scheduler sleeps.

### TimeDays

`saveDay` and `setDayCompleted` of `time.service.ts`. A save makes three readings in
any order, checks them, and writes in a transaction at read committed: the deletion of
what is not wanted sees the rows that are committed when it begins (`ClearDay`), waits for
another transaction that has deleted one of them, and passes over the rows that are gone
by then (`DeleteRows`); what others insert after it began stays (`CommitDay`). `overtaken` is
a ghost: what others have written since the request read it.

### CommentFiles

`attachment.service.ts` and `comment.service.ts`, and `deleteTask`, for one task. A key is
signed for the task, for a comment, or for one that is not written yet (`Stage`), and its
upload succeeds or not; from then on the bytes and the row go their own ways. Posting is
the check of the rows, the check of the objects, and a transaction, whose failure is
followed by the removal of the objects, which may fail in turn. The transaction of
`deleteAttachment` is three steps, as it counts the files that are left between two
deletions: it waits for a row that another one has deleted, and does not see that
deletion otherwise (`Dropping`). Ghosts say who has been unlucky: `twice` are files
that two posts took past the check of the rows at once, `thinned` comments that lost two
files at once, `doomed` what somebody has asked to delete.

### DutyBook

`department.service.ts`, `duty-check.service.ts` and the duty rule where tasks, templates
and holders apply it: the duties of one department, who holds them, a node of a template,
and one task. A request reads what it needs when it begins (`AskBook`, `AskWork`), checks
that the duty is active (`CheckActive`) and held (`CheckHolds`), and then writes; foreign
keys refuse the deletion of a duty that is used. `duplicateTask` and the occurrences of a
recurring task take the duty and the doer over and check nothing (`CopyWork`); from then on
the module follows the copy. `excused` and `slipped` are ghosts: that
the task came to its doer or duty on a reading that was old, or without a check, or as a
copy of a task that had the mismatch; and the
duties that became active under an archived department.

### MCServices

The modules from PriceWatch on are small and share no state, so one run checks them
side by side: `part` says which service a behaviour is one of, and the others stay in
an initial state. A part that ends at a bound may stop (`Ended`); elsewhere a deadlock
would be reported.

## 3. The runs

All runs that are expected to pass explore their whole state space (no depth bound).

| run | instance | what it shows |
| --- | --- | --- |
| Relationships | 3 tasks, 2 requests at once of any kind (parents, dependencies, duplication), a two-node template | no interleaving of walks, writes, copies and unlocked writers closes a cycle in either graph; the dependency history, on top of what tasks were created with, replays to the graph |
| Copies | 4 tasks, a request that duplicates and one that sets and clears parents, a two-node template | a tree duplicated while it moves, grows and loses rows stays acyclic |
| ParentHistory (fails) | 3 tasks, 2 requests that set and clear parents | see 5 |
| InTurn | a relative recurring task, 3 occurrences, 2 processes, 1 fault, 1 deletion; the lead time covers the interval, so that the order is all that counts (the dates are in Due) | once each, in turn, with failures, crashes, completions, reopenings, deletions and rule changes between any two statements; the ledger is refined |
| Due | a template and a relative recurring task of 2 occurrences, 1 process, 1 click, 1 fault, 1 deletion | liveness: what is due is made; and no false report of an undisturbed pass |
| FineClock | 2 items the fine clock looks for, failures, throws, crashes, stalls, deleted copies | a timer or a pass is always there; lateness is reported only after trouble |
| Faults | 1 item the fine clock does not look for, 2 heartbeats, crashes, stalls, deletions | the ceiling bounds the wait; one outage mail per cooldown |
| LateRelative (fails) | 1 item the fine clock does not look for, no fault at all | see 5 |
| Goals | 3 people, 2 windows, 2 sets of terms, up to 5 writes | the lifecycle with two requests at once, and the pass, deadlines and reorganizations between their statements: only a late request skips a stage |
| GoalRace (fails) | the same, without an exception for late requests | see 5 |
| Exclusives | 2 processes, one of them with the daily tasks; 1 listing, 1 group, 2 values, 1 day; 1 change by a user, 1 fault (crash, failed transaction, timeout of the lock) | the log tells every saved change once; the alert book is refined; in the end every alert of a past day is dealt with |
| Services | twelve parts, below | `AlertsTell`, `EachOnce`, `TrustedOnly`, `StopsWhenDown`, `Paced`, `RejectedMeansRevoked`, `HistoryTells`, `ReviewRestores`, `LiveReminderFits`, `MailedOnce`, `TableTells`, `ServedIsRecent`, `SupervisorsFit`, `SavesKeepTheChart`, `ClockFits`, `ScheduleFits`, `DayHolds`, `ThreadHolds`, `DutiesHold` |

The parts of `Services`:

* prices: amounts of 1.0, 1.4, 1.5 and 2.6 cents, so that two round to one another and
  two do not, each of which may be missing, for both prices, and three winners;
* sweep: 4 listings in 3 marketplaces, batches of 2, 2 failures in a row end it: one
  marketplace has a batch of two, and two more batches can fail;
* client: 2 requests, spacing 2, a reported spacing of 3, timers 1 late, 1 retry, 3 units
  of time, 2 revocations, so that the second try of a request may be refused too;
* task: an employee and an administrator above, 2 requests, three statuses (one to
  come back to, Review, and one that ends reminders), forms of the status alone and the
  start alone, 1 field written on an old reading;
* mail: 1 mail, 2 processes, 2 tries, 2 deaths (one stall, and one too many), 1 answer that is
  lost, 1 retry by hand;
* bell: 2 tabs, a memo of 2 units, a computation of 1, 5 units of time;
* chart: 3 accounts in three charts, 2 requests in all;
* clock: a zone west and one east of UTC with both changes of a year, nine times of the
  daily run, the hours that are left out and repeated among them;
* plan: seven schedules (days, plain weeks, chosen weekdays, months from the 31st, every
  second month, years from 29 February) with lead times, offsets and all three ends, 4
  occurrences each, a preview of 3;
* days: 2 windows, 2 duties, a day that holds one unit (so that two entries pass the limit),
  3 requests in all, from an empty
  day that is open and from a day with time on it that is completed;
* thread: a comment, 2 files, 2 requests at once, 3 in all;
* duties: a duty, 2 holders, 2 requests, 2 in all.

The pairs of actors of all parts have the same two names in the configuration, as the
parts never meet. They are interchangeable, and so are the two duties of a day, which have
the names of the two files as well; that is the symmetry the run uses.

Why the bounds are enough. A cycle needs two writers and, with one of them walking,
three tasks: the shortest loop in which a walk can miss a link that another request
adds, moves or removes behind it; one of them may duplicate a task and what it waits for.
A copy of a tree of two needs four tasks; there the other request moves tasks, as
dependencies that are added to a tree while it is copied are in the three tasks of the
first run. Two views merge states that differ only in what no action reads again: the
histories (what the entries on dependencies amount to is kept where a property is about
it) and the sets of a walk that has ended. In a
relative series three occurrences give a first, one whose predecessor is the source
itself and one whose predecessor was generated, which the code treats in three ways;
two processes give every order of two claims, and a fault falls on any statement. The
clock's constants keep the order of the real ones (shortest sleep < lateness threshold <
ceiling), and the horizon holds two full sleeps. Five writes take a goal through a
rejection or an edit and up to its resolution, with a late request on the way. An alert is disputed by at most two
makers, and one listing has a log of its own. Two requests, polls or processes are what
every race in the services needs; the third request of a day is the completion or the
reopening that a save and its rival meet, and that of a thread posts the comment two
others take apart. The proofs remove the bounds for the safety
properties named in section 4.

Deadlock is checked in all runs but those of TaskRelationships, where all ids may be
used up and no request is left to serve.

Fairness. `Due` asks that each process's pass goes on (weak fairness of `Step`). The
code gives it: `tick` arms the timer in all cases, after a pass that threw too
(`scheduler.service.ts:896-908`), each series is in a catch of its own, and a process
that dies is started again by its host. `Exclusives` asks the same of the pass and of the
makers, which the scheduler starts again and again (`scheduler.service.ts:818-880`), and
that days end. Users' clicks, edits and completions, and all failures, are not fair, and
faults are bounded: a database that fails forever makes nothing. `DueIsMade` asks for
series that stay active.

## 4. The proofs

TLAPS checks these for every value of the constants that satisfies the named
assumptions. The proof modules extend the modules they are about. Every safety property
of a run that passes is proved; what is left to TLC is at the end.

* `TaskRelationshipsProofs`: `TypeCorrect`, `NoAncestryCycle`, `NoDependencyCycle`,
  `DependencyHistory`, `NeitherGraphCyclic`. The inductive invariant is the type invariant
  with acyclicity (every non-empty set of tasks has a member whose parent, or blocker, is
  outside it, which TLC compares with the usual definition on three nodes) and
  `RequestsOK`. The latter is needed because the walk's reading is old when it writes:
  what it has seen is closed upwards except for what it still has to visit, *in the
  present graph*. That survives the writers without a lock, because they remove links or
  add a row nobody has yet, and the writers with one, because there is only one. The
  history of dependencies is written in the transaction of its row; a copy has none, and
  `DependencyHistory` says that what the tasks were created with and the entries since make
  up the graph.
* `OccurrencesProofs`: `TypesHold`, `OnceEachHolds`, `ClaimsHold`, `LedgerHolds`,
  `AlarmTheorem`. The strengthening is `ClaimsOK`: a made and undeleted occurrence is
  claimed by its row, an open or done task too, and *what a pass is about to fire in a
  relative series follows an occurrence that was completed at some time*; "is completed
  now" would not be invariant, since a user may reopen it between the reading and the
  claim. `LedgerHolds` is the refinement: initial states, and one step lemma per action.
  For `AlarmTheorem`, what a pass has not yet got to is exactly what it was to make, as
  long as neither a failure nor a user has disturbed it.
* `SchedulerClockProofs`, the clock: `TypesHold`, `CeilingTheorem`, `OneAlertTheorem`,
  `FineTheorem`. `ClockOK` says what a process
  remembers when, and that an armed timer is within the ceiling of now; `CeilingOK` that
  the next pass that sees an item, or the timer that starts it, is in time; `MailsOK` that
  the last alert is at or after every mail, so that the conditional claim spaces them;
  `FineOK` that, for an item the last run knew of and nothing has gone wrong with, the
  timer fires within the lateness threshold of its date. `FineTheorem` assumes that the
  fine clock looks for every item: section 5 shows that it fails without.
* `SchedulerClockProofs`, the schedules: `ScheduleTheorem`, `WalksTheorem`. The months
  follow one another for ever (`NextFirst`, by cases of the month, and `FirstsRise`, by an
  induction over a set, `Climb`), so that each day has one month (`MonthIs`, `MonthThere`)
  and each month one day that stands for the anchor's (`FittingDay`). Then the n-th
  occurrence is in order, on a date of the schedule, and every date of the schedule is an
  occurrence, which is `NoDrift`. The walks over the occurrences need only that later ones
  have later dates (`Ascends`, which follows from `NoDrift`), and with it a walk that stops
  early misses nothing. `ScheduleTheorem` is for schedules without chosen weekdays
  (`Plain`); `WalksTheorem` is for all whose dates ascend, which TLC checks of the plans
  with chosen weekdays.
* `GoalLifecycleProofs`: `GoalTypes`, `StampsTheorem`, `AgreedTheorem`, `StagesTheorem`,
  `FinalTheorem`, for requests that overlap. The strengthening is `WindowsOK`: a request that
  is not late finds the goal where it read it, or where the review pass alone can have
  moved it (`BusyOK`, `Reaches`); a late one still finds the stamps of the stages the goal has
  been through, and has been allowed to approve (`KeptOK`); and a window with the present
  version shows the present terms (`ShownOK`).
* `ExclusivesPassProofs`: `TypesHold`, `ReplayTheorem`, `BookTheorem`. While no lock has
  timed out, the pass that holds it has the snapshots as they are, so that what it saves
  is what it logs; the refinement needs no lock, only that an alert has its outcome from
  the claim that is written with the task.
* `TaskReviewProofs`: `HistoryTheorem`, `ReminderTheorem`, `RestoresTheorem`, and
  `ThreadTheorem` of `CommentFiles`. A request that has read a field either still has it as
  it is, or another has written it since, and then its own commit is counted in `raced`. In
  a thread (`LiveOK`), the files of a comment on its way are nobody else's drafts, two
  requests have the same files only if they were sent twice at once, and a comment without
  text has a file that none of the deletions that have counted its files drops.
* `AmazonClientProofs`: `PacedTheorem`, `RejectedTheorem` of the client, `EachOnceTheorem`,
  `TrustedTheorem`, `StopsTheorem` of `ListingSweep`. The pacer's next slot lies past every
  slot it has given, by the spacing of the time. What a sweep has come to is answered for,
  what is ahead is not, and the failures in a row it counts are the last of its batches.
* `ServicesProofs`, mails, unread count and prices: `MailedTheorem`, `TableTheorem`,
  `RecentTheorem`, `PairTheorem`, `TellTheorem`. A row of a failed mail is in step with its job
  unless the job is `unlogged`: the worker died after recording and before the try was
  counted, or the job stalled out. The last reader of the alerts is told of every move of
  the Buy Box from us or to us, unless it lapsed to nobody.
* `ServicesProofs`, `DutyBook`: `DutiesTheorem`. What a request has found of the department
  and of the one who is to do the work still is so, or the request is void, which its own
  commit then tells (`OrderOK`); a copy is void from the start if what it copies has the
  mismatch.
* `ServicesProofs`, `Organization`: `SupervisorsTheorem`, `SavesTheorem`. A request has seen
  everyone active whom it makes a supervisor, and has counted no reports of one who loses
  the role (`ChartInv`). The chart of a save closes no loop because a loop of the result
  either has no line of the batch, and was there before, or has one that would be above
  itself (`NoLoopCloses`, `Around`); the team stays because a way up that never left it
  would be a loop: people who all report to one another have a smallest such set
  (`TeamStays`, `SomebodyLoops`).
* `ServicesProofs`, `TimeDays`: `DayTheorem`. A save whose day nobody has written since has
  the readings it checked by (`ReadingsOK`), and if nobody has inserted entries since its
  deletion began, the rows that are left after it are the ones it keeps (`SavingOK`).
* `ServicesProofs`, `BusinessClock`: `ClockTheorem`. The date of a moment is found back from
  either guess of the offset (`FromDate`), dates rise with the moments (`DatesRise`), so
  that a daily run has one moment a day and the windows join. `ZoneAssumption` says what
  `business-time.ts:65-68` says of the zones in use: the clock goes an hour forward and
  back, both in the small hours of the local day, not within two days of one another. The
  runs have a zone on either side of UTC that does.

Only model-checked, and why:

* the liveness properties `DueIsMade` and `AllHandled`: neither liveness nor `ENABLED` is
  in the prover's reach;
* `NoDrift` of schedules with chosen weekdays: the dates are filtered and joined sequences,
  whose library definitions take operators and recursion, and a fact about them for every
  length needs an induction over data that the provers cannot instantiate;
* the three violations, which are counterexamples.

Two definitions have the form they have so that they can be reasoned about, with the same
meaning: `Upward` of `Organization` is the least set that is closed under "reports to", not
a walk of so many steps; `FirstOf` of `Schedule` is the formula of the calendar, not a sum
over the months.

## 5. Disagreements between the code and what it says

* **ParentHistory.** `clearParent` reads the parent, then writes null and logs the parent
  it read, without the lock: a `setParent` that commits in between is undone, and the
  history names a parent that was never removed.
* **LateRelative.** The fine clock does not look for relative task recurrences, which a
  comment says "wake on completion". Nothing wakes the scheduler on completion; such an
  occurrence waits for the ceiling, and the lateness is then reported as an error of the
  next-wake computation.
* **GoalRace.** Every operation on a goal writes by id after a check in an earlier
  statement. Two at once skip or undo a stage; the shortest case deletes a goal that
  has just been submitted.

Noted while reading, and reflected in the conditions of properties rather than in runs
of their own:

* The measurement after a pass "must be zero BY CONSTRUCTION"
  (`scheduler.service.ts:326-329`) but reads what users did during the pass: a completion
  or a resumed series makes it report a swallowed failure to all administrators.
  `AlarmMeansTrouble` is what does hold.
* `docs/architecture.md` says that the notes of a goal are "editable throughout the
  goal's life (until Resolved)", but no operation edits them while it is pending or under
  review.
* A task created in Review goes, once reviewed, to Open with no assignee. A recall that
  began in an earlier review restores what that one began from. Two edits at once can
  pass the checks of the terminal statuses that each alone would fail.
* A catalog answer that lacks a listing leaves its fields unfilled, and the listing
  counts as complete.
* A worker that dies after it has written `retrying` and before the queue counts the try
  leaves that row for good when the next try succeeds, against "gone once a try succeeds"
  (`failed-email.recorder.ts:26`). And a job that stalls a second time is failed by the queue
  without the processor, so that nothing records it: its row goes on saying `retrying`, or
  there is none, against "`failed` once it has no tries left" (`:25-26`). `TableTells` has
  these exceptions (`unlogged`).
* "so a mark-read is never masked" (`notification.service.ts:252-253`) does not hold for
  a count that was read before the change and stored after the memo was dropped; it is
  masked for the life of the memo. And not every "mutation that
  can change a user's own count" drops it (`unread-cache.ts:12-14`): a change of a task removes
  its author's reminders (`reminder.service.ts:226`), and preferences switch categories off
  (`notification-preference.service.ts:73`), without. `ServedIsRecent` has these exceptions.
* A Buy Box that goes from us to nobody (suppressed), and from there to a rival, fires no
  alert: each check compares with the row of the last one only
  (`alert-detection.ts:64,73-78`). Who follows the alerts believes it is ours until it is
  again. `AlertsTell` has that exception (`lapsed`) and no other.
* An alert task for a group that is gone by then is refused
  (`template-instantiation.service.ts:136-140`).
* "this trigger guarantees the invariant even against direct SQL / future code paths"
  (`migration.sql:2-4` of `20260724000100_supervisor_role_check`): the trigger looks at
  the row that is written, and a demotion writes the supervisor's. One that has counted
  no reports before a report is added leaves a Member as supervisor, and every later
  write of the report's row is refused. A merge whose survivor becomes a Member passes the
  count, which leaves out both accounts, and is then refused by the trigger.
* The loop check is only in the Organization screen's save. The Users screen and merges
  have none, and two batches that are fine alone can close a loop together.
* "A key already on an attachment row is somebody's live file" (`attachment.service.ts:210`)
  and must not get into the list of what a failed post removes. It does when the same post
  is sent twice at once: both pass that check, one commits, the unique key refuses the
  other, and its cleanup deletes the objects of the comment that stands. "A comment must
  always carry text or files" (`attachment.service.ts:375`) fails when the last two files of
  one without text are deleted at once, as neither count sees the other's deletion.
  `ThreadHolds` has these two exceptions. Text or a file that is added after the last file
  was read, or counted, goes with the comment.
* The rule of duties is checked before the write: an edit of the duty and one of the
  assignee at once, or a duty taken away in between, leave a mismatch. A node that is
  edited between the check of an instantiation and its generation gives it a duty nobody
  has checked, against "a manual instantiation was already checked"
  (`template-instantiation.service.ts:268`). A task of nobody that is sent to review is
  flagged for its reviewer, against "the reviewer is exempt" (`duty-check.service.ts:72`),
  because `isDutyMismatch` falls back to the assignee; and `notifyDutyMismatches` reads no
  prior assignee, so that it asks about the reviewer when the task is in review by then. "A
  copy keeps its duty (an existing mismatch stays flagged)" (`task.service.ts:837`), but a
  copy also makes one: that of a task in Review is Open, and its doer is the reviewer, who
  need not hold the duty, and of which nobody is told. A
  duty that is created or restored by a request that read the department before it was
  archived is active under an archived department. `DutiesHold` has these exceptions.
* "Reopening is the only way to edit a completed day again" (`time.service.ts:243`): a
  save that read the day open and commits after it was completed in another window
  writes its entries and reopens it. Two saves at once can leave more than 24 hours, also when
  the second deletes after the first has committed, if its deletion began before and had
  to wait: it does not see the rows the first has inserted, so that they stay, and it may
  delete the row of the day under them (`time.service.ts:217-219`, `:233-235`). A
  reopening that counted no entries deletes the row of a day that has some by then. A
  merge of two accounts caps the minutes of a duty, not of the day.

## 6. What is left out of the modules

* Deleting the root task of the latest occurrence of a relative *template* leaves its
  row, with no task, and the series stops for good. The code treats that as "not
  completed"; `DueIsMade` and the measurement agree, and neither claims otherwise.
* Deleting a generated copy frees its place, and the next pass makes it again, with its
  old date: it counts as lateness of the scheduler, and in the model as trouble.
* `duplicateTask` reads ids and rows in two statements. A task moved in between can be
  cloned before its parent and loses it; the model does so, and only acyclicity is asked.
* A heartbeat during a pass finds the timer disarmed and calls the scheduler down. The
  model does the same; only the number of mails is a property.
* `stopScheduler`, and a second `startScheduler` during the first pass: `server.ts`
  calls each once.
* What happens in `Occurrences` after the commit of a generated occurrence: attachments,
  notifications, the assignees carried forward and the relinking of copies. The duty
  warnings are in `DutyBook`.
* In `Occurrences` dates are steps of one length; the calendar is in `Schedule`, which has
  dates without hours, series that count up to `MaxSeq` (the caps of the walks are far
  beyond it), deletions for series of templates too, and no relative series. A series
  that has more overdue occurrences than the preview shows is not woken for.
* `BusinessClock` counts in hours: the minutes of the time of the daily run, zones with
  half hours, and a change of the configuration while alerts wait are left out. The last
  millisecond of a date is its last hour.
* Exclusives: one watched field and one alert type stand for all; the baseline rows of two
  overlapping passes count as one; a listing whose comparison throws is like one that is
  skipped; the order of tasks within a maker is any; descriptions and assignees of the
  tasks are left out. `PriceWatch` has a check as one step.
* `TaskReview`: duties, predecessors, the pool of reviewers, tags and tokens may refuse
  any edit; titles, dates and the notifications after the commit are left out.
* Organization: a transaction is one step, so that what commits between the statements of
  one, or between the trigger's reading and its row, is not told apart; profiles, the
  creation of accounts, duties and what a merge moves besides supervisors are left out.
* Comments: mentions and their notifications, sizes and types, the copies of files of
  templates and duplicated tasks, and objects without a row, which stay in the storage when a
  removal fails or a post is never sent.
* Days: the version an editor sends can only refuse a save; the lock of a deleted row is
  modelled, a deadlock the database breaks is a rollback.
* Duties: names and colors, what a time entry keeps from being deleted, whom a template's
  role falls to, and the set-up of alert tasks, which have a duty of their own. One task is
  followed at a time, and after a duplication it is the copy. A merge of two accounts
  (`user.service.ts:526-573`) moves tasks and duties to the one that stays, but not the prior
  assignee of a task in Review; `DutyBook` has no merges.
* Relationships: `Copies` has no request that adds a dependency, as the instance of four
  tasks would have too many states; the proofs have no such bound.
* Mails: the delays between tries, connections and the order of a shutdown.
* Parts with the status `not_modelled` in `PROJECT.json`, each with its reason: reads,
  exports, wiring, sessions and decisions over one reading are not worth a state machine.
  Of the rest of the repository, most is screens, mappers, schemas of inputs, types and
  tests.

## 7. The plan

Done, in the order of what rests on what: relationships, recurrence, the scheduler's
clock, goals; then Exclusives and its client, the review of tasks, reminders and mails, the
chart, the calendar, the days, the comments and the duties; and the proofs of all their
safety properties but one case, above. Left, in this order:

1. **Templates**: editing a template while its occurrences are made and the application
   of an edit to the ones that exist, beyond the duty of a node.
2. **Duties**: merges of accounts, with the prior assignee they leave behind.
3. Proofs: the dates of chosen weekdays.

The runs are kept to a dozen: as modules are added, instances of one module are merged
where one state space can answer both questions, small modules that share nothing run
side by side, and a violation run is kept only as long as the code behaves that way.
