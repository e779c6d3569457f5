----------------------------- MODULE TaskReview -----------------------------
(***************************************************************************)
(* The life of one task: edits, the way into Review and back, and the      *)
(* reminders people have on it. A request reads the task, decides, and     *)
(* writes the fields it changes in a transaction that looks at nothing     *)
(* again: other requests commit in between. Leaving Review reads it twice. *)
(***************************************************************************)
EXTENDS Naturals, FiniteSets

CONSTANTS
    Person, Admin,
    Above,      \* <<p, q>>: p is a supervisor of q, at any level
    Status,     \* of the six statuses, the ones a run tells apart
    Reminded,   \* the ones with a reminder
    Forms,      \* the sets of fields the requests change
    Editor,     \* the requests that may be under way at once
    Nobody, Keep,
    MaxRaced    \* a bound of the runs

ASSUME ReviewAssumption ==
    /\ Admin \cup Reminded \subseteq Person /\ Above \subseteq Person \X Person
    /\ Nobody \notin Person /\ Keep \notin Person \cup Status \cup {Nobody}
    /\ {"Open", "Review"} \subseteq Status
    /\ Status \subseteq {"Open", "InProgress", "OnHold", "Review", "Completed", "Canceled"}

VARIABLES
    task,
    logged,     \* where its history leads to
    before,     \* what Review began from
    edit,       \* the requests
    alarms,     \* each person's reminder: live, or a notice that it was canceled
    raced       \* the fields of which a commit went by a reading that was old

tasks == <<task, logged, before, edit, alarms, raced>>

Terminal == {"Completed", "Canceled"}
Field == {"status", "assignee", "start"}

NoReview == [initiator |-> Nobody, assignee |-> Nobody, status |-> "Open"]
Created == [status |-> "Open", assignee |-> Nobody]
NoEdit == [pc |-> "idle"]

\* createTask: with any status, Review included, for which it records nothing.
TaskInit ==
    /\ task \in [status : Status, assignee : Person, start : BOOLEAN, review : {NoReview}]
    /\ logged = [f \in {"status", "assignee"} |-> task[f]]
    /\ before = Created
    /\ edit = [r \in Editor |-> NoEdit]
    /\ alarms = [p \in Reminded |-> "none"]
    /\ raced = {}

-----------------------------------------------------------------------------
Supervises(p, q) == <<p, q>> \in Above

\* computeTaskAccess, as far as editing needs it.
FullAccess(p) == p \in Admin \/ p = task.assignee \/ Supervises(p, task.assignee)

\* getReviewerCandidateIds
ReviewerPool == Admin \cup {p \in Person : Supervises(p, task.assignee)}

Entering(t, in) == in.status = "Review" /\ t.status # "Review"

\* What may be asked of the task as it is read. A request for Review names a reviewer,
\* who becomes the assignee. Duties, predecessors, the pool of assignees and the token of
\* the client may refuse it as well.
Edits ==
    {in \in [status : Status \cup {Keep}, assignee : Person \cup {Nobody, Keep},
             start : {"set", "clear", Keep}] :
        /\ in.status # task.status /\ in.assignee # task.assignee
        /\ in.start = (IF task.start THEN "clear" ELSE "set") \/ in.start = Keep
        /\ {f \in Field : in[f] # Keep} \ (IF Entering(task, in) THEN {"assignee"} ELSE {})
              \in Forms
        /\ task.status \in Terminal =>
              in.assignee \in {Keep, task.assignee} /\ ~Entering(task, in)
        /\ task.status = "Review" =>
              in.status \in {Keep, "Review"} /\ in.assignee \in {Keep, task.assignee}
        /\ Entering(task, in) => in.assignee \in ReviewerPool}

\* updateTask, up to its transaction.
ReadForEdit(r, p) ==
    /\ edit[r].pc = "idle" /\ FullAccess(p)
    /\ \E in \in Edits :
         edit' = [edit EXCEPT ![r] = [pc |-> "write", who |-> p, exit |-> FALSE,
                                      in |-> in, old |-> task, seen |-> {task}]]
    /\ UNCHANGED <<task, logged, before, alarms, raced>>

\* Mutant of Restored: the status is restored, the assignee stays.
RestoredStatus == [status |-> task.review.status, assignee |-> Keep, start |-> Keep]

\* What exitReview asks updateTask for: the status and the assignee before.
Restored == [status |-> task.review.status, assignee |-> task.review.assignee, start |-> Keep]

\* exitReview: Reviewed, or Recall from Review.
ReadForExit(r, p) ==
    /\ edit[r].pc = "idle" /\ task.status = "Review"
    /\ FullAccess(p) \/ p \in {task.review.initiator, task.review.assignee}
    /\ edit' = [edit EXCEPT ![r] = [pc |-> "exit", who |-> p, exit |-> TRUE,
                                    in |-> Restored, old |-> task, seen |-> {task}]]
    /\ UNCHANGED <<task, logged, before, alarms, raced>>

\* updateTask reads the task again, and checks nothing.
ReadAgain(r) ==
    /\ edit[r].pc = "exit"
    /\ edit' = [edit EXCEPT ![r].pc = "write", ![r].old = task, ![r].seen = @ \cup {task}]
    /\ UNCHANGED <<task, logged, before, alarms, raced>>

-----------------------------------------------------------------------------
Written(in, f, now) == IF in[f] = Keep THEN now ELSE in[f]
Start(in, now) == IF in.start = Keep THEN now ELSE in.start = "set"

\* Recorded on the way in, cleared on the way out.
ReviewData(e) ==
    IF Entering(e.old, e.in)
    THEN [initiator |-> e.who, assignee |-> e.old.assignee, status |-> e.old.status]
    ELSE IF e.exit /\ e.old.status = "Review" THEN NoReview ELSE task.review

\* Mutant of RemovesReminders: only when the task is canceled.
RemovesOnCancel(e) == e.in.status = "Canceled" /\ e.old.status # "Canceled"

\* reminderRemovalReason
RemovesReminders(e) ==
    \/ e.in.status = "Canceled" /\ e.old.status # "Canceled"
    \/ e.in.start = "clear" /\ e.old.start

\* applyReminderRemovalOnTaskChange: the actor's own is deleted, others get a notice.
AfterRemoval(e) ==
    [p \in Reminded |->
        IF ~RemovesReminders(e) \/ alarms[p] = "none" THEN alarms[p]
        ELSE IF p = e.who THEN "none" ELSE "canceled"]

\* Mutant of LogEntries: what was asked for is logged, changed or not.
LogAsked(e) == [f \in {"status", "assignee"} |-> IF e.exit THEN logged[f] ELSE Written(e.in, f, logged[f])]

\* buildTaskFieldEntries: from what was read to what is to be.
LogEntries(e) ==
    [f \in {"status", "assignee"} |->
        IF Written(e.in, f, e.old[f]) = e.old[f] THEN logged[f] ELSE e.in[f]]

\* The fields written on a reading that is no longer true: another value of the field,
\* or, on the way out, another review.
Old(e) ==
    {f \in Field : e.in[f] # Keep /\ \E t \in e.seen :
        t[f] # task[f] \/ (e.exit /\ t.review # task.review)}

\* The transaction of updateTask.
CommitEdit(r) ==
    LET e == edit[r]
    IN  /\ e.pc = "write"
        /\ task' = [status |-> Written(e.in, "status", task.status),
                    assignee |-> Written(e.in, "assignee", task.assignee),
                    start |-> Start(e.in, task.start), review |-> ReviewData(e)]
        /\ logged' = LogEntries(e)
        /\ before' = IF Entering(task, e.in)
                     THEN [status |-> task.status, assignee |-> task.assignee]
                     ELSE IF task'.status = "Review" THEN before ELSE Created
        /\ alarms' = AfterRemoval(e)
        /\ raced' = raced \cup Old(e) /\ Cardinality(raced') <= MaxRaced
        /\ edit' = [edit EXCEPT ![r] = NoEdit]

\* Refused, or failed before the commit.
GiveUpEdit(r) ==
    /\ edit[r].pc # "idle" /\ edit' = [edit EXCEPT ![r] = NoEdit]
    /\ UNCHANGED <<task, logged, before, alarms, raced>>

-----------------------------------------------------------------------------
(* Reminders. Whether the start has passed, and who may see the task, may  *)
(* refuse one as well.                                                     *)

\* addReminder reads the task, ...
ReadForReminder(r, p) ==
    /\ edit[r].pc = "idle" /\ p \in Reminded /\ alarms[p] = "none"
    /\ task.status # "Canceled" /\ task.start
    /\ edit' = [edit EXCEPT ![r] = [pc |-> "remind", who |-> p, seen |-> {task}]]
    /\ UNCHANGED <<task, logged, before, alarms, raced>>

\* ... and creates the row.
CreateReminder(r) ==
    /\ edit[r].pc = "remind"
    /\ alarms' = [alarms EXCEPT ![edit[r].who] = "live"]
    /\ raced' = raced \cup {f \in {"status", "start"} : \E t \in edit[r].seen : t[f] # task[f]}
    /\ Cardinality(raced') <= MaxRaced
    /\ edit' = [edit EXCEPT ![r] = NoEdit]
    /\ UNCHANGED <<task, logged, before>>

RemoveReminder(p) ==
    /\ alarms[p] # "none" /\ alarms' = [alarms EXCEPT ![p] = "none"]
    /\ UNCHANGED <<task, logged, before, edit, raced>>

-----------------------------------------------------------------------------
TaskNext ==
    \/ \E r \in Editor :
         \/ \E p \in Person : ReadForEdit(r, p) \/ ReadForExit(r, p) \/ ReadForReminder(r, p)
         \/ ReadAgain(r) \/ CommitEdit(r) \/ GiveUpEdit(r) \/ CreateReminder(r)
    \/ \E p \in Reminded : RemoveReminder(p)

TaskSpec == TaskInit /\ [][TaskNext]_tasks

\* "Reviewed and Recall restore" what the task was when it went into Review: as long as
\* no commit went by an old status or assignee, it leaves Review to exactly that status
\* and assignee, whatever was edited meanwhile and whoever ends the review, and though
\* it is read twice on the way out. (One that was created in Review has nobody to go
\* back to, and ends up without an assignee.)
ReviewRestores ==
    [][raced' \cap {"status", "assignee"} = {} /\ task.status = "Review" /\ task'.status # "Review"
         => [status |-> task'.status, assignee |-> task'.assignee] = before]_tasks

\* The history leads to the status and the assignee the task has, unless that very field
\* was written on an old reading: requests that change other fields never disturb it.
HistoryTells == \A f \in {"status", "assignee"} \ raced : logged[f] = task[f]

\* A reminder is live only on a task that has a start and is not canceled, whatever way
\* the task takes, unless a status or a start was old when it was used.
LiveReminderFits ==
    raced \cap {"status", "start"} = {} =>
        \A p \in Reminded : alarms[p] = "live" => task.start /\ task.status # "Canceled"
=============================================================================
