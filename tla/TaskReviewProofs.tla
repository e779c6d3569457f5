-------------------------- MODULE TaskReviewProofs --------------------------
(***************************************************************************)
(* Proofs about one task. TaskReview: what a request has read and asks for *)
(* does not change until it commits (EditOK); the commit then relates it   *)
(* to the task as it is by the fields that count as old. CommentFiles: the *)
(* files of a comment on its way are nobody else's, and a comment without  *)
(* text keeps one that no deletion has counted out.                        *)
(***************************************************************************)
EXTENDS TaskReview, CommentFiles, TLAPS

Someone == Person \cup {Nobody}

ReviewRecord == [initiator : Someone, assignee : Someone, status : Status \ {"Review"}]
TaskRecord == [status : Status, assignee : Someone, start : BOOLEAN, review : ReviewRecord]
Request ==
    [status : Status \cup {Keep}, assignee : Person \cup {Nobody, Keep},
     start : {"set", "clear", Keep}]

WriteRecord ==
    [pc : {"write", "exit"}, who : Person, exit : BOOLEAN, in : Request, old : TaskRecord,
     seen : SUBSET TaskRecord]
RemindRecord == [pc : {"remind"}, who : Reminded, seen : SUBSET TaskRecord]

\* A request asks for what the task as it was read allows.
EditOK(e) ==
    \/ e = NoEdit
    \/ /\ e \in WriteRecord /\ e.old \in e.seen
       /\ e.pc = "exit" => e.exit
       /\ e.exit => \E t \in e.seen :
             /\ t.status = "Review"
             /\ e.in.status = t.review.status /\ e.in.assignee = t.review.assignee
             /\ e.in.start = Keep
       /\ ~e.exit /\ e.old.status = "Review" => e.in.status \in {Keep, "Review"}
       /\ ~e.exit /\ Entering(e.old, e.in) => e.in.assignee \in Person
    \/ /\ e \in RemindRecord
       /\ \E t \in e.seen : t.start /\ t.status # "Canceled"

TaskTypes ==
    /\ task \in TaskRecord /\ logged \in [{"status", "assignee"} -> Person \cup Status \cup {Nobody}]
    /\ alarms \in [Reminded -> {"none", "live", "canceled"}]
    /\ DOMAIN edit = Editor /\ edit = [r \in Editor |-> edit[r]]

EditsOK == \A r \in Editor : EditOK(edit[r])

\* What Review began from is what the task remembers of it.
BeforeOK ==
    task.status = "Review" /\ raced \cap {"status", "assignee"} = {} =>
        before = [status |-> task.review.status, assignee |-> task.review.assignee]

TaskInv == TaskTypes /\ EditsOK /\ BeforeOK /\ HistoryTells /\ LiveReminderFits

LEMMA TaskInitInv == TaskInit => TaskInv
<1> USE ReviewAssumption
<1> SUFFICES ASSUME TaskInit PROVE TaskInv
  OBVIOUS
<1>1. NoReview \in ReviewRecord /\ NoReview.status = "Open" /\ NoReview.assignee = Nobody
  BY DEF NoReview, ReviewRecord, Someone
<1>2. /\ task \in TaskRecord /\ task.review = NoReview /\ task.assignee \in Person
      /\ task.status \in Status
  BY <1>1 DEF TaskInit, TaskRecord, Someone
<1>3. TaskTypes
  <2>1. logged \in [{"status", "assignee"} -> Person \cup Status \cup {Nobody}]
    BY <1>2 DEF TaskInit
  <2> QED
    BY <1>2, <2>1 DEF TaskInit, TaskTypes
<1>4. EditsOK /\ HistoryTells /\ LiveReminderFits
  BY DEF TaskInit, EditsOK, EditOK, HistoryTells, LiveReminderFits
<1>5. BeforeOK
  BY <1>1, <1>2 DEF TaskInit, BeforeOK, Created
<1> QED
  BY <1>3, <1>4, <1>5 DEF TaskInv

\* A request that reads, or ends without writing.
LEMMA EditStep ==
    ASSUME TaskInv, NEW r \in Editor, NEW q, EditOK(q), edit' = [edit EXCEPT ![r] = q],
           UNCHANGED <<task, logged, before, alarms, raced>>
    PROVE  TaskInv'
<1>1. DOMAIN edit = Editor /\ edit = [s \in Editor |-> edit[s]]
  BY DEF TaskInv, TaskTypes
<1>2. \A s \in Editor : edit'[s] = IF s = r THEN q ELSE edit[s]
  BY <1>1
<1>3. TaskTypes'
  BY <1>1 DEF TaskInv, TaskTypes
<1>4. EditsOK'
  BY <1>2 DEF TaskInv, EditsOK
<1>5. BeforeOK' /\ HistoryTells' /\ LiveReminderFits'
  BY DEF TaskInv, BeforeOK, HistoryTells, LiveReminderFits
<1> QED
  BY <1>3, <1>4, <1>5 DEF TaskInv

LEMMA ReadSteps ==
    ASSUME TaskInv, NEW r \in Editor, NEW p \in Person,
           ReadForEdit(r, p) \/ ReadForExit(r, p) \/ ReadForReminder(r, p)
    PROVE  TaskInv'
<1> USE ReviewAssumption
<1>1. task \in TaskRecord
  BY DEF TaskInv, TaskTypes
<1>2. UNCHANGED <<task, logged, before, alarms, raced>>
  BY DEF ReadForEdit, ReadForExit, ReadForReminder
<1>3. CASE ReadForEdit(r, p)
  <2>1. PICK in \in Edits :
            edit' = [edit EXCEPT ![r] = [pc |-> "write", who |-> p, exit |-> FALSE,
                                         in |-> in, old |-> task, seen |-> {task}]]
    BY <1>3 DEF ReadForEdit
  <2> DEFINE q == [pc |-> "write", who |-> p, exit |-> FALSE, in |-> in, old |-> task,
                   seen |-> {task}]
  <2>2. /\ in \in Request
        /\ task.status = "Review" => in.status \in {Keep, "Review"}
        /\ Entering(task, in) => in.assignee \in ReviewerPool
    BY DEF Edits, Request
  <2>3. ReviewerPool \subseteq Person
    BY DEF ReviewerPool
  <2>4. /\ q \in WriteRecord /\ q.old \in q.seen /\ q.pc = "write" /\ q.exit = FALSE /\ q.old = task
        /\ q.in = in
    BY <1>1, <2>2 DEF WriteRecord
  <2>5. edit' = [edit EXCEPT ![r] = q]
    BY <2>1
  <2> HIDE DEF q
  <2>6. EditOK(q)
    BY <2>2, <2>3, <2>4 DEF EditOK
  <2> QED
    BY <1>2, <2>5, <2>6, EditStep
<1>4. CASE ReadForExit(r, p)
  <2> DEFINE q == [pc |-> "exit", who |-> p, exit |-> TRUE, in |-> Restored, old |-> task,
                   seen |-> {task}]
  <2>1. /\ Restored \in Request /\ Restored.status = task.review.status
        /\ Restored.assignee = task.review.assignee /\ Restored.start = Keep
    BY <1>1 DEF Restored, Request, TaskRecord, ReviewRecord, Someone
  <2>2. /\ q \in WriteRecord /\ q.old \in q.seen /\ q.pc = "exit" /\ q.exit = TRUE
        /\ q.in = Restored /\ task \in q.seen
    BY <1>1, <2>1 DEF WriteRecord
  <2>3. edit' = [edit EXCEPT ![r] = q] /\ task.status = "Review"
    BY <1>4 DEF ReadForExit
  <2> HIDE DEF q
  <2>4. EditOK(q)
    BY <2>1, <2>2, <2>3 DEF EditOK
  <2> QED
    BY <1>2, <2>3, <2>4, EditStep
<1>5. CASE ReadForReminder(r, p)
  <2> DEFINE q == [pc |-> "remind", who |-> p, seen |-> {task}]
  <2>1. q \in RemindRecord /\ task \in q.seen
    BY <1>1, <1>5 DEF RemindRecord, ReadForReminder
  <2>2. edit' = [edit EXCEPT ![r] = q] /\ task.start /\ task.status # "Canceled"
    BY <1>5 DEF ReadForReminder
  <2> HIDE DEF q
  <2>3. EditOK(q)
    BY <2>1, <2>2 DEF EditOK
  <2> QED
    BY <1>2, <2>2, <2>3, EditStep
<1> QED
  BY <1>3, <1>4, <1>5

LEMMA AgainSteps ==
    ASSUME TaskInv, NEW r \in Editor, ReadAgain(r) \/ GiveUpEdit(r)
    PROVE  TaskInv'
<1>1. task \in TaskRecord /\ EditOK(edit[r])
  BY DEF TaskInv, TaskTypes, EditsOK
<1>2. CASE ReadAgain(r)
  <2> DEFINE e == edit[r]
             q == [e EXCEPT !.pc = "write", !.old = task, !.seen = @ \cup {task}]
  <2>1. e.pc = "exit" /\ edit' = [edit EXCEPT ![r] = q] /\ UNCHANGED <<task, logged, before, alarms, raced>>
    BY <1>2 DEF ReadAgain, TaskInv, TaskTypes
  <2>2. e \in WriteRecord /\ e.exit /\ EditOK(e)
    BY <1>1, <2>1 DEF EditOK, NoEdit, RemindRecord
  <2>3. PICK t \in e.seen : /\ t.status = "Review"
                            /\ e.in.status = t.review.status /\ e.in.assignee = t.review.assignee
                            /\ e.in.start = Keep
    BY <2>1, <2>2 DEF EditOK, NoEdit, RemindRecord
  <2>4. /\ q \in WriteRecord /\ q.old \in q.seen /\ t \in q.seen /\ q.exit = e.exit
        /\ q.in = e.in /\ q.pc = "write"
    BY <1>1, <2>2 DEF WriteRecord
  <2> HIDE DEF q
  <2>5. EditOK(q)
    BY <2>2, <2>3, <2>4 DEF EditOK
  <2> QED
    BY <2>1, <2>5, EditStep
<1>3. CASE GiveUpEdit(r)
  BY <1>3, EditStep DEF GiveUpEdit, EditOK
<1> QED
  BY <1>2, <1>3

-----------------------------------------------------------------------------
(* The commit.                                                             *)

\* What is written on a reading that is still true.
LEMMA FreshField ==
    ASSUME NEW e, NEW f \in Field, f \notin Old(e), e.in[f] # Keep
    PROVE  \A t \in e.seen : t[f] = task[f] /\ (e.exit => t.review = task.review)
BY DEF Old

\* A commit, and what it writes.
LEMMA CommitFacts ==
    ASSUME TaskInv, NEW r \in Editor, CommitEdit(r), NEW e, e = edit[r]
    PROVE  /\ e \in WriteRecord /\ EditOK(e) /\ e.old \in e.seen
           /\ e.in \in Request /\ e.old \in TaskRecord /\ task \in TaskRecord /\ e.who \in Person
           /\ task' = [status |-> Written(e.in, "status", task.status),
                       assignee |-> Written(e.in, "assignee", task.assignee),
                       start |-> Start(e.in, task.start), review |-> ReviewData(e)]
           /\ logged' = LogEntries(e) /\ alarms' = AfterRemoval(e) /\ raced' = raced \cup Old(e)
           /\ before' = IF Entering(task, e.in)
                        THEN [status |-> task.status, assignee |-> task.assignee]
                        ELSE IF task'.status = "Review" THEN before ELSE Created
           /\ edit' = [edit EXCEPT ![r] = NoEdit]
<1>1. EditOK(e) /\ e.pc = "write" /\ task \in TaskRecord
  BY DEF TaskInv, TaskTypes, EditsOK, CommitEdit
<1>2. e \in WriteRecord /\ e.old \in e.seen
  BY <1>1 DEF EditOK, NoEdit, RemindRecord
<1>3. e.in \in Request /\ e.old \in TaskRecord /\ e.who \in Person
  BY <1>2 DEF WriteRecord
<1> QED
  BY <1>1, <1>2, <1>3 DEF CommitEdit

\* The way out of Review asks for what the task remembers.
LEMMA ExitFacts ==
    ASSUME TaskInv, NEW e \in WriteRecord, EditOK(e), e.exit
    PROVE  \E t \in e.seen : /\ t \in TaskRecord /\ t.status = "Review"
                             /\ e.in.status = t.review.status /\ e.in.assignee = t.review.assignee
                             /\ e.in.start = Keep
BY DEF EditOK, NoEdit, RemindRecord, WriteRecord

LEMMA CommitTypes ==
    ASSUME TaskInv, NEW r \in Editor, CommitEdit(r)
    PROVE  TaskTypes' /\ EditsOK'
<1> USE ReviewAssumption
<1> DEFINE e == edit[r]
<1>1. /\ e \in WriteRecord /\ EditOK(e) /\ e.in \in Request /\ e.old \in TaskRecord
      /\ task \in TaskRecord /\ e.who \in Person
      /\ task' = [status |-> Written(e.in, "status", task.status),
                  assignee |-> Written(e.in, "assignee", task.assignee),
                  start |-> Start(e.in, task.start), review |-> ReviewData(e)]
      /\ logged' = LogEntries(e) /\ alarms' = AfterRemoval(e)
      /\ edit' = [edit EXCEPT ![r] = NoEdit]
  BY CommitFacts
<1> HIDE DEF e
<1>2. Written(e.in, "status", task.status) \in Status
  BY <1>1 DEF Written, Request, TaskRecord
<1>3. Written(e.in, "assignee", task.assignee) \in Someone
  BY <1>1 DEF Written, Request, TaskRecord, Someone
<1>4. Start(e.in, task.start) \in BOOLEAN
  BY <1>1 DEF Start, TaskRecord
<1>5. ReviewData(e) \in ReviewRecord
  <2>1. NoReview \in ReviewRecord /\ task.review \in ReviewRecord
    BY <1>1 DEF NoReview, ReviewRecord, Someone, TaskRecord
  <2>2. Entering(e.old, e.in) =>
           [initiator |-> e.who, assignee |-> e.old.assignee, status |-> e.old.status] \in ReviewRecord
    BY <1>1 DEF Entering, TaskRecord, ReviewRecord, Someone
  <2> QED
    BY <2>1, <2>2 DEF ReviewData
<1>6. task' \in TaskRecord
  BY <1>1, <1>2, <1>3, <1>4, <1>5 DEF TaskRecord
<1>7. logged' \in [{"status", "assignee"} -> Person \cup Status \cup {Nobody}]
  <2>1. ASSUME NEW f \in {"status", "assignee"}, Written(e.in, f, e.old[f]) # e.old[f]
        PROVE  e.in[f] \in Person \cup Status \cup {Nobody}
    <3>1. e.in[f] # Keep
      BY <2>1 DEF Written
    <3> QED
      BY <1>1, <3>1 DEF Request
  <2> QED
    BY <1>1, <2>1 DEF LogEntries, TaskInv, TaskTypes
<1>8. alarms' \in [Reminded -> {"none", "live", "canceled"}]
  BY <1>1 DEF AfterRemoval, TaskInv, TaskTypes
<1>9. edit' = [s \in Editor |-> edit'[s]] /\ DOMAIN edit' = Editor
      /\ \A s \in Editor : edit'[s] = IF s = r THEN NoEdit ELSE edit[s]
  BY <1>1 DEF TaskInv, TaskTypes
<1>10. EditsOK'
  BY <1>9 DEF TaskInv, EditsOK, EditOK
<1> QED
  BY <1>6, <1>7, <1>8, <1>9, <1>10 DEF TaskTypes

LEMMA CommitHistory ==
    ASSUME TaskInv, NEW r \in Editor, CommitEdit(r)
    PROVE  HistoryTells'
<1> DEFINE e == edit[r]
<1>1. /\ e \in WriteRecord /\ e.old \in e.seen /\ raced' = raced \cup Old(e)
      /\ task' = [status |-> Written(e.in, "status", task.status),
                  assignee |-> Written(e.in, "assignee", task.assignee),
                  start |-> Start(e.in, task.start), review |-> ReviewData(e)]
      /\ logged' = LogEntries(e)
  BY CommitFacts
<1> HIDE DEF e
<1>2. ASSUME NEW f \in {"status", "assignee"}, f \notin raced'
      PROVE  logged'[f] = task'[f]
  <2>1. f \in Field /\ f \notin Old(e) /\ logged[f] = task[f] /\ task'[f] = Written(e.in, f, task[f])
    BY <1>1, <1>2 DEF Field, TaskInv, HistoryTells
  <2>2. logged'[f] = IF Written(e.in, f, e.old[f]) = e.old[f] THEN logged[f] ELSE e.in[f]
    BY <1>1 DEF LogEntries
  <2>3. CASE e.in[f] = Keep
    BY <2>1, <2>2, <2>3 DEF Written
  <2>4. CASE e.in[f] # Keep
    <3>1. e.old[f] = task[f]
      BY <1>1, <2>1, <2>4, FreshField
    <3> QED
      BY <2>1, <2>2, <2>4, <3>1 DEF Written
  <2> QED
    BY <2>3, <2>4
<1> QED
  BY <1>2 DEF HistoryTells

LEMMA CommitReminders ==
    ASSUME TaskInv, NEW r \in Editor, CommitEdit(r)
    PROVE  LiveReminderFits'
<1> USE ReviewAssumption
<1> DEFINE e == edit[r]
<1>1. /\ e.old \in e.seen /\ e.in \in Request /\ raced' = raced \cup Old(e)
      /\ task' = [status |-> Written(e.in, "status", task.status),
                  assignee |-> Written(e.in, "assignee", task.assignee),
                  start |-> Start(e.in, task.start), review |-> ReviewData(e)]
      /\ alarms' = AfterRemoval(e) /\ e.old \in TaskRecord /\ task \in TaskRecord
  BY CommitFacts
<1> HIDE DEF e
<1> SUFFICES ASSUME raced' \cap {"status", "start"} = {}, NEW p \in Reminded, alarms'[p] = "live"
             PROVE  task'.start /\ task'.status # "Canceled"
  BY DEF LiveReminderFits
<1>2. "status" \notin Old(e) /\ "start" \notin Old(e) /\ raced \cap {"status", "start"} = {}
  BY <1>1
<1>3. ~RemovesReminders(e) /\ alarms[p] = "live"
  BY <1>1 DEF AfterRemoval
<1>4. task.start /\ task.status # "Canceled"
  BY <1>2, <1>3 DEF TaskInv, LiveReminderFits
<1>5. e.in.status # Keep => e.old.status = task.status
  BY <1>1, <1>2, FreshField DEF Field
<1>6. e.in.start # Keep => e.old.start = task.start
  BY <1>1, <1>2, FreshField DEF Field
<1>7. task'.status # "Canceled"
  BY <1>1, <1>3, <1>4, <1>5 DEF Written, RemovesReminders
<1>8. e.in.start \in {"set", "clear", Keep}
  BY <1>1 DEF Request
<1>9. task'.start
  BY <1>1, <1>3, <1>4, <1>6, <1>8 DEF Start, RemovesReminders
<1> QED
  BY <1>7, <1>9

\* While neither a status nor an assignee was old, the review data and what Review began
\* from agree: on the way in both are the task as it was read, and as it is.
LEMMA CommitBefore ==
    ASSUME TaskInv, NEW r \in Editor, CommitEdit(r)
    PROVE  BeforeOK'
<1> USE ReviewAssumption
<1> DEFINE e == edit[r]
<1>1. /\ e \in WriteRecord /\ EditOK(e) /\ e.old \in e.seen /\ raced' = raced \cup Old(e)
      /\ e.in \in Request /\ e.old \in TaskRecord /\ task \in TaskRecord
      /\ task'.status = Written(e.in, "status", task.status) /\ task'.review = ReviewData(e)
      /\ before' = IF Entering(task, e.in)
                   THEN [status |-> task.status, assignee |-> task.assignee]
                   ELSE IF task'.status = "Review" THEN before ELSE Created
  BY CommitFacts
<1> HIDE DEF e
<1> SUFFICES ASSUME task'.status = "Review", raced' \cap {"status", "assignee"} = {}
             PROVE  before' = [status |-> task'.review.status, assignee |-> task'.review.assignee]
  BY DEF BeforeOK
<1>2. "status" \notin Old(e) /\ "assignee" \notin Old(e) /\ raced \cap {"status", "assignee"} = {}
  BY <1>1
<1>3. e.in.status # Keep => e.old.status = task.status
  BY <1>1, <1>2, FreshField DEF Field
<1>4. e.in.assignee # Keep => e.old.assignee = task.assignee
  BY <1>1, <1>2, FreshField DEF Field
<1>5. ~e.exit
  <2> SUFFICES ASSUME e.exit PROVE FALSE
    OBVIOUS
  <2>1. PICK t \in e.seen : t \in TaskRecord /\ e.in.status = t.review.status
    BY <1>1, ExitFacts
  <2>2. e.in.status \in Status \ {"Review"}
    BY <2>1 DEF TaskRecord, ReviewRecord
  <2> QED
    BY <1>1, <2>2 DEF Written
<1>6. CASE Entering(task, e.in)
  <2>1. e.in.status = "Review" /\ task.status # "Review" /\ e.in.status # Keep
    BY <1>6 DEF Entering
  <2>2. Entering(e.old, e.in)
    BY <1>3, <2>1 DEF Entering
  <2>3. e.in.assignee \in Person
    BY <1>1, <1>5, <2>2 DEF EditOK, NoEdit, RemindRecord, WriteRecord
  <2>4. task'.review = [initiator |-> e.who, assignee |-> task.assignee, status |-> task.status]
    BY <1>1, <1>3, <1>4, <2>1, <2>2, <2>3 DEF ReviewData
  <2> QED
    BY <1>1, <1>6, <2>4
<1>7. CASE ~Entering(task, e.in)
  <2>1. task.status = "Review"
    BY <1>1, <1>7 DEF Entering, Written
  <2>2. ~Entering(e.old, e.in)
    BY <1>3, <2>1 DEF Entering
  <2>3. task'.review = task.review /\ before' = before
    BY <1>1, <1>5, <1>7, <2>2 DEF ReviewData
  <2> QED
    BY <1>2, <2>1, <2>3 DEF TaskInv, BeforeOK
<1> QED
  BY <1>6, <1>7

\* The way out, when neither status nor assignee was old.
LEMMA CommitRestores ==
    ASSUME TaskInv, NEW r \in Editor, CommitEdit(r), raced' \cap {"status", "assignee"} = {},
           task.status = "Review", task'.status # "Review"
    PROVE  [status |-> task'.status, assignee |-> task'.assignee] = before
<1> USE ReviewAssumption
<1> DEFINE e == edit[r]
<1>1. /\ e \in WriteRecord /\ EditOK(e) /\ e.old \in e.seen /\ raced' = raced \cup Old(e)
      /\ e.in \in Request /\ task \in TaskRecord
      /\ task'.status = Written(e.in, "status", task.status)
      /\ task'.assignee = Written(e.in, "assignee", task.assignee)
  BY CommitFacts
<1> HIDE DEF e
<1>2. "status" \notin Old(e) /\ e.in.status # Keep /\ e.in.status # "Review"
      /\ raced \cap {"status", "assignee"} = {}
  BY <1>1 DEF Written
<1>3. \A t \in e.seen : t.status = "Review" /\ (e.exit => t.review = task.review)
  BY <1>2, FreshField DEF Field
<1>4. e.exit
  BY <1>1, <1>2, <1>3 DEF EditOK, NoEdit, RemindRecord, WriteRecord
<1>5. PICK t \in e.seen : /\ t \in TaskRecord /\ e.in.status = t.review.status
                          /\ e.in.assignee = t.review.assignee
  BY <1>1, <1>4, ExitFacts
<1>6. /\ e.in.status = task.review.status /\ e.in.assignee = task.review.assignee
      /\ task.review.assignee # Keep
  BY <1>1, <1>3, <1>4, <1>5 DEF TaskRecord, ReviewRecord, Someone
<1>7. before = [status |-> task.review.status, assignee |-> task.review.assignee]
  BY <1>2 DEF TaskInv, BeforeOK
<1> QED
  BY <1>1, <1>2, <1>6, <1>7 DEF Written

-----------------------------------------------------------------------------
(* Reminders, and the whole.                                               *)

\* A reminder that is created on a reading whose status and start are still true fits.
LEMMA CreateKeeps ==
    ASSUME TaskInv, NEW r \in Editor, CreateReminder(r)
    PROVE  TaskInv'
<1> USE ReviewAssumption
<1> DEFINE e == edit[r]
<1>1. /\ e.pc = "remind" /\ EditOK(e)
      /\ alarms' = [alarms EXCEPT ![e.who] = "live"]
      /\ raced' = raced \cup {f \in {"status", "start"} : \E t \in e.seen : t[f] # task[f]}
      /\ edit' = [edit EXCEPT ![r] = NoEdit] /\ UNCHANGED <<task, logged, before>>
  BY DEF CreateReminder, TaskInv, EditsOK
<1> HIDE DEF e
<1>2. PICK t \in e.seen : t.start /\ t.status # "Canceled"
  BY <1>1 DEF EditOK, NoEdit, WriteRecord
<1>3. TaskTypes' /\ EditsOK'
  <2>1. edit' = [s \in Editor |-> edit'[s]] /\ DOMAIN edit' = Editor
        /\ \A s \in Editor : edit'[s] = IF s = r THEN NoEdit ELSE edit[s]
    BY <1>1 DEF TaskInv, TaskTypes
  <2>2. EditsOK'
    BY <2>1 DEF TaskInv, EditsOK, EditOK
  <2>3. TaskTypes'
    BY <1>1, <2>1 DEF TaskInv, TaskTypes
  <2> QED
    BY <2>2, <2>3
<1>4. BeforeOK' /\ HistoryTells'
  BY <1>1 DEF TaskInv, BeforeOK, HistoryTells
<1>5. LiveReminderFits'
  <2> SUFFICES ASSUME raced' \cap {"status", "start"} = {}, NEW p \in Reminded, alarms'[p] = "live"
               PROVE  task.start /\ task.status # "Canceled"
    BY <1>1 DEF LiveReminderFits
  <2>1. raced \cap {"status", "start"} = {} /\ t.status = task.status /\ t.start = task.start
    BY <1>1
  <2> QED
    BY <1>2, <2>1
<1> QED
  BY <1>3, <1>4, <1>5 DEF TaskInv

LEMMA OthersKeep ==
    ASSUME TaskInv, UNCHANGED tasks \/ \E p \in Reminded : RemoveReminder(p)
    PROVE  TaskInv'
<1>1. /\ UNCHANGED <<task, logged, before, edit, raced>>
      /\ alarms' \in [Reminded -> {"none", "live", "canceled"}]
      /\ \A p \in Reminded : alarms'[p] = "live" => alarms[p] = "live"
  BY DEF tasks, RemoveReminder, TaskInv, TaskTypes
<1>2. TaskTypes' /\ EditsOK'
  BY <1>1 DEF TaskInv, TaskTypes, EditsOK
<1>3. BeforeOK' /\ HistoryTells' /\ LiveReminderFits'
  BY <1>1 DEF TaskInv, BeforeOK, HistoryTells, LiveReminderFits
<1> QED
  BY <1>2, <1>3 DEF TaskInv

LEMMA TaskNextInv == TaskInv /\ [TaskNext]_tasks => TaskInv'
<1> SUFFICES ASSUME TaskInv, [TaskNext]_tasks PROVE TaskInv'
  OBVIOUS
<1>1. ASSUME NEW r \in Editor, CommitEdit(r) PROVE TaskInv'
  BY <1>1, CommitTypes, CommitHistory, CommitReminders, CommitBefore DEF TaskInv
<1>2. ASSUME NEW r \in Editor,
             \/ \E p \in Person : ReadForEdit(r, p) \/ ReadForExit(r, p) \/ ReadForReminder(r, p)
             \/ ReadAgain(r) \/ GiveUpEdit(r) \/ CreateReminder(r)
      PROVE  TaskInv'
  BY <1>2, ReadSteps, AgainSteps, CreateKeeps
<1>3. CASE UNCHANGED tasks \/ \E p \in Reminded : RemoveReminder(p)
  BY <1>3, OthersKeep
<1> QED
  BY <1>1, <1>2, <1>3 DEF TaskNext

\* For any people, requests and fields: the history leads to what the task is, but for the
\* fields that were written on an old reading.
THEOREM HistoryTheorem == TaskSpec => []HistoryTells
<1>1. TaskInv => HistoryTells
  BY DEF TaskInv
<1> QED
  BY <1>1, TaskInitInv, TaskNextInv, PTL DEF TaskSpec

\* A live reminder is on a task with a start that is not canceled, but for old readings.
THEOREM ReminderTheorem == TaskSpec => []LiveReminderFits
<1>1. TaskInv => LiveReminderFits
  BY DEF TaskInv
<1> QED
  BY <1>1, TaskInitInv, TaskNextInv, PTL DEF TaskSpec

\* A task leaves Review to the status and the assignee from which it went there.
THEOREM RestoresTheorem == TaskSpec => ReviewRestores
<1>1. ASSUME TaskInv, [TaskNext]_tasks
      PROVE  [raced' \cap {"status", "assignee"} = {} /\ task.status = "Review" /\ task'.status # "Review"
                => [status |-> task'.status, assignee |-> task'.assignee] = before]_tasks
  <2> SUFFICES ASSUME TaskNext, raced' \cap {"status", "assignee"} = {},
                      task.status = "Review", task'.status # "Review"
               PROVE  [status |-> task'.status, assignee |-> task'.assignee] = before
    BY <1>1
  <2>1. task' # task
    OBVIOUS
  <2>2. PICK r \in Editor : CommitEdit(r)
    BY <2>1 DEF TaskNext, ReadForEdit, ReadForExit, ReadForReminder, ReadAgain, GiveUpEdit,
                CreateReminder, RemoveReminder
  <2> QED
    BY <1>1, <2>2, CommitRestores
<1> QED
  BY <1>1, TaskInitInv, TaskNextInv, PTL DEF TaskSpec, ReviewRestores

-----------------------------------------------------------------------------
(* The comments and their files.                                           *)

PostState ==
    [pc : {"idle", "attached", "heads", "write", "discard", "edit", "confirm", "object", "row",
           "count", "close", "last", "purge", "task"},
     files : SUBSET File, note : Note \cup {OnTask, Nowhere}, bare : BOOLEAN]

ThreadTypes ==
    /\ live \in BOOLEAN /\ notes \in [Note -> {"none", "text", "bare", "gone"}]
    /\ filed \in [File -> Note \cup {OnTask, Nowhere}]
    /\ minted \in [File -> Note \cup {OnTask, Nowhere, Draft}]
    /\ bytes \in [File -> {"none", "there", "gone"}] /\ post \in [Poster -> PostState]

\* Files that may be without their object.
Excused == doomed \cup twice

\* A comment on its way: its files are drafts of nobody's, and there when it is written.
PostsDrafts(q) ==
    /\ q.pc \in {"attached", "heads", "write"} /\ q.bare => q.files # {}
    /\ q.pc \in {"attached", "heads", "write", "discard"} => \A k \in q.files : minted[k] = Draft
    /\ q.pc \in {"heads", "write", "discard"} => \A k \in q.files : filed[k] # Nowhere => k \in Excused
    /\ q.pc = "write" => \A k \in q.files : bytes[k] = "there" \/ k \in Excused
    /\ q.pc = "confirm" => \A k \in q.files : minted[k] \notin {Draft, Nowhere}

Dropped == {"count", "close", "last"}

\* A deletion on its way: its files are doomed, still where they were read, and on a
\* comment that is not bare unless it was read as bare.
Deletes(q) ==
    /\ q.pc \in {"object", "row", "count", "close", "last", "purge"} => q.files \subseteq doomed
    /\ q.pc \in Dropped => q.note # Nowhere
    /\ q.pc \in {"object", "row"} \cup Dropped /\ q.note # Nowhere =>
          /\ \A k \in q.files : filed[k] = q.note
          /\ q.note \in Note => notes[q.note] # "none" /\ (notes[q.note] = "bare" => q.bare)

\* Two requests have the same files only if they were posted twice at once, and never
\* the same rows to drop.
Disjoint ==
    \A q, r \in Poster : q # r =>
        /\ Pending(q) \cap Pending(r) \subseteq twice
        /\ post[q].pc \in Dropped /\ post[r].pc \in Dropped => post[q].files \cap post[r].files = {}

\* A bare comment has a file that none of the transactions that counted its files drops.
Carried ==
    \A n \in Note : notes[n] = "bare" /\ n \notin thinned =>
        \E k \in FilesOn(n) : \A q \in Poster : post[q].pc = "close" => k \notin post[q].files

Attached ==
    \A k \in File : filed[k] # Nowhere =>
        /\ minted[k] # Nowhere /\ (filed[k] \in Note => Present(filed[k]))
        /\ minted[k] = Draft /\ bytes[k] # "there" => k \in Excused

\* As long as the task is there; then it has neither comments nor files.
LiveOK ==
    /\ \A q \in Poster : PostsDrafts(post[q]) /\ Deletes(post[q])
    /\ Disjoint /\ Carried /\ Attached

OverOK == (\A n \in Note : ~Present(n)) /\ \A k \in File : filed[k] = Nowhere

ThreadInv == ThreadTypes /\ (live => LiveOK) /\ (~live => OverOK)

-----------------------------------------------------------------------------
\* A request that goes on, with what it had.
Moved(q, to) == [pc |-> to, files |-> q.files, note |-> q.note, bare |-> q.bare]

LEMMA PostFields ==
    ASSUME ThreadTypes, NEW r \in Poster
    PROVE  /\ post[r] \in PostState /\ post[r].files \subseteq File /\ post[r].bare \in BOOLEAN
           /\ post[r].note \in Note \cup {OnTask, Nowhere}
           /\ \A p : (post' = [post EXCEPT ![r] = p]) =>
                 \A q \in Poster : post'[q] = IF q = r THEN p ELSE post[q]
           /\ \A p \in PostState : (post' = [post EXCEPT ![r] = p]) => post' \in [Poster -> PostState]
<1>1. post \in [Poster -> PostState]
  BY DEF ThreadTypes
<1>2. post[r] \in PostState
  BY <1>1
<1> QED
  BY <1>1, <1>2 DEF PostState

LEMMA Proceeds ==
    ASSUME ThreadTypes, NEW r \in Poster, NEW from, NEW to, Proceed(r, from, to)
    PROVE  post[r].pc = from /\ post' = [post EXCEPT ![r] = Moved(post[r], to)]
<1>1. post[r] \in PostState /\ post \in [Poster -> PostState]
  BY PostFields DEF ThreadTypes
<1>2. [post[r] EXCEPT !.pc = to] = Moved(post[r], to)
  BY <1>1 DEF PostState, Moved
<1>3. post[r].pc = from /\ post' = [post EXCEPT ![r] = [post[r] EXCEPT !.pc = to]]
  BY DEF Proceed
<1> QED
  BY <1>2, <1>3

LEMMA Takes ==
    ASSUME ThreadTypes, NEW r \in Poster, NEW pc, NEW F, NEW n, NEW bare, Take(r, pc, F, n, bare)
    PROVE  /\ post[r] = NoPost
           /\ post' = [post EXCEPT ![r] = [pc |-> pc, files |-> F, note |-> n, bare |-> bare]]
BY DEF Take, ThreadTypes

\* The object that is removed, or not, and the file that is left to others.
LEMMA Removes ==
    ASSUME ThreadTypes, NEW r \in Poster, NEW k \in File, RemoveObject(r, k)
    PROVE  /\ k \in post[r].files
           /\ post' = [post EXCEPT ![r] = [pc |-> post[r].pc, files |-> post[r].files \ {k},
                                           note |-> post[r].note, bare |-> post[r].bare]]
           /\ bytes' \in [File -> {"none", "there", "gone"}]
           /\ \A l \in File : l # k => bytes'[l] = bytes[l]
           /\ UNCHANGED <<live, notes, filed, minted, doomed, twice, thinned, posts>>
<1>1. post[r] \in PostState
  BY PostFields
<1>2. [post[r] EXCEPT !.files = @ \ {k}]
        = [pc |-> post[r].pc, files |-> post[r].files \ {k}, note |-> post[r].note, bare |-> post[r].bare]
  BY <1>1 DEF PostState
<1>3. post' = [post EXCEPT ![r] = [post[r] EXCEPT !.files = @ \ {k}]]
  BY DEF RemoveObject
<1>4. bytes' \in [File -> {"none", "there", "gone"}] /\ \A l \in File : l # k => bytes'[l] = bytes[l]
  BY DEF RemoveObject, ThreadTypes
<1> QED
  BY <1>2, <1>3, <1>4 DEF RemoveObject

LEMMA Withouts ==
    ASSUME ThreadTypes, NEW r \in Poster, NEW F, Without(r, F)
    PROVE  /\ filed' \in [File -> Note \cup {OnTask, Nowhere}]
           /\ \A k \in File : filed'[k] = IF k \in F THEN Nowhere ELSE filed[k]
           /\ post' \in [Poster -> PostState] /\ post'[r] = NoPost
           /\ \A q \in Poster \ {r} :
                 /\ post'[q].pc = post[q].pc /\ post'[q].files = post[q].files
                 /\ post'[q].bare = post[q].bare /\ post'[q].note \in {post[q].note, Nowhere}
                 /\ post'[q].note = post[q].note
                       \/ post[q].pc \in {"object", "row"}
                 /\ post[q].pc \in {"object", "row"} /\ post[q].files \cap F # {} =>
                       post'[q].note = Nowhere
<1>1. NoPost \in PostState
  BY DEF NoPost, PostState
<1>2. ASSUME NEW q \in Poster
      PROVE  /\ post[q] \in PostState /\ [post[q] EXCEPT !.note = Nowhere] \in PostState
             /\ [post[q] EXCEPT !.note = Nowhere].pc = post[q].pc
             /\ [post[q] EXCEPT !.note = Nowhere].files = post[q].files
             /\ [post[q] EXCEPT !.note = Nowhere].bare = post[q].bare
             /\ [post[q] EXCEPT !.note = Nowhere].note = Nowhere
  <2>1. post[q] \in PostState
    BY PostFields
  <2> QED
    BY <2>1 DEF PostState
<1>3. filed' \in [File -> Note \cup {OnTask, Nowhere}]
      /\ \A k \in File : filed'[k] = IF k \in F THEN Nowhere ELSE filed[k]
  BY DEF Without, ThreadTypes
<1>4. post' \in [Poster -> PostState] /\ post'[r] = NoPost
  BY <1>1, <1>2 DEF Without
<1>5. \A q \in Poster \ {r} :
        post'[q] = IF post[q].pc \in {"object", "row"} /\ post[q].files \cap F # {}
                   THEN [post[q] EXCEPT !.note = Nowhere] ELSE post[q]
  BY DEF Without
<1> QED
  BY <1>2, <1>3, <1>4, <1>5

\* Types.
LEMMA TypesKept == ThreadTypes /\ [ThreadNext]_thread => ThreadTypes'
<1> SUFFICES ASSUME ThreadTypes, [ThreadNext]_thread PROVE ThreadTypes'
  OBVIOUS
<1>0. NoPost \in PostState
  BY DEF NoPost, PostState
<1>1. CASE UNCHANGED thread
  BY <1>1 DEF thread, ThreadTypes
<1>2. ASSUME NEW k \in File, Stage(k) PROVE ThreadTypes'
  BY <1>2 DEF Stage, Holders, ThreadTypes
<1>3. ASSUME NEW r \in Poster, NEW to \in {"heads", "write", "discard", "row", "count", "close", "last"},
             post' = [post EXCEPT ![r] = Moved(post[r], to)]
      PROVE  post' \in [Poster -> PostState]
  BY <1>3, PostFields DEF Moved, PostState
<1>4. ASSUME NEW r \in Poster, Finish(r) PROVE post' \in [Poster -> PostState]
  BY <1>0, <1>4, PostFields DEF Finish
<1>5. ASSUME NEW r \in Poster, CheckAttached(r) \/ CheckBytes(r) \/ FailNote(r)
      PROVE  ThreadTypes'
  <2>1. \E to \in {"heads", "write", "discard"} : post' = [post EXCEPT ![r] = Moved(post[r], to)]
    BY <1>5, Proceeds DEF CheckAttached, CheckBytes, FailNote
  <2>2. post' \in [Poster -> PostState]
    BY <1>3, <2>1
  <2> QED
    BY <1>5, <2>2 DEF CheckAttached, CheckBytes, FailNote, ThreadTypes
<1>6. ASSUME NEW r \in Poster, DropObject(r) \/ DropRow(r) \/ CountLeft(r) PROVE ThreadTypes'
  <2>1. \E to \in {"row", "count", "close", "last"} : post' = [post EXCEPT ![r] = Moved(post[r], to)]
    <3>1. CASE DropObject(r)
      BY <3>1, Proceeds DEF DropObject
    <3>2. CASE DropRow(r)
      BY <3>2, Proceeds DEF DropRow
    <3>3. CASE CountLeft(r)
      BY <3>3, Proceeds DEF CountLeft
    <3> QED
      BY <1>6, <3>1, <3>2, <3>3
  <2>2. post' \in [Poster -> PostState]
    BY <1>3, <2>1
  <2>3. bytes' \in [File -> {"none", "there", "gone"}] /\ UNCHANGED <<live, notes, filed, minted>>
    BY <1>6 DEF DropObject, DropRow, CountLeft, ThreadTypes
  <2> QED
    BY <2>2, <2>3 DEF ThreadTypes
<1>7. ASSUME NEW r \in Poster, NEW k \in File, RemoveObject(r, k) PROVE ThreadTypes'
  <2> DEFINE p == [pc |-> post[r].pc, files |-> post[r].files \ {k},
                   note |-> post[r].note, bare |-> post[r].bare]
  <2>1. p \in PostState
    BY PostFields DEF PostState
  <2>2. post' = [post EXCEPT ![r] = p]
    BY <1>7, Removes
  <2> HIDE DEF p
  <2> QED
    BY <1>7, <2>1, <2>2, Removes, PostFields DEF ThreadTypes
<1>8. ASSUME NEW r \in Poster, NEW F, Without(r, F), notes' \in [Note -> {"none", "text", "bare", "gone"}],
             UNCHANGED <<live, minted, bytes>>
      PROVE  ThreadTypes'
  BY <1>8, Withouts DEF ThreadTypes
<1>9. ASSUME NEW r \in Poster, NEW n, Delete(r, n) PROVE ThreadTypes'
  <2>1. notes' \in [Note -> {"none", "text", "bare", "gone"}] /\ Without(r, FilesOn(n))
    BY <1>9 DEF Delete, ThreadTypes
  <2> QED
    BY <1>8, <1>9, <2>1 DEF Delete
<1>10. ASSUME NEW r \in Poster, CloseFile(r) PROVE ThreadTypes'
  BY <1>8, <1>10 DEF CloseFile, ThreadTypes
<1>11. ASSUME NEW r \in Poster, GiveUpPost(r) \/ WriteNote(r) \/ WriteEdit(r) \/ WriteFile(r)
       PROVE  ThreadTypes'
  <2>1. post' \in [Poster -> PostState] /\ UNCHANGED <<live, minted, bytes>>
    BY <1>4, <1>11 DEF GiveUpPost, WriteNote, WriteEdit, WriteFile
  <2>2. notes' \in [Note -> {"none", "text", "bare", "gone"}]
    BY <1>11 DEF GiveUpPost, WriteNote, WriteEdit, WriteFile, ThreadTypes
  <2>3. filed' \in [File -> Note \cup {OnTask, Nowhere}]
    <3>1. CASE GiveUpPost(r) \/ WriteEdit(r)
      BY <3>1 DEF GiveUpPost, WriteEdit, ThreadTypes
    <3>2. CASE WriteNote(r)
      BY <3>2 DEF WriteNote, ThreadTypes
    <3>3. CASE WriteFile(r)
      BY <3>3 DEF WriteFile, Holders, ThreadTypes
    <3> QED
      BY <1>11, <3>1, <3>2, <3>3
  <2> QED
    BY <2>1, <2>2, <2>3 DEF ThreadTypes
<1>12. ASSUME NEW r \in Poster, RemoveTask(r) PROVE ThreadTypes'
  <2>1. post' \in [Poster -> PostState]
    BY <1>3, <1>12, Proceeds DEF RemoveTask
  <2>2. live' \in BOOLEAN /\ filed' \in [File -> Note \cup {OnTask, Nowhere}]
        /\ UNCHANGED <<minted, bytes>>
    BY <1>12 DEF RemoveTask
  <2>3. notes' \in [Note -> {"none", "text", "bare", "gone"}]
    BY <1>12 DEF RemoveTask, ThreadTypes
  <2> QED
    BY <2>1, <2>2, <2>3 DEF ThreadTypes
<1>13. ASSUME NEW r \in Poster, NEW pc \in {"attached", "edit", "confirm", "object", "purge", "task"},
              NEW F \in SUBSET File, NEW n \in Note \cup {OnTask, Nowhere}, NEW bare \in BOOLEAN,
              Take(r, pc, F, n, bare), UNCHANGED <<live, notes, filed, minted, bytes>>
       PROVE  ThreadTypes'
  <2> DEFINE p == [pc |-> pc, files |-> F, note |-> n, bare |-> bare]
  <2>1. p \in PostState
    BY DEF PostState
  <2>2. post' = [post EXCEPT ![r] = p]
    BY <1>13, Takes
  <2> HIDE DEF p
  <2> QED
    BY <1>13, <2>1, <2>2, PostFields DEF ThreadTypes
<1>14. ASSUME NEW r \in Poster, PostNote(r) \/ ReadTask(r) PROVE ThreadTypes'
  <2>1. CASE PostNote(r)
    <3>1. PICK F \in SUBSET File, bare \in BOOLEAN : Take(r, "attached", F, Nowhere, bare)
      BY <2>1 DEF PostNote
    <3> QED
      BY <1>13, <2>1, <3>1 DEF PostNote
  <2>2. CASE ReadTask(r)
    BY <1>13, <2>2 DEF ReadTask
  <2> QED
    BY <1>14, <2>1, <2>2
<1>15. ASSUME NEW r \in Poster, NEW n \in Note, EditNote(r, n) \/ ReadNote(r, n) PROVE ThreadTypes'
  <2>1. CASE EditNote(r, n)
    BY <1>13, <2>1 DEF EditNote
  <2>2. CASE ReadNote(r, n)
    BY <1>13, <2>2 DEF ReadNote, FilesOn
  <2> QED
    BY <1>15, <2>1, <2>2
<1>16. ASSUME NEW r \in Poster, NEW k \in File, ConfirmFile(r, k) \/ ReadFile(r, k) PROVE ThreadTypes'
  <2>1. CASE ConfirmFile(r, k)
    BY <1>13, <2>1 DEF ConfirmFile, Holders
  <2>2. CASE ReadFile(r, k)
    <3>1. (\E n \in Note : filed[k] = n /\ notes[n] = "bare") \in BOOLEAN
      OBVIOUS
    <3>2. filed[k] \in Note \cup {OnTask, Nowhere}
      BY DEF ThreadTypes
    <3> QED
      BY <1>13, <2>2, <3>1, <3>2 DEF ReadFile
  <2> QED
    BY <1>16, <2>1, <2>2
<1>17. ASSUME NEW r \in Poster,
              Discard(r) \/ Purge(r) \/ CloseNote(r) \/ DeleteNote(r)
       PROVE  ThreadTypes'
  BY <1>7, <1>9, <1>17 DEF Discard, Purge, CloseNote, DeleteNote
<1> QED
  BY <1>1, <1>2, <1>5, <1>6, <1>10, <1>11, <1>12, <1>14, <1>15, <1>16, <1>17 DEF ThreadNext

\* A step of one request, which touches neither comments nor files.
LEMMA PostKeeps ==
    ASSUME ThreadTypes, LiveOK, NEW r \in Poster, NEW p,
           post' = [post EXCEPT ![r] = p], UNCHANGED <<notes, filed, minted, bytes>>,
           doomed \subseteq doomed', twice \subseteq twice', thinned \subseteq thinned',
           PostsDrafts(p)', Deletes(p)',
           p.pc \in {"heads", "write", "discard"} =>
               \A q \in Poster \ {r} : p.files \cap Pending(q) \subseteq twice',
           p.pc \in Dropped =>
               \A q \in Poster \ {r} : post[q].pc \in Dropped => p.files \cap post[q].files = {},
           p.pc = "close" => Carried'
    PROVE  LiveOK'
<1>1. \A q \in Poster : post'[q] = IF q = r THEN p ELSE post[q]
  BY DEF ThreadTypes
<1>2. Excused \subseteq Excused'
  BY DEF Excused
<1>3. ASSUME NEW q \in Poster PROVE PostsDrafts(post[q])' /\ Deletes(post[q])'
  <2>1. CASE q = r
    BY <1>1, <2>1 DEF PostsDrafts, Deletes
  <2>2. CASE q # r
    <3>1. post'[q] = post[q] /\ PostsDrafts(post[q]) /\ Deletes(post[q])
      BY <1>1, <2>2 DEF LiveOK
    <3>2. PostsDrafts(post[q])'
      BY <1>2, <3>1 DEF PostsDrafts
    <3>3. Deletes(post[q])'
      BY <3>1 DEF Deletes
    <3> QED
      BY <3>2, <3>3
  <2> QED
    BY <2>1, <2>2
<1>4. Disjoint'
  BY <1>1 DEF LiveOK, Disjoint, Pending
<1>5. CASE p.pc = "close"
  BY <1>2, <1>3, <1>4, <1>5 DEF LiveOK, Attached, Present
<1>6. CASE p.pc # "close"
  <2>1. Carried'
    BY <1>1, <1>6 DEF LiveOK, Carried, FilesOn
  <2>2. Attached'
    BY <1>2 DEF LiveOK, Attached, Present
  <2> QED
    BY <1>3, <1>4, <2>1, <2>2 DEF LiveOK
<1> QED
  BY <1>5, <1>6

\* A request that is over.
LEMMA FinishKeeps ==
    ASSUME ThreadTypes, LiveOK, NEW r \in Poster, Finish(r),
           UNCHANGED <<notes, filed, minted, bytes, doomed, twice, thinned>>
    PROVE  LiveOK'
<1>1. PICK p : p = NoPost
  OBVIOUS
<1>2. PostsDrafts(p)' /\ Deletes(p)' /\ p.pc = "idle"
  BY <1>1 DEF NoPost, PostsDrafts, Deletes, Dropped
<1>3. post' = [post EXCEPT ![r] = p]
  BY <1>1 DEF Finish
<1> QED
  BY <1>2, <1>3, PostKeeps DEF Dropped

\* A request that begins.
LEMMA TakeKeeps ==
    ASSUME ThreadTypes, LiveOK, NEW r \in Poster, NEW pc \in {"attached", "edit", "confirm", "object", "purge", "task"},
           NEW F, NEW n, NEW bare, Take(r, pc, F, n, bare),
           UNCHANGED <<notes, filed, minted, bytes, twice, thinned>>, doomed \subseteq doomed',
           PostsDrafts([pc |-> pc, files |-> F, note |-> n, bare |-> bare])',
           Deletes([pc |-> pc, files |-> F, note |-> n, bare |-> bare])'
    PROVE  LiveOK'
<1> DEFINE p == [pc |-> pc, files |-> F, note |-> n, bare |-> bare]
<1>1. p.pc = pc /\ post' = [post EXCEPT ![r] = p]
  BY Takes
<1>2. PostsDrafts(p)' /\ Deletes(p)'
  OBVIOUS
<1> HIDE DEF p
<1>3. p.pc \notin Dropped /\ p.pc \notin {"heads", "write", "discard"} /\ p.pc # "close"
  BY <1>1 DEF Dropped
<1> QED
  BY <1>1, <1>2, <1>3, PostKeeps

\* Every request that begins while the task is there.
LEMMA BeginsKeep ==
    ASSUME ThreadTypes, LiveOK, NEW r \in Poster,
           \/ PostNote(r) \/ ReadTask(r)
           \/ \E n \in Note : EditNote(r, n) \/ ReadNote(r, n)
           \/ \E k \in File : ConfirmFile(r, k) \/ ReadFile(r, k)
    PROVE  LiveOK'
<1>1. CASE PostNote(r)
  <2>1. PICK F \in SUBSET {k \in File : minted[k] = Draft}, bare \in BOOLEAN :
          (bare => F # {}) /\ Take(r, "attached", F, Nowhere, bare)
    BY <1>1 DEF PostNote
  <2>2. UNCHANGED <<notes, filed, minted, bytes, twice, thinned, doomed>>
    BY <1>1 DEF PostNote
  <2>3. PostsDrafts([pc |-> "attached", files |-> F, note |-> Nowhere, bare |-> bare])'
    BY <2>1, <2>2 DEF PostsDrafts
  <2>4. Deletes([pc |-> "attached", files |-> F, note |-> Nowhere, bare |-> bare])'
    BY DEF Deletes, Dropped
  <2> QED
    BY <2>1, <2>2, <2>3, <2>4, TakeKeeps
<1>2. CASE ReadTask(r)
  <2>1. PICK F : F = {k \in File : filed[k] # Nowhere}
    OBVIOUS
  <2>2. Take(r, "task", F, OnTask, FALSE) /\ UNCHANGED <<notes, filed, minted, bytes, doomed, twice, thinned>>
    BY <1>2, <2>1 DEF ReadTask
  <2>3. PostsDrafts([pc |-> "task", files |-> F, note |-> OnTask, bare |-> FALSE])'
    BY DEF PostsDrafts
  <2>4. Deletes([pc |-> "task", files |-> F, note |-> OnTask, bare |-> FALSE])'
    BY DEF Deletes, Dropped
  <2> QED
    BY <2>2, <2>3, <2>4, TakeKeeps
<1>3. ASSUME NEW n \in Note, EditNote(r, n) PROVE LiveOK'
  <2>1. PostsDrafts([pc |-> "edit", files |-> {}, note |-> n, bare |-> FALSE])'
    BY DEF PostsDrafts
  <2>2. Deletes([pc |-> "edit", files |-> {}, note |-> n, bare |-> FALSE])'
    BY DEF Deletes, Dropped
  <2> QED
    BY <1>3, <2>1, <2>2, TakeKeeps DEF EditNote
<1>4. ASSUME NEW n \in Note, ReadNote(r, n) PROVE LiveOK'
  <2>1. PICK F : F = FilesOn(n)
    OBVIOUS
  <2>2. F \subseteq doomed' /\ Take(r, "purge", F, n, FALSE)
    BY <1>4, <2>1 DEF ReadNote
  <2>3. PostsDrafts([pc |-> "purge", files |-> F, note |-> n, bare |-> FALSE])'
    BY DEF PostsDrafts
  <2>4. Deletes([pc |-> "purge", files |-> F, note |-> n, bare |-> FALSE])'
    BY <2>2 DEF Deletes, Dropped
  <2> QED
    BY <1>4, <2>2, <2>3, <2>4, TakeKeeps DEF ReadNote
<1>5. ASSUME NEW k \in File, ConfirmFile(r, k) PROVE LiveOK'
  <2>1. PICK n : n = minted[k]
    OBVIOUS
  <2>2. n \notin {Draft, Nowhere} /\ Take(r, "confirm", {k}, n, FALSE) /\ minted'[k] = n
    BY <1>5, <2>1, ThreadAssumption DEF ConfirmFile, Holders
  <2>3. PostsDrafts([pc |-> "confirm", files |-> {k}, note |-> n, bare |-> FALSE])'
    BY <2>2 DEF PostsDrafts
  <2>4. Deletes([pc |-> "confirm", files |-> {k}, note |-> n, bare |-> FALSE])'
    BY DEF Deletes, Dropped
  <2> QED
    BY <1>5, <2>2, <2>3, <2>4, TakeKeeps DEF ConfirmFile
<1>6. ASSUME NEW k \in File, ReadFile(r, k) PROVE LiveOK'
  <2>1. PICK n : n = filed[k]
    OBVIOUS
  <2>2. PICK bare \in BOOLEAN : bare <=> \E m \in Note : filed[k] = m /\ notes[m] = "bare"
    OBVIOUS
  <2>3. Take(r, "object", {k}, n, \E m \in Note : filed[k] = m /\ notes[m] = "bare")
    BY <1>6, <2>1 DEF ReadFile
  <2>4. bare = (\E m \in Note : filed[k] = m /\ notes[m] = "bare")
    BY <2>2
  <2>5. Take(r, "object", {k}, n, bare)
    BY <2>3, <2>4
  <2>6. UNCHANGED <<notes, filed, minted, bytes, twice, thinned>> /\ k \in doomed' /\ n # Nowhere
        /\ doomed \subseteq doomed'
    BY <1>6, <2>1 DEF ReadFile
  <2>7. n \in Note => notes[n] # "none" /\ (notes[n] = "bare" => bare)
    BY <2>1, <2>2, <2>6 DEF LiveOK, Attached, Present
  <2>8. PostsDrafts([pc |-> "object", files |-> {k}, note |-> n, bare |-> bare])'
    BY DEF PostsDrafts
  <2>9. Deletes([pc |-> "object", files |-> {k}, note |-> n, bare |-> bare])'
    BY <2>1, <2>6, <2>7 DEF Deletes, Dropped
  <2> QED
    BY <2>5, <2>6, <2>8, <2>9, TakeKeeps
<1> QED
  BY <1>1, <1>2, <1>3, <1>4, <1>5, <1>6

\* A comment on its way, until it is written or fails.
LEMMA PostingKeeps ==
    ASSUME ThreadTypes, LiveOK, NEW r \in Poster, CheckAttached(r) \/ CheckBytes(r) \/ FailNote(r)
    PROVE  LiveOK'
<1>0. PostsDrafts(post[r])
  BY DEF LiveOK
<1>1. CASE CheckAttached(r)
  <2>1. PICK p : p = Moved(post[r], "heads")
    OBVIOUS
  <2>2. post[r].pc = "attached" /\ post' = [post EXCEPT ![r] = p]
    BY <1>1, <2>1, Proceeds DEF CheckAttached
  <2>3. p.pc = "heads" /\ p.files = post[r].files /\ p.bare = post[r].bare
    BY <2>1 DEF Moved
  <2>4. /\ twice' = twice \cup (p.files \cap UNION {Pending(q) : q \in Poster \ {r}})
        /\ UNCHANGED <<notes, filed, minted, bytes, doomed, thinned>>
        /\ \A k \in p.files : filed[k] = Nowhere
    BY <1>1, <2>3 DEF CheckAttached, Unattached
  <2>5. PostsDrafts(p)'
    BY <1>0, <2>2, <2>3, <2>4 DEF PostsDrafts
  <2>6. Deletes(p)' /\ p.pc \notin Dropped
    BY <2>3 DEF Deletes, Dropped
  <2>7. \A q \in Poster \ {r} : p.files \cap Pending(q) \subseteq twice'
    BY <2>4
  <2> QED
    BY <2>2, <2>3, <2>4, <2>5, <2>6, <2>7, PostKeeps
<1>2. CASE CheckBytes(r) \/ FailNote(r)
  <2>1. PICK p : p = Moved(post[r], IF post[r].pc = "heads" THEN "write" ELSE "discard")
    OBVIOUS
  <2>2. /\ post[r].pc \in {"heads", "write"} /\ post' = [post EXCEPT ![r] = p]
        /\ UNCHANGED <<notes, filed, minted, bytes, doomed, twice, thinned>>
    BY <1>2, <2>1, Proceeds DEF CheckBytes, FailNote
  <2>3. /\ p.pc \in {"write", "discard"} /\ p.files = post[r].files /\ p.bare = post[r].bare
        /\ p.pc = "write" => \A k \in p.files : bytes[k] = "there"
    BY <1>2, <2>1, Proceeds DEF Moved, CheckBytes, FailNote
  <2>4. PostsDrafts(p)'
    BY <1>0, <2>2, <2>3 DEF PostsDrafts, Excused
  <2>5. Deletes(p)' /\ p.pc \notin Dropped
    BY <2>3 DEF Deletes, Dropped
  <2>6. \A q \in Poster \ {r} : p.files \cap Pending(q) \subseteq twice'
    BY <2>2, <2>3 DEF LiveOK, Disjoint, Pending
  <2> QED
    BY <2>2, <2>3, <2>4, <2>5, <2>6, PostKeeps
<1> QED
  BY <1>1, <1>2

\* A deletion on its way: its row is dropped, and the others of its comment are counted.
LEMMA DroppingKeeps ==
    ASSUME ThreadTypes, LiveOK, NEW r \in Poster, DropRow(r) \/ CountLeft(r)
    PROVE  LiveOK'
<1>0. Deletes(post[r]) /\ post[r].files \subseteq File
  BY PostFields DEF LiveOK
<1> DEFINE to == IF post[r].pc = "row" THEN (IF post[r].bare THEN "count" ELSE "close")
                 ELSE (IF FilesOn(post[r].note) \ post[r].files = {} THEN "last" ELSE "close")
<1>1. PICK p : p = Moved(post[r], to)
  OBVIOUS
<1>2. /\ post[r].pc \in {"row", "count"} /\ post' = [post EXCEPT ![r] = p]
      /\ UNCHANGED <<notes, filed, minted, bytes, doomed, twice>> /\ thinned \subseteq thinned'
  <2>1. CASE DropRow(r)
    BY <1>1, <2>1, Proceeds DEF DropRow
  <2>2. CASE CountLeft(r)
    BY <1>1, <2>2, Proceeds DEF CountLeft
  <2> QED
    BY <2>1, <2>2
<1>3. p.pc \in Dropped /\ p.files = post[r].files /\ p.bare = post[r].bare /\ p.note = post[r].note
  BY <1>1 DEF Moved, Dropped
<1>4. p.note # Nowhere
  BY <1>0, <1>2, <1>3 DEF Deletes, Dropped, DropRow, CountLeft, Proceed
<1>5. Deletes(p)'
  BY <1>0, <1>2, <1>3, <1>4 DEF Deletes, Dropped
<1>6. PostsDrafts(p)' /\ p.pc \notin {"heads", "write", "discard"}
  BY <1>3 DEF PostsDrafts, Dropped
<1>7. \A q \in Poster \ {r} : post[q].pc \in Dropped => p.files \cap post[q].files = {}
  <2>1. CASE post[r].pc = "count"
    BY <1>3, <2>1 DEF LiveOK, Disjoint, Dropped
  <2>2. CASE DropRow(r)
    BY <1>3, <2>2 DEF DropRow, Dropping, Dropped
  <2> QED
    BY <2>1, <2>2 DEF CountLeft, Proceed
<1>8. \A q \in Poster : post'[q] = IF q = r THEN p ELSE post[q]
  BY <1>2, PostFields
<1>9. ASSUME NEW n \in Note, notes'[n] = "bare", n \notin thinned'
      PROVE  \E k \in FilesOn(n)' : \A q \in Poster : post'[q].pc = "close" => k \notin post'[q].files
  <2>1. PICK k \in FilesOn(n) : \A q \in Poster : post[q].pc = "close" => k \notin post[q].files
    BY <1>2, <1>9 DEF LiveOK, Carried
  <2>2. FilesOn(n)' = FilesOn(n)
    BY <1>2 DEF FilesOn
  <2>3. CASE k \notin p.files \/ p.pc # "close"
    BY <1>8, <2>1, <2>2, <2>3
  <2>4. CASE k \in p.files /\ p.pc = "close"
    <3>1. p.note = n /\ p.bare
      BY <1>0, <1>2, <1>3, <1>4, <1>9, <2>1, <2>4 DEF Deletes, FilesOn, Dropped
    <3>2. CountLeft(r) /\ post[r].pc = "count" /\ FilesOn(n) \ p.files # {}
      BY <1>1, <1>2, <1>3, <2>4, <3>1 DEF Moved, DropRow, Proceed
    <3>3. (FilesOn(n) \ p.files) \cap Dropping(r) = {}
      BY <1>3, <1>9, <3>1, <3>2 DEF CountLeft
    <3>4. PICK l \in FilesOn(n) : l \notin p.files /\ l \notin Dropping(r)
      BY <3>2, <3>3
    <3>5. \A q \in Poster \ {r} : post[q].pc = "close" => l \notin post[q].files
      BY <3>4 DEF Dropping
    <3> QED
      BY <1>8, <2>2, <3>4, <3>5
  <2> QED
    BY <2>3, <2>4
<1>10. Carried'
  BY <1>9 DEF Carried
<1> QED
  BY <1>2, <1>3, <1>5, <1>6, <1>7, <1>10, PostKeeps

\* A key that is signed is nobody's yet.
LEMMA StageKeeps ==
    ASSUME ThreadTypes, LiveOK, NEW k \in File, Stage(k)
    PROVE  LiveOK'
<1>1. /\ minted[k] = Nowhere /\ UNCHANGED <<notes, filed, post, doomed, twice, thinned>>
      /\ \A l \in File : l # k => minted'[l] = minted[l] /\ bytes'[l] = bytes[l]
  BY DEF Stage, ThreadTypes
<1>2. filed[k] = Nowhere
  BY <1>1 DEF LiveOK, Attached
<1>3. ASSUME NEW q \in Poster PROVE PostsDrafts(post[q])' /\ Deletes(post[q])'
  <2>1. PostsDrafts(post[q]) /\ Deletes(post[q]) /\ post'[q] = post[q] /\ post[q].files \subseteq File
    BY <1>1, PostFields DEF LiveOK
  <2>2. post[q].pc \in {"attached", "heads", "write", "discard"} => k \notin post[q].files
    BY <1>1, <2>1, ThreadAssumption DEF PostsDrafts
  <2>3. PostsDrafts(post[q])'
    BY <1>1, <2>1, <2>2, ThreadAssumption DEF PostsDrafts, Excused
  <2>4. Deletes(post[q])'
    BY <1>1, <2>1 DEF Deletes
  <2> QED
    BY <2>3, <2>4
<1>4. Disjoint'
  BY <1>1 DEF LiveOK, Disjoint, Pending
<1>5. Carried'
  BY <1>1 DEF LiveOK, Carried, FilesOn
<1>6. Attached'
  BY <1>1, <1>2 DEF LiveOK, Attached, Present, Excused
<1> QED
  BY <1>3, <1>4, <1>5, <1>6 DEF LiveOK

\* The objects go of files that are doomed, or were those of a comment that failed: none
\* of a comment that stands, or will.
LEMMA BytesKeep ==
    ASSUME ThreadTypes, LiveOK, NEW r \in Poster, NEW p,
           post' = [post EXCEPT ![r] = p], UNCHANGED <<notes, filed, minted, doomed, twice, thinned>>,
           p.files \subseteq post[r].files, p.note = post[r].note, p.bare = post[r].bare,
           NEW F \in SUBSET post[r].files, \A k \in File \ F : bytes'[k] = bytes[k],
           \/ post[r].pc = "discard" /\ p.pc = "discard"
           \/ post[r].pc = "purge" /\ p.pc = "purge"
           \/ post[r].pc = "object" /\ p.pc = "row"
    PROVE  LiveOK'
<1>1. \A q \in Poster : post'[q] = IF q = r THEN p ELSE post[q]
  BY DEF ThreadTypes
<1>2. PostsDrafts(post[r]) /\ Deletes(post[r]) /\ post[r].files \subseteq File
  BY PostFields DEF LiveOK
<1>3. ASSUME NEW k \in F, filed[k] # Nowhere PROVE k \in Excused
  BY <1>2, <1>3 DEF PostsDrafts, Deletes, Excused
<1>4. ASSUME NEW q \in Poster \ {r}, NEW k \in F, post[q].pc = "write", k \in post[q].files
      PROVE  k \in Excused
  <2>1. CASE post[r].pc = "discard"
    BY <1>4, <2>1 DEF LiveOK, Disjoint, Pending, Excused
  <2>2. CASE post[r].pc \in {"purge", "object"}
    BY <1>2, <2>2 DEF Deletes, Excused
  <2> QED
    BY <2>1, <2>2
<1>5. PostsDrafts(p)' /\ Deletes(p)'
  BY <1>2 DEF PostsDrafts, Deletes, Dropped, Excused
<1>6. ASSUME NEW q \in Poster PROVE PostsDrafts(post[q])' /\ Deletes(post[q])'
  <2>1. CASE q = r
    BY <1>1, <1>5, <2>1 DEF PostsDrafts, Deletes
  <2>2. CASE q # r
    <3>1. post'[q] = post[q] /\ PostsDrafts(post[q]) /\ Deletes(post[q]) /\ post[q].files \subseteq File
      BY <1>1, <2>2, PostFields DEF LiveOK
    <3>2. post[q].pc = "write" => \A k \in post[q].files : bytes'[k] = "there" \/ k \in Excused
      BY <1>4, <2>2, <3>1 DEF PostsDrafts
    <3>3. PostsDrafts(post[q])'
      BY <3>1, <3>2 DEF PostsDrafts, Excused
    <3>4. Deletes(post[q])'
      BY <3>1 DEF Deletes
    <3> QED
      BY <3>3, <3>4
  <2> QED
    BY <2>1, <2>2
<1>7. Disjoint'
  BY <1>1 DEF LiveOK, Disjoint, Pending, Dropped
<1>8. Carried'
  BY <1>1 DEF LiveOK, Carried, FilesOn
<1>9. Attached'
  BY <1>3 DEF LiveOK, Attached, Present, Excused
<1> QED
  BY <1>6, <1>7, <1>8, <1>9 DEF LiveOK

LEMMA ObjectsKeep ==
    ASSUME ThreadTypes, LiveOK, NEW r \in Poster, Discard(r) \/ Purge(r) \/ DropObject(r)
    PROVE  LiveOK'
<1>1. CASE Discard(r) \/ Purge(r)
  <2>1. PICK k \in File : RemoveObject(r, k)
    BY <1>1 DEF Discard, Purge
  <2>2. PICK p : p = [pc |-> post[r].pc, files |-> post[r].files \ {k},
                      note |-> post[r].note, bare |-> post[r].bare]
    OBVIOUS
  <2>3. /\ k \in post[r].files /\ post' = [post EXCEPT ![r] = p]
        /\ \A l \in File \ {k} : bytes'[l] = bytes[l]
        /\ UNCHANGED <<notes, filed, minted, doomed, twice, thinned>>
    BY <2>1, <2>2, Removes
  <2>4. post[r].pc \in {"discard", "purge"}
    BY <1>1 DEF Discard, Purge
  <2>5. p.pc = post[r].pc /\ p.files \subseteq post[r].files /\ p.note = post[r].note /\ p.bare = post[r].bare
    BY <2>2
  <2>6. {k} \in SUBSET post[r].files
    BY <2>3
  <2> QED
    BY <2>3, <2>4, <2>5, <2>6, BytesKeep
<1>2. CASE DropObject(r)
  <2>1. PICK p : p = Moved(post[r], "row")
    OBVIOUS
  <2>2. /\ post[r].pc = "object" /\ post' = [post EXCEPT ![r] = p]
        /\ \A l \in File \ post[r].files : bytes'[l] = bytes[l]
        /\ UNCHANGED <<notes, filed, minted, doomed, twice, thinned>>
    BY <1>2, <2>1, Proceeds DEF DropObject
  <2>3. p.pc = "row" /\ p.files = post[r].files /\ p.note = post[r].note /\ p.bare = post[r].bare
    BY <2>1 DEF Moved
  <2> QED
    BY <2>2, <2>3, BytesKeep
<1> QED
  BY <1>1, <1>2

\* A comment is written, with its files; or one without text gets some.
LEMMA WriteNoteKeeps ==
    ASSUME ThreadTypes, LiveOK, NEW r \in Poster, WriteNote(r)
    PROVE  LiveOK'
<1>1. PICK n \in Note :
        /\ notes[n] = "none"
        /\ notes' = [notes EXCEPT ![n] = IF post[r].bare THEN "bare" ELSE "text"]
        /\ filed' = [k \in File |-> IF k \in post[r].files THEN n ELSE filed[k]]
  BY DEF WriteNote
<1>2. /\ post[r].pc = "write" /\ \A k \in post[r].files : filed[k] = Nowhere
      /\ post' = [post EXCEPT ![r] = NoPost] /\ UNCHANGED <<minted, bytes, doomed, twice, thinned>>
  BY DEF WriteNote, Finish
<1>3. \A q \in Poster : post'[q] = IF q = r THEN NoPost ELSE post[q]
  BY <1>2, PostFields
<1>4. PostsDrafts(post[r]) /\ post[r].files \subseteq File
  BY PostFields DEF LiveOK
<1>5. \A m \in Note : notes'[m] = IF m = n THEN (IF post[r].bare THEN "bare" ELSE "text") ELSE notes[m]
  BY <1>1 DEF ThreadTypes
<1>6. \A k \in File : filed'[k] = IF k \in post[r].files THEN n ELSE filed[k]
  BY <1>1
<1>7. n # Nowhere /\ \A k \in File : filed[k] # n
  BY <1>1, ThreadAssumption DEF LiveOK, Attached, Present
<1>8. ASSUME NEW q \in Poster PROVE PostsDrafts(post[q])' /\ Deletes(post[q])'
  <2>1. CASE q = r
    BY <1>3, <2>1 DEF NoPost, PostsDrafts, Deletes, Dropped
  <2>2. CASE q # r
    <3>1. post'[q] = post[q] /\ PostsDrafts(post[q]) /\ Deletes(post[q]) /\ post[q].files \subseteq File
      BY <1>3, <2>2, PostFields DEF LiveOK
    <3>2. post[q].pc \in {"heads", "write", "discard"} =>
            \A k \in post[q].files : k \in post[r].files => k \in Excused
      BY <1>2, <2>2 DEF LiveOK, Disjoint, Pending, Excused
    <3>3. PostsDrafts(post[q])'
      BY <1>2, <1>6, <3>1, <3>2 DEF PostsDrafts, Excused
    <3>4. Deletes(post[q])'
      <4>1. post[q].pc \in {"object", "row"} \cup Dropped /\ post[q].note # Nowhere =>
              \A k \in post[q].files : filed'[k] = post[q].note
        BY <1>2, <1>6, <3>1 DEF Deletes
      <4>2. post[q].pc \in {"object", "row"} \cup Dropped /\ post[q].note # Nowhere =>
              (post[q].note \in Note =>
                 notes'[post[q].note] # "none" /\ (notes'[post[q].note] = "bare" => post[q].bare))
        BY <1>1, <1>5, <3>1 DEF Deletes
      <4> QED
        BY <1>2, <3>1, <4>1, <4>2 DEF Deletes
    <3> QED
      BY <3>3, <3>4
  <2> QED
    BY <2>1, <2>2
<1>9. Disjoint'
  BY <1>2, <1>3 DEF LiveOK, Disjoint, Pending, NoPost, Dropped
<1>10. ASSUME NEW q \in Poster, post[q].pc = "close", NEW k \in post[q].files
       PROVE  k \in File /\ filed[k] # Nowhere
  BY <1>10, PostFields DEF LiveOK, Deletes, Dropped
<1>11. ASSUME NEW m \in Note, notes'[m] = "bare", m \notin thinned'
       PROVE  \E k \in FilesOn(m)' : \A q \in Poster : post'[q].pc = "close" => k \notin post'[q].files
  <2>1. CASE m = n
    <3>1. PICK k \in post[r].files : TRUE
      BY <1>2, <1>4, <1>5, <1>11, <2>1 DEF PostsDrafts
    <3>2. k \in FilesOn(m)' /\ filed[k] = Nowhere
      BY <1>2, <1>4, <1>6, <2>1, <3>1 DEF FilesOn
    <3>3. \A q \in Poster : post'[q].pc = "close" => k \notin post'[q].files
      BY <1>3, <1>10, <3>2 DEF NoPost
    <3> QED
      BY <3>2, <3>3
  <2>2. CASE m # n
    <3>1. PICK k \in FilesOn(m) : \A q \in Poster : post[q].pc = "close" => k \notin post[q].files
      BY <1>2, <1>5, <1>11, <2>2 DEF LiveOK, Carried
    <3>2. k \in FilesOn(m)'
      BY <1>2, <1>6, <3>1, ThreadAssumption DEF FilesOn
    <3> QED
      BY <1>3, <3>1, <3>2 DEF NoPost
  <2> QED
    BY <2>1, <2>2
<1>12. Carried'
  BY <1>11 DEF Carried
<1>13. Attached'
  <2> SUFFICES ASSUME NEW k \in File, filed'[k] # Nowhere
               PROVE  /\ minted'[k] # Nowhere /\ (filed'[k] \in Note => Present(filed[k])')
                      /\ minted'[k] = Draft /\ bytes'[k] # "there" => k \in Excused'
    BY DEF Attached
  <2>1. CASE k \in post[r].files
    BY <1>2, <1>4, <1>5, <1>6, <2>1, ThreadAssumption DEF PostsDrafts, Present, Excused
  <2>2. CASE k \notin post[r].files
    BY <1>2, <1>5, <1>6, <2>2 DEF LiveOK, Attached, Present, Excused
  <2> QED
    BY <2>1, <2>2
<1> QED
  BY <1>8, <1>9, <1>12, <1>13 DEF LiveOK

LEMMA WriteFileKeeps ==
    ASSUME ThreadTypes, LiveOK, NEW r \in Poster, WriteFile(r)
    PROVE  LiveOK'
<1>0. /\ post[r].pc = "confirm" /\ post[r].note \in Holders /\ \A k \in post[r].files : filed[k] = Nowhere
      /\ post' = [post EXCEPT ![r] = NoPost] /\ UNCHANGED <<notes, minted, bytes, doomed, twice, thinned>>
      /\ filed' = [k \in File |-> IF k \in post[r].files THEN post[r].note ELSE filed[k]]
  BY Zenon DEF WriteFile, Finish
<1>1. PICK n : n = post[r].note
  OBVIOUS
<1>2. /\ post[r].pc = "confirm" /\ n \in Holders /\ \A k \in post[r].files : filed[k] = Nowhere
      /\ post' = [post EXCEPT ![r] = NoPost] /\ UNCHANGED <<notes, minted, bytes, doomed, twice, thinned>>
      /\ \A k \in File : filed'[k] = IF k \in post[r].files THEN n ELSE filed[k]
  BY <1>0, <1>1
<1>3. \A q \in Poster : post'[q] = IF q = r THEN NoPost ELSE post[q]
  BY <1>2 DEF ThreadTypes
<1>4. post[r].files \subseteq File /\ \A k \in post[r].files : minted[k] \notin {Draft, Nowhere}
  BY <1>2, PostFields DEF LiveOK, PostsDrafts
<1>5. n # Nowhere /\ (n \in Note => Present(n))
  BY <1>2, ThreadAssumption DEF Holders
<1>6. ASSUME NEW q \in Poster PROVE PostsDrafts(post[q])' /\ Deletes(post[q])'
  <2>1. CASE q = r
    BY <1>3, <2>1 DEF NoPost, PostsDrafts, Deletes, Dropped
  <2>2. CASE q # r
    <3>1. post'[q] = post[q] /\ PostsDrafts(post[q]) /\ Deletes(post[q]) /\ post[q].files \subseteq File
      BY <1>3, <2>2, PostFields DEF LiveOK
    <3>2. PostsDrafts(post[q])'
      BY <1>2, <1>4, <3>1 DEF PostsDrafts, Excused
    <3>3. Deletes(post[q])'
      BY <1>2, <3>1 DEF Deletes
    <3> QED
      BY <3>2, <3>3
  <2> QED
    BY <2>1, <2>2
<1>7. Disjoint'
  BY <1>2, <1>3 DEF LiveOK, Disjoint, Pending, NoPost, Dropped
<1>8. \A m \in Note : \A k \in FilesOn(m) : k \in FilesOn(m)'
  BY <1>2, ThreadAssumption DEF FilesOn
<1>9. Carried'
  BY <1>2, <1>3, <1>8 DEF LiveOK, Carried, NoPost
<1>10. Attached'
  BY <1>2, <1>4, <1>5 DEF LiveOK, Attached, Present, Excused
<1> QED
  BY <1>6, <1>7, <1>9, <1>10 DEF LiveOK

\* A comment is given a text.
LEMMA WriteEditKeeps ==
    ASSUME ThreadTypes, LiveOK, NEW r \in Poster, WriteEdit(r)
    PROVE  LiveOK'
<1>0. /\ Present(post[r].note) /\ post' = [post EXCEPT ![r] = NoPost]
      /\ UNCHANGED <<filed, minted, bytes, doomed, twice, thinned>>
      /\ notes' = [notes EXCEPT ![post[r].note] = "text"]
  BY Zenon DEF WriteEdit, Finish
<1>1. PICK n : n = post[r].note
  OBVIOUS
<1>2. /\ Present(n) /\ post' = [post EXCEPT ![r] = NoPost]
      /\ UNCHANGED <<filed, minted, bytes, doomed, twice, thinned>>
      /\ \A m \in Note : notes'[m] = IF m = n THEN "text" ELSE notes[m]
  BY <1>0, <1>1 DEF ThreadTypes
<1>3. \A q \in Poster : post'[q] = IF q = r THEN NoPost ELSE post[q]
  BY <1>2 DEF ThreadTypes
<1>4. ASSUME NEW q \in Poster PROVE PostsDrafts(post[q])' /\ Deletes(post[q])'
  <2>1. CASE q = r
    BY <1>3, <2>1 DEF NoPost, PostsDrafts, Deletes, Dropped
  <2>2. CASE q # r
    <3>1. post'[q] = post[q] /\ PostsDrafts(post[q]) /\ Deletes(post[q])
      BY <1>3, <2>2 DEF LiveOK
    <3> QED
      BY <1>2, <3>1 DEF PostsDrafts, Deletes, Excused
  <2> QED
    BY <2>1, <2>2
<1>5. Disjoint'
  BY <1>2, <1>3 DEF LiveOK, Disjoint, Pending, NoPost, Dropped
<1>6. Carried'
  BY <1>2, <1>3 DEF LiveOK, Carried, NoPost, FilesOn
<1>7. Attached'
  BY <1>2 DEF LiveOK, Attached, Present, Excused
<1> QED
  BY <1>4, <1>5, <1>6, <1>7 DEF LiveOK

\* Rows go, and their comment or not.
LEMMA WithoutKeeps ==
    ASSUME ThreadTypes, LiveOK, NEW r \in Poster, NEW F, Without(r, F),
           UNCHANGED <<minted, bytes, doomed, twice, thinned>>,
           \A q \in Poster \ {r} : post[q].pc \in Dropped => post[q].files \cap F = {},
           \A m \in Note : notes'[m] = notes[m] \/ (notes'[m] = "gone" /\ FilesOn(m) \subseteq F),
           \A m \in Note : notes'[m] = "bare" /\ m \notin thinned =>
               \E k \in FilesOn(m) \ F : \A q \in Poster : post[q].pc = "close" => k \notin post[q].files
    PROVE  LiveOK'
<1>1. \A k \in File : filed'[k] = IF k \in F THEN Nowhere ELSE filed[k]
  BY Withouts
<1>2. /\ post'[r] = NoPost
      /\ \A q \in Poster \ {r} :
            /\ post'[q].pc = post[q].pc /\ post'[q].files = post[q].files
            /\ post'[q].bare = post[q].bare /\ post'[q].note \in {post[q].note, Nowhere}
            /\ post'[q].note = post[q].note \/ post[q].pc \in {"object", "row"}
            /\ post[q].pc \in {"object", "row"} /\ post[q].files \cap F # {} => post'[q].note = Nowhere
  BY Withouts
<1>3. ASSUME NEW q \in Poster PROVE PostsDrafts(post[q])' /\ Deletes(post[q])'
  <2>1. CASE q = r
    BY <1>2, <2>1 DEF NoPost, PostsDrafts, Deletes, Dropped
  <2>2. CASE q # r
    <3>1. PostsDrafts(post[q]) /\ Deletes(post[q]) /\ post[q].files \subseteq File
      BY PostFields DEF LiveOK
    <3>2. PostsDrafts(post[q])'
      BY <1>1, <1>2, <2>2, <3>1 DEF PostsDrafts, Excused
    <3>3. post[q].pc \in {"object", "row"} \cup Dropped /\ post'[q].note # Nowhere =>
            /\ post'[q].note = post[q].note /\ post[q].files \cap F = {}
      BY <1>2, <2>2
    <3>4. Deletes(post[q])'
      BY <1>1, <1>2, <2>2, <3>1, <3>3 DEF Deletes, Dropped
    <3> QED
      BY <3>2, <3>4
  <2> QED
    BY <2>1, <2>2
<1>4. Disjoint'
  BY <1>2 DEF LiveOK, Disjoint, Pending, NoPost, Dropped
<1>5. \A m \in Note : \A k \in FilesOn(m) \ F : k \in FilesOn(m)'
  BY <1>1 DEF FilesOn
<1>6. Carried'
  BY <1>2, <1>5 DEF Carried, NoPost
<1>7. Attached'
  BY <1>1 DEF LiveOK, Attached, Present, Excused, FilesOn
<1> QED
  BY <1>3, <1>4, <1>6, <1>7 DEF LiveOK

LEMMA DeletionsKeep ==
    ASSUME ThreadTypes, LiveOK, NEW r \in Poster, CloseFile(r) \/ CloseNote(r) \/ DeleteNote(r)
    PROVE  LiveOK'
<1>1. CASE CloseFile(r)
  <2>1. PICK F : F = post[r].files
    OBVIOUS
  <2>2. Without(r, F) /\ post[r].pc = "close" /\ UNCHANGED <<notes, minted, bytes, doomed, twice, thinned>>
    BY <1>1, <2>1 DEF CloseFile
  <2>3. \A q \in Poster \ {r} : post[q].pc \in Dropped => post[q].files \cap F = {}
    BY <2>1, <2>2 DEF LiveOK, Disjoint, Dropped
  <2>4. \A m \in Note : notes'[m] = "bare" /\ m \notin thinned =>
          \E k \in FilesOn(m) \ F : \A q \in Poster : post[q].pc = "close" => k \notin post[q].files
    BY <2>1, <2>2 DEF LiveOK, Carried
  <2>5. \A m \in Note : notes'[m] = notes[m]
    BY <2>2
  <2> QED
    BY <2>2, <2>3, <2>4, <2>5, WithoutKeeps
<1>2. ASSUME NEW n, Delete(r, n) PROVE LiveOK'
  <2>1. PICK F : F = FilesOn(n)
    OBVIOUS
  <2>2. Without(r, F) /\ UNCHANGED <<minted, bytes, doomed, twice, thinned>> /\ F \cap Dropping(r) = {}
    BY <1>2, <2>1 DEF Delete
  <2>3. \A m \in Note : notes'[m] = IF m = n THEN "gone" ELSE notes[m]
    BY <1>2 DEF Delete, ThreadTypes
  <2>4. \A q \in Poster \ {r} : post[q].pc \in Dropped => post[q].files \cap F = {}
    BY <2>2 DEF Dropping, Dropped
  <2>5. \A m \in Note : notes'[m] = notes[m] \/ (notes'[m] = "gone" /\ FilesOn(m) \subseteq F)
    BY <2>1, <2>3
  <2>6. \A m \in Note : m # n => FilesOn(m) \cap F = {}
    BY <2>1 DEF FilesOn
  <2>7. \A m \in Note : notes'[m] = "bare" /\ m \notin thinned =>
          \E k \in FilesOn(m) \ F : \A q \in Poster : post[q].pc = "close" => k \notin post[q].files
    BY <2>3, <2>6 DEF LiveOK, Carried
  <2> QED
    BY <2>2, <2>4, <2>5, <2>7, WithoutKeeps
<1> QED
  BY <1>1, <1>2 DEF CloseNote, DeleteNote

\* While the task is there.
LEMMA LiveNext == ThreadTypes /\ LiveOK /\ live /\ [ThreadNext]_thread => (live' /\ LiveOK') \/ (~live' /\ OverOK')
<1> SUFFICES ASSUME ThreadTypes, LiveOK, live, [ThreadNext]_thread
             PROVE  (live' /\ LiveOK') \/ (~live' /\ OverOK')
  OBVIOUS
<1>1. CASE UNCHANGED thread
  <2>1. UNCHANGED <<live, notes, filed, minted, bytes, post, doomed, twice, thinned>>
    BY <1>1 DEF thread
  <2>2. /\ \A q \in Poster : PostsDrafts(post[q])' /\ Deletes(post[q])'
    BY <2>1 DEF LiveOK, PostsDrafts, Deletes, Excused
  <2>3. Disjoint' /\ Carried' /\ Attached'
    BY <2>1 DEF LiveOK, Disjoint, Pending, Carried, FilesOn, Attached, Present, Excused
  <2> QED
    BY <2>1, <2>2, <2>3 DEF LiveOK
<1>2. ASSUME NEW k \in File, Stage(k) PROVE live' /\ LiveOK'
  BY <1>2, StageKeeps DEF Stage
<1>3. ASSUME NEW r \in Poster,
             \/ PostNote(r) \/ ReadTask(r)
             \/ \E n \in Note : EditNote(r, n) \/ ReadNote(r, n)
             \/ \E k \in File : ConfirmFile(r, k) \/ ReadFile(r, k)
      PROVE  live' /\ LiveOK'
  <2>1. live' = live
    BY <1>3 DEF PostNote, ReadTask, EditNote, ReadNote, ConfirmFile, ReadFile
  <2> QED
    BY <1>3, <2>1, BeginsKeep
<1>4. ASSUME NEW r \in Poster, CheckAttached(r) \/ CheckBytes(r) \/ FailNote(r)
      PROVE  live' /\ LiveOK'
  BY <1>4, PostingKeeps DEF CheckAttached, CheckBytes, FailNote
<1>5. ASSUME NEW r \in Poster, DropRow(r) \/ CountLeft(r) PROVE live' /\ LiveOK'
  <2>1. live' = live
    BY <1>5 DEF DropRow, CountLeft
  <2> QED
    BY <1>5, <2>1, DroppingKeeps
<1>6. ASSUME NEW r \in Poster, Discard(r) \/ Purge(r) \/ DropObject(r) PROVE live' /\ LiveOK'
  <2>1. live' = live
    BY <1>6 DEF Discard, Purge, DropObject, RemoveObject
  <2> QED
    BY <1>6, <2>1, ObjectsKeep
<1>7. ASSUME NEW r \in Poster, WriteNote(r) \/ WriteEdit(r) \/ WriteFile(r) PROVE live' /\ LiveOK'
  <2>1. live' = live
    BY <1>7 DEF WriteNote, WriteEdit, WriteFile
  <2> QED
    BY <1>7, <2>1, WriteNoteKeeps, WriteEditKeeps, WriteFileKeeps
<1>8. ASSUME NEW r \in Poster, CloseFile(r) \/ CloseNote(r) \/ DeleteNote(r) PROVE live' /\ LiveOK'
  <2>1. live' = live
    BY <1>8 DEF CloseFile, CloseNote, DeleteNote, Delete
  <2> QED
    BY <1>8, <2>1, DeletionsKeep
<1>9. ASSUME NEW r \in Poster, GiveUpPost(r) PROVE live' /\ LiveOK'
  BY <1>9, FinishKeeps DEF GiveUpPost
<1>10. ASSUME NEW r \in Poster, RemoveTask(r) PROVE ~live' /\ OverOK'
  <2>1. \A n \in Note : notes'[n] = IF Present(n) THEN "gone" ELSE notes[n]
    BY <1>10 DEF RemoveTask
  <2>2. ~live' /\ \A k \in File : filed'[k] = Nowhere
    BY <1>10 DEF RemoveTask
  <2> QED
    BY <2>1, <2>2 DEF OverOK, Present
<1> QED
  BY <1>1, <1>2, <1>3, <1>4, <1>5, <1>6, <1>7, <1>8, <1>9, <1>10 DEF ThreadNext

\* Of a task that is deleted nothing comes back.
LEMMA OverNext == ThreadTypes /\ OverOK /\ ~live /\ [ThreadNext]_thread => ~live' /\ OverOK'
<1> SUFFICES ASSUME ThreadTypes, OverOK, ~live, [ThreadNext]_thread
             PROVE  ~live' /\ OverOK'
  OBVIOUS
<1>0. Holders = {}
  BY DEF Holders, OverOK
<1>1. ASSUME UNCHANGED <<live, notes, filed>> PROVE ~live' /\ OverOK'
  BY <1>1 DEF OverOK, Present
<1>2. CASE UNCHANGED thread
  BY <1>1, <1>2 DEF thread
<1>3. ASSUME NEW k \in File, Stage(k) PROVE UNCHANGED <<live, notes, filed>>
  BY <1>3 DEF Stage
<1>4. ASSUME NEW r \in Poster,
             \/ GiveUpPost(r) \/ CheckAttached(r) \/ CheckBytes(r) \/ FailNote(r) \/ Discard(r)
             \/ Purge(r) \/ DropObject(r) \/ DropRow(r) \/ CountLeft(r)
      PROVE  UNCHANGED <<live, notes, filed>>
  BY <1>4 DEF GiveUpPost, CheckAttached, CheckBytes, FailNote, Discard, Purge, RemoveObject,
     DropObject, DropRow, CountLeft
<1>5. ASSUME NEW r \in Poster,
             \/ PostNote(r) \/ ReadTask(r)
             \/ \E n \in Note : EditNote(r, n) \/ ReadNote(r, n)
             \/ \E k \in File : ConfirmFile(r, k) \/ ReadFile(r, k)
      PROVE  UNCHANGED <<live, notes, filed>>
  BY <1>5 DEF PostNote, ReadTask, EditNote, ReadNote, ConfirmFile, ReadFile
<1>6. ASSUME NEW r \in Poster, WriteNote(r) \/ WriteFile(r) \/ RemoveTask(r) PROVE FALSE
  BY <1>0, <1>6 DEF WriteNote, WriteFile, RemoveTask
<1>7. ASSUME NEW r \in Poster, NEW F, Without(r, F) PROVE \A k \in File : filed'[k] = Nowhere
  BY <1>7, Withouts DEF OverOK
<1>8. ASSUME NEW r \in Poster, CloseFile(r) \/ CloseNote(r) \/ DeleteNote(r) \/ WriteEdit(r)
      PROVE  ~live' /\ OverOK'
  <2>1. live' = live /\ \A k \in File : filed'[k] = Nowhere
    BY <1>7, <1>8 DEF CloseFile, CloseNote, DeleteNote, Delete, WriteEdit, OverOK
  <2>2. CASE CloseFile(r)
    BY <2>1, <2>2 DEF CloseFile, OverOK, Present
  <2>3. ASSUME NEW n, Delete(r, n) PROVE \A m \in Note : notes'[m] \in {"gone", notes[m]}
    BY <2>3 DEF Delete, ThreadTypes
  <2>4. CASE CloseNote(r) \/ DeleteNote(r)
    BY <2>1, <2>3, <2>4 DEF CloseNote, DeleteNote, OverOK, Present
  <2>5. CASE WriteEdit(r)
    <3>1. post[r].note \notin Note
      BY <2>5 DEF WriteEdit, OverOK
    <3>2. \A m \in Note : notes'[m] = notes[m]
      BY <2>5, <3>1 DEF WriteEdit, ThreadTypes
    <3> QED
      BY <2>1, <3>2 DEF OverOK, Present
  <2> QED
    BY <1>8, <2>2, <2>4, <2>5
<1> QED
  BY <1>1, <1>2, <1>3, <1>4, <1>5, <1>6, <1>8 DEF ThreadNext

LEMMA ThreadInvariance == ThreadSpec => []ThreadInv
<1>1. ThreadInit => ThreadInv
  <2> SUFFICES ASSUME ThreadInit PROVE ThreadInv
    OBVIOUS
  <2>1. NoPost \in PostState /\ NoPost.pc = "idle"
    BY DEF NoPost, PostState
  <2>2. ThreadTypes
    BY <2>1 DEF ThreadInit, ThreadTypes
  <2>3. \A q \in Poster : post[q].pc = "idle"
    BY <2>1 DEF ThreadInit
  <2>4. LiveOK
    BY <2>3 DEF ThreadInit, LiveOK, PostsDrafts, Deletes, Dropped, Disjoint, Pending, Carried, Attached
  <2> QED
    BY <2>2, <2>4 DEF ThreadInit, ThreadInv
<1>2. ThreadInv /\ [ThreadNext]_thread => ThreadInv'
  BY TypesKept, LiveNext, OverNext DEF ThreadInv
<1> QED
  BY <1>1, <1>2, PTL DEF ThreadSpec

\* createComment, updateComment, deleteComment, deleteAttachment and deleteTask together:
\* no comment that stands has a file without its object, and none is empty.
THEOREM ThreadTheorem == ThreadSpec => []ThreadHolds
<1>1. ASSUME ThreadInv PROVE ThreadHolds
  <2>1. CASE live
    <3>1. FilesKept
      BY <1>1, <2>1 DEF ThreadInv, LiveOK, Attached, FilesKept, Excused
    <3>2. NoneEmpty
      BY <1>1, <2>1 DEF ThreadInv, LiveOK, Carried, NoneEmpty
    <3> QED
      BY <3>1, <3>2 DEF ThreadHolds
  <2>2. CASE ~live
    BY <1>1, <2>2 DEF ThreadInv, OverOK, Present, ThreadHolds, FilesKept, NoneEmpty
  <2> QED
    BY <2>1, <2>2
<1> QED
  BY <1>1, ThreadInvariance, PTL
=============================================================================
