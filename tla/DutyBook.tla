------------------------------ MODULE DutyBook ------------------------------
(***************************************************************************)
(* The duties of one department, who holds them, and one task that carries *)
(* one: a task with a duty goes to somebody who holds it. Requests check   *)
(* that in readings of their own, before they write. Archiving, taking a   *)
(* duty away and applying a template change nothing about tasks that do    *)
(* not fit any more. Work that is made by the timer, from a template or by *)
(* a recurrence, is checked afterwards, and the owner is told; a copy is   *)
(* not checked at all. The merge of two accounts is left out.              *)
(***************************************************************************)
EXTENDS Naturals

CONSTANTS
    DutyId, Holder,
    Clerk,      \* the requests that may be under way at once
    NoDuty, NoHolder, AsIs,
    MaxOrders   \* a bound of the runs: requests

ASSUME DutyAssumption ==
    /\ {NoDuty, AsIs} \cap DutyId = {} /\ NoDuty # AsIs
    /\ {NoHolder, AsIs} \cap Holder = {} /\ NoHolder # AsIs
    /\ AsIs \notin {"Open", "Review"} /\ MaxOrders \in Nat

VARIABLES
    dept,       \* whether the department is archived
    catalog,    \* each duty: not there yet, active, archived, or deleted
    holdings,   \* <<p, d>>: p holds d
    work,        \* the task, or the last copy of it that was made
    node,       \* the duty on the node of the template it may be made from
    order,      \* the requests
    warned,       \* whether the owner was told that the task does not fit
    excused,    \* whether its doer or duty came about by a reading that was old, ...
    slipped,    \* the duties that became active on one
    ordered

duties == <<dept, catalog, holdings, work, node, order, warned, excused, slipped, ordered>>

NoWork == [at |-> "none", made |-> FALSE, duty |-> NoDuty, assignee |-> NoHolder, status |-> "Open",
          prior |-> NoHolder]
NoOrder == [pc |-> "idle", kind |-> "none", duty |-> NoDuty, who |-> NoHolder, status |-> AsIs,
            saw |-> NoWork, void |-> FALSE]

Exists(d) == d \in {NoDuty} \cup {e \in DutyId : catalog[e] \in {"active", "archived"}}
\* assertDutyAssignable
Assignable(d) == d \in {NoDuty} \cup {e \in DutyId : catalog[e] = "active" /\ dept = "active"}
Holds(p, d) == <<p, d>> \in holdings
There == work.at = "there"
Used(d) == node = d \/ (There /\ work.duty = d) \/ \E p \in Holder : Holds(p, d)

\* isDutyMismatch: the one who does the task, who is not its reviewer, has not its duty.
Doer(t) == IF t.status = "Review" /\ t.prior # NoHolder THEN t.prior ELSE t.assignee
Pair(t) == <<Doer(t), t.duty>>
Misses(p, d) == p # NoHolder /\ d # NoDuty /\ ~Holds(p, d)
Mismatch(t) == t.at = "there" /\ Misses(Doer(t), t.duty)

DutiesInit ==
    /\ dept = "active" /\ catalog \in [DutyId -> {"none", "active"}]
    /\ holdings \in SUBSET (Holder \X {d \in DutyId : catalog[d] = "active"})
    /\ work \in {NoWork} \cup [at : {"there"}, made : {TRUE}, status : {"Open"}, prior : {NoHolder},
                             duty : {NoDuty} \cup {d \in DutyId : catalog[d] = "active"}, assignee : Holder]
    /\ node \in {NoDuty} \cup {d \in DutyId : catalog[d] = "active"}
    /\ ~Mismatch(work)
    /\ order = [r \in Clerk |-> NoOrder]
    /\ warned = FALSE /\ excused = FALSE /\ slipped = {} /\ ordered = 0

Place(r, pc, o) ==
    /\ order[r] = NoOrder /\ ordered < MaxOrders /\ ordered' = ordered + 1
    /\ order' = [order EXCEPT ![r] = [o EXCEPT !.pc = pc]]
Ask(r, pc, d, p) == Place(r, pc, [NoOrder EXCEPT !.duty = d, !.who = p])
Step(r, from, to) == order[r].pc = from /\ order' = [order EXCEPT ![r].pc = to]
End(r) == order' = [order EXCEPT ![r] = NoOrder]

\* Refused, failed, or the process died, after it has made a task perhaps.
GiveUpOrder(r) ==
    /\ order[r].pc # "idle" /\ End(r)
    /\ excused' = (excused \/ order[r].pc = "notify")
    /\ UNCHANGED <<dept, catalog, holdings, work, node, warned, slipped, ordered>>

-----------------------------------------------------------------------------
(* The catalog.                                                            *)

\* What the operations of the catalog, of its holders and of templates read first.
AskBook(r) ==
    /\ \/ dept = "active" /\ Ask(r, "archive", NoDuty, NoHolder)
       \/ \E d \in DutyId :
            \/ dept = "active" /\ catalog[d] = "none" /\ Ask(r, "add", d, NoHolder)
            \/ dept = "active" /\ Exists(d) /\ Ask(r, "restore", d, NoHolder)
            \/ Exists(d) /\ ~Used(d) /\ Ask(r, "delete", d, NoHolder)
            \/ \E p \in Holder : Assignable(d) /\ Ask(r, "grant", d, p)
       \/ \E d \in DutyId \cup {NoDuty} : (d = node \/ Assignable(d)) /\ Ask(r, "node", d, NoHolder)
    /\ UNCHANGED <<dept, catalog, holdings, work, node, warned, excused, slipped>>

\* The department and all that is active under it.
ArchiveDepartment(r) ==
    /\ order[r].pc = "archive" /\ dept' = "archived"
    /\ catalog' = [d \in DutyId |-> IF catalog[d] = "active" THEN "archived" ELSE catalog[d]]
    /\ slipped' = {}
    /\ order' = [q \in Clerk |->
          IF q = r THEN NoOrder
          ELSE IF order[q].pc \in {"add", "restore"} THEN [order[q] EXCEPT !.void = TRUE] ELSE order[q]]
    /\ UNCHANGED <<holdings, work, node, warned, excused, ordered>>

Activate(r) ==
    LET d == order[r].duty
    IN  /\ catalog' = [catalog EXCEPT ![d] = "active"]
        /\ slipped' = IF order[r].void THEN slipped \cup {d} ELSE slipped
        /\ End(r) /\ UNCHANGED <<dept, holdings, work, node, warned, excused, ordered>>

CreateDuty(r) == order[r].pc = "add" /\ catalog[order[r].duty] = "none" /\ Activate(r)
RestoreDuty(r) == order[r].pc = "restore" /\ Exists(order[r].duty) /\ Activate(r)

RestoreDepartment ==
    /\ dept' = "active"
    /\ UNCHANGED <<catalog, holdings, work, node, order, warned, excused, slipped, ordered>>

ArchiveDuty(d) ==
    /\ catalog[d] = "active" /\ catalog' = [catalog EXCEPT ![d] = "archived"]
    /\ UNCHANGED <<dept, holdings, work, node, order, warned, excused, slipped, ordered>>

\* A reference that has come about since the count refuses it.
DeleteDuty(r) ==
    LET d == order[r].duty
    IN  /\ order[r].pc = "delete" /\ Exists(d) /\ ~Used(d)
        /\ catalog' = [catalog EXCEPT ![d] = "gone"]
        /\ End(r) /\ UNCHANGED <<dept, holdings, work, node, warned, excused, slipped, ordered>>

\* grantDuty, saveOrgChanges
GrantDuty(r) ==
    /\ order[r].pc = "grant" /\ Exists(order[r].duty)
    /\ holdings' = holdings \cup {<<order[r].who, order[r].duty>>}
    /\ End(r) /\ UNCHANGED <<dept, catalog, work, node, warned, excused, slipped, ordered>>

\* reconcileTree
SetNode(r) ==
    /\ order[r].pc = "node" /\ Exists(order[r].duty) /\ node' = order[r].duty
    /\ End(r) /\ UNCHANGED <<dept, catalog, holdings, work, warned, excused, slipped, ordered>>

-----------------------------------------------------------------------------
(* The task.                                                               *)

AfterDuty(o) == IF o.duty = AsIs THEN o.saw.duty ELSE o.duty
SentToReview(o) == o.kind = "edit" /\ o.status = "Review"

\* Mutant of Judged: the one who has the task.
JudgedByName(o) == IF o.who = AsIs \/ SentToReview(o) THEN o.saw.assignee ELSE o.who

\* Whom the rule is about: in Review, and on the way there, who has it otherwise.
Judged(o) ==
    IF SentToReview(o) THEN o.saw.assignee
    ELSE IF o.saw.status = "Review" /\ o.saw.prior # NoHolder THEN o.saw.prior
    ELSE IF o.who = AsIs THEN o.saw.assignee ELSE o.who

\* When the rule applies: the duty or the assignee changes, other than for a review.
Ruled(o) ==
    /\ AfterDuty(o) # NoDuty /\ Judged(o) # NoHolder
    /\ o.duty # AsIs \/ (o.who # AsIs /\ ~SentToReview(o))

\* createTask, updateTask, exitReview, instantiateTemplate, a fire of the scheduler,
\* applyTemplateToOccurrences, duplicateTask and a fire of a recurrence, as they begin. The
\* last carries forward the assignee of the latest occurrence, whoever that is. A copy is
\* made for the assignee, who in Review is the reviewer: void if he has not the duty.
AskWork(r) ==
    /\ \/ /\ work.at = "none"
          /\ \E d \in DutyId \cup {NoDuty}, p \in Holder, s \in {"Open", "Review"} :
                Place(r, "active", [NoOrder EXCEPT !.kind = "create", !.duty = d, !.who = p, !.status = s])
       \/ /\ There /\ work.status = "Open"
          /\ \E d \in (DutyId \cup {NoDuty, AsIs}) \ {work.duty}, p \in Holder \cup {AsIs}, s \in {AsIs, "Review"} :
                /\ (s = "Review" => p # AsIs) /\ (s = AsIs => p # work.assignee /\ (d # AsIs \/ p # AsIs))
                /\ Place(r, "active", [NoOrder EXCEPT !.kind = "edit", !.duty = d, !.who = p, !.status = s,
                                                      !.saw = work])
       \/ /\ There /\ work.status = "Review"
          /\ \/ \E d \in (DutyId \cup {NoDuty}) \ {work.duty} :
                   Place(r, "active", [NoOrder EXCEPT !.kind = "edit", !.duty = d, !.who = AsIs, !.saw = work])
             \/ Place(r, "again", [NoOrder EXCEPT !.kind = "exit", !.duty = AsIs, !.who = work.prior,
                                                  !.status = "Open", !.saw = work])
       \/ /\ work.at = "none"
          /\ \/ \E p \in Holder : Place(r, "holds", [NoOrder EXCEPT !.kind = "fill", !.duty = node, !.who = p])
             \/ \E p \in Holder \cup {NoHolder} : Place(r, "write", [NoOrder EXCEPT !.kind = "fill", !.who = p])
       \/ /\ There /\ work.made
          /\ Place(r, "apply", [NoOrder EXCEPT !.duty = node, !.saw = work])
       \/ /\ There
          /\ \/ Place(r, "write", [NoOrder EXCEPT !.kind = "copy", !.duty = work.duty, !.who = work.assignee,
                                                  !.void = Misses(work.assignee, work.duty)])
             \/ \E p \in Holder \cup {NoHolder} :
                   Place(r, "write", [NoOrder EXCEPT !.kind = "recur", !.duty = work.duty, !.who = p])
    /\ UNCHANGED <<dept, catalog, holdings, work, node, warned, excused, slipped>>

CheckActive(r) ==
    /\ Step(r, "active", "holds") /\ (order[r].duty # AsIs => Assignable(order[r].duty))
    /\ UNCHANGED <<dept, catalog, holdings, work, node, warned, excused, slipped, ordered>>

\* assertHoldsDuty, templateDutyProblems
CheckHolds(r) ==
    /\ Step(r, "holds", "write") /\ (Ruled(order[r]) => Holds(Judged(order[r]), AfterDuty(order[r])))
    /\ UNCHANGED <<dept, catalog, holdings, work, node, warned, excused, slipped, ordered>>

\* exitReview has read the task; updateTask reads it again, and checks nothing of this.
LookAgain(r) ==
    /\ order[r].pc = "again"
    /\ order' = [order EXCEPT ![r].pc = "write", ![r].kind = IF work.status = "Review" THEN "exit" ELSE "late exit"]
    /\ UNCHANGED <<dept, catalog, holdings, work, node, warned, excused, slipped, ordered>>

\* What is written stands, with what was known of it if it makes no difference here.
Write(new, why) ==
    /\ work' = new /\ Exists(new.duty)
    /\ warned' = (warned /\ Pair(new) = Pair(work))
    /\ excused' = IF Pair(new) = Pair(work) THEN excused ELSE why
    /\ UNCHANGED <<dept, catalog, holdings, node, slipped, ordered>>

CreateWork(r) ==
    /\ order[r].pc = "write" /\ order[r].kind = "create" /\ work.at = "none" /\ End(r)
    /\ Write([NoWork EXCEPT !.at = "there", !.duty = order[r].duty, !.assignee = order[r].who,
                           !.status = order[r].status], order[r].void)

EditWork(r) ==
    LET o == order[r]
    IN  /\ o.pc = "write" /\ o.kind \in {"edit", "exit", "late exit"} /\ There /\ End(r)
        /\ Write([work EXCEPT !.duty = IF o.duty = AsIs THEN @ ELSE o.duty,
                             !.assignee = IF o.who = AsIs THEN @ ELSE o.who,
                             !.status = IF o.status = AsIs THEN @ ELSE o.status,
                             !.prior = IF SentToReview(o) THEN o.saw.assignee
                                       ELSE IF o.kind = "exit" THEN NoHolder ELSE @],
                 o.void \/ o.saw # work \/ (SentToReview(o) /\ work.assignee = NoHolder))

\* generateOccurrence: the duty is the one the node has by now.
Generate(r) ==
    /\ Step(r, "write", "notify") /\ order[r].kind = "fill" /\ work.at = "none"
    /\ Write([NoWork EXCEPT !.at = "there", !.made = TRUE, !.duty = node, !.assignee = order[r].who], FALSE)

\* The request is about the task, or to make one.
OfTask(o) == o.pc \in {"active", "holds", "again", "write", "apply", "notify"}

\* duplicateTask checks nothing and tells nobody; generateTaskOccurrence tells afterwards.
\* From here on the copy is the task that is followed, and nobody works on it yet.
CopyWork(r) ==
    LET o == order[r]
    IN  /\ o.pc = "write" /\ o.kind \in {"copy", "recur"} /\ Exists(o.duty)
        /\ work' = [NoWork EXCEPT !.at = "there", !.duty = o.duty, !.assignee = o.who]
        /\ order' = [q \in Clerk |->
              IF q = r THEN IF o.kind = "recur" THEN [o EXCEPT !.pc = "notify"] ELSE NoOrder
              ELSE IF OfTask(order[q]) THEN NoOrder ELSE order[q]]
        /\ warned' = FALSE /\ excused' = (o.kind = "copy" /\ o.void)
        /\ UNCHANGED <<dept, catalog, holdings, node, slipped, ordered>>

\* notifyDutyMismatches: of who has the task by now, the reviewer too.
Notify(r) ==
    /\ order[r].pc = "notify" /\ End(r)
    /\ warned' = (warned \/ (There /\ Misses(work.assignee, work.duty)))
    /\ excused' = (excused \/ work.status = "Review")
    /\ UNCHANGED <<dept, catalog, holdings, work, node, slipped, ordered>>

\* applyTemplateToOccurrences: never blocked.
Apply(r) ==
    /\ order[r].pc = "apply" /\ There /\ End(r)
    /\ Write([work EXCEPT !.duty = order[r].duty], TRUE)

\* saveOrgChanges
TakeAway(p, d) ==
    /\ Holds(p, d) /\ holdings' = holdings \ {<<p, d>>}
    /\ excused' = (excused \/ (There /\ Pair(work) = <<p, d>>))
    /\ order' = [q \in Clerk |->
          IF order[q].pc = "write" /\ order[q].kind \in {"create", "edit", "copy"} /\ Ruled(order[q])
             /\ <<Judged(order[q]), AfterDuty(order[q])>> = <<p, d>>
          THEN [order[q] EXCEPT !.void = TRUE] ELSE order[q]]
    /\ UNCHANGED <<dept, catalog, work, node, warned, slipped, ordered>>

DeleteWork ==
    /\ There /\ work' = [NoWork EXCEPT !.at = "gone"]
    /\ UNCHANGED <<dept, catalog, holdings, node, order, warned, excused, slipped, ordered>>

-----------------------------------------------------------------------------
DutiesNext ==
    \/ RestoreDepartment \/ DeleteWork
    \/ \E d \in DutyId : ArchiveDuty(d) \/ \E p \in Holder : TakeAway(p, d)
    \/ \E r \in Clerk :
         \/ AskBook(r) \/ ArchiveDepartment(r) \/ CreateDuty(r) \/ RestoreDuty(r) \/ DeleteDuty(r)
         \/ GrantDuty(r) \/ SetNode(r)
         \/ AskWork(r) \/ CheckActive(r) \/ CheckHolds(r) \/ LookAgain(r) \/ CreateWork(r) \/ EditWork(r)
         \/ Generate(r) \/ CopyWork(r) \/ Notify(r) \/ Apply(r) \/ GiveUpOrder(r)

DutiesSpec == DutiesInit /\ [][DutiesNext]_duties

\* A duty that is used is there, and in an archived department none is active, unless it
\* was created or restored while the department was archived.
CatalogKept ==
    /\ \A d \in DutyId : Used(d) => Exists(d)
    /\ dept = "archived" => \A d \in DutyId : catalog[d] = "active" => d \in slipped

\* A task whose doer does not hold its duty came about by two requests at once, by a
\* template that was applied, by a review of a task nobody had, as the copy of a task whose
\* assignee (the reviewer of one in Review) had not its duty, or by the duty that was taken
\* away later; or the owner of the template or of the series was told, or is about to be,
\* unless the process died or the task was in Review by then.
MismatchKnown ==
    Mismatch(work) => excused \/ warned \/ \E r \in Clerk : order[r].pc = "notify"

\* Both.
DutiesHold == CatalogKept /\ MismatchKnown
=============================================================================
