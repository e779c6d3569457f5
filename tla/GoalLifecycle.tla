---------------------------- MODULE GoalLifecycle ----------------------------
(***************************************************************************)
(* One goal of an employee, from its draft to its resolution, the windows  *)
(* in which people have it open, and the scheduler's review pass.          *)
(*                                                                         *)
(* A request reads the goal, checks it, and writes it in another           *)
(* statement, by its id alone: what the check has read may be gone. The    *)
(* ghosts late and raced tell the requests that met this.                  *)
(***************************************************************************)
EXTENDS Naturals

CONSTANTS
    User, Admin, Owner,     \* the people, and whose goal it is
    Window,     \* the windows that show the goal
    Terms,      \* what a goal may commit to: metric, target, deadline
    MaxWrites   \* bound of the runs

ASSUME GoalAssumption ==
    Admin \subseteq User /\ Owner \in User /\ MaxWrites \in Nat

VARIABLES
    goal,       \* the row
    supervisor, \* the owner's direct supervisor (a set)
    past,       \* the terms whose deadline has passed
    win,        \* the windows, with the request each has under way
    agreed,     \* the terms the supervisor saw when approving (a set)
    raced       \* a late request has written (ghost)

vars == <<goal, supervisor, past, win, agreed, raced>>

NoGoal == [status |-> "none", creator |-> Owner, terms |-> {}, version |-> 0,
           submitted |-> FALSE, approvedBy |-> {}, reviewed |-> FALSE, final |-> FALSE,
           rejected |-> FALSE, resolvedBy |-> {}]

\* A request is late (a ghost) once another has written the goal since it was read.
Closed == [user |-> Owner, pc |-> "closed", op |-> "none", version |-> 0, terms |-> {},
           late |-> FALSE]

Init ==
    /\ goal = NoGoal /\ agreed = {} /\ past = {} /\ raced = FALSE
    /\ supervisor \in {{}} \cup {{u} : u \in User}
    /\ win = [w \in Window |-> Closed]

\* isDirectSupervisor
Supervises(u) == u # Owner /\ u \in supervisor

\* createGoal
Create ==
    /\ goal.status = "none"
    /\ \E u \in User, t \in Terms :
          /\ u = Owner \/ u \in Admin \/ Supervises(u)
          /\ goal' = [goal EXCEPT !.status = "Draft", !.creator = u, !.terms = {t}]
    /\ UNCHANGED <<supervisor, past, win, agreed, raced>>

\* Someone has the goal on the screen, with its updatedAt: from getGoal, from the team
\* list of a manager further up, or as its creator. Who it is grants nothing.
Open(w) ==
    /\ win[w].pc \in {"closed", "shown"}
    /\ goal.status \notin {"none", "gone"}
    /\ \E u \in User :
          win' = [win EXCEPT ![w] = [user |-> u, pc |-> "shown", op |-> "none",
                                     version |-> goal.version, terms |-> goal.terms,
                                     late |-> FALSE]]
    /\ UNCHANGED <<goal, supervisor, past, agreed, raced>>

-----------------------------------------------------------------------------
(* A request.                                                              *)

\* Mutant of Needs: results stay open to the end.
NeedsLess(op) ==
    CASE op \in {"edit", "delete", "submit"} -> {"Draft"}
      [] op \in {"approve", "reject"} -> {"PendingApproval"}
      [] op = "finalize" -> {"Approved"}
      [] op = "progress" -> {"Approved", "UnderReview", "Resolved"}
      [] op = "resolve" -> {"UnderReview"}

\* The status guard of each operation.
Needs(op) ==
    CASE op \in {"edit", "delete", "submit"} -> {"Draft"}
      [] op \in {"approve", "reject"} -> {"PendingApproval"}
      [] op \in {"progress", "finalize"} -> {"Approved"}
      [] op = "resolve" -> {"UnderReview"}

Supervised == {"approve", "reject", "resolve"}
Operation == {"edit", "delete", "submit", "progress", "finalize"} \cup Supervised

\* canEditDraft and assertIsOwner; the supervised ones are checked in Authorize.
May(u, op) ==
    \/ u = Owner \/ u \in Admin \/ op \in Supervised
    \/ op \in {"edit", "delete", "submit"} /\ u = goal.creator

\* Mutant of Fresh: no optimistic check.
FreshAlways(w) == TRUE

\* assertNotStale; deleteGoal has none.
Fresh(w) == win[w].version = goal.version

\* A request reads the goal and checks it.
Ask(w, op) ==
    /\ win[w].pc = "shown" /\ goal.version < MaxWrites
    /\ goal.status \in Needs(op)
    /\ op = "delete" \/ Fresh(w)
    /\ May(win[w].user, op)
    /\ win' = [win EXCEPT ![w].op = op,
                          ![w].pc = IF op \in Supervised THEN "authorize" ELSE "write"]
    /\ UNCHANGED <<goal, supervisor, past, agreed, raced>>

\* assertCanSupervise reads the owner in a statement of its own.
Authorize(w) ==
    /\ win[w].pc = "authorize"
    /\ win' = IF win[w].user \in Admin \/ Supervises(win[w].user)
              THEN [win EXCEPT ![w].pc = "write"]
              ELSE [win EXCEPT ![w] = Closed]
    /\ UNCHANGED <<goal, supervisor, past, agreed, raced>>

\* Mutant of Rejected: the submission is not taken back.
RejectedSubmitted(g) == [g EXCEPT !.status = "Draft", !.rejected = TRUE]

\* rejectGoal: back to the draft, with the reason, and no longer submitted.
Rejected(g) == [g EXCEPT !.status = "Draft", !.submitted = FALSE, !.rejected = TRUE]

\* What each operation writes, but for new terms.
Written(g, op, u) ==
    CASE op = "submit" -> [g EXCEPT !.status = "PendingApproval", !.submitted = TRUE]
      [] op = "approve" -> [g EXCEPT !.status = "Approved", !.approvedBy = {u},
                                     !.rejected = FALSE]
      [] op = "reject" -> Rejected(g)
      [] op = "finalize" -> [g EXCEPT !.status = "UnderReview", !.reviewed = TRUE,
                                      !.final = TRUE]
      [] op = "resolve" -> [g EXCEPT !.status = "Resolved", !.resolvedBy = {u}]
      [] OTHER -> g

\* A request is under way in the window.
Busy(w) == win[w].pc \in {"authorize", "write"}

\* The update or delete by id; it fails when the goal is gone.
Write(w) ==
    /\ win[w].pc = "write"
    /\ win' = [v \in Window |-> IF v = w THEN Closed
                                ELSE [win[v] EXCEPT !.late = @ \/ Busy(v)]]
    /\ raced' = (raced \/ win[w].late)
    /\ LET q == win[w]
       IN CASE goal.status = "gone" -> UNCHANGED goal
            [] goal.status # "gone" /\ q.op = "delete" -> goal' = [NoGoal EXCEPT !.status = "gone"]
            [] OTHER -> \E t \in IF q.op = "edit" THEN {{x} : x \in Terms} ELSE {goal.terms} :
                  goal' = [Written(goal, q.op, q.user) EXCEPT !.terms = t, !.version = @ + 1]
    /\ agreed' = IF win[w].op = "approve" THEN win[w].terms ELSE agreed
    /\ UNCHANGED <<supervisor, past>>

-----------------------------------------------------------------------------
(* What goes on meanwhile.                                                 *)

\* Mutant of ReviewPass: it goes by the deadline alone.
ReviewPassAny ==
    /\ goal.status \in {"PendingApproval", "Approved", "UnderReview"}
    /\ goal.terms \subseteq past
    /\ goal' = [goal EXCEPT !.status = "UnderReview", !.reviewed = TRUE, !.version = @ + 1]
    /\ UNCHANGED <<supervisor, past, win, agreed, raced>>

\* runGoalReviewPass: one conditional update.
ReviewPass ==
    /\ goal.status = "Approved" /\ goal.terms \subseteq past
    /\ goal' = [goal EXCEPT !.status = "UnderReview", !.reviewed = TRUE, !.version = @ + 1]
    /\ UNCHANGED <<supervisor, past, win, agreed, raced>>

\* A deadline passes.
Deadline ==
    /\ \E t \in Terms \ past : past' = past \cup {t}
    /\ UNCHANGED <<goal, supervisor, win, agreed, raced>>

\* The owner gets another supervisor, or none.
Reorganize ==
    /\ supervisor' \in {{}} \cup {{u} : u \in User}
    /\ UNCHANGED <<goal, past, win, agreed, raced>>

Next ==
    \/ Create \/ ReviewPass \/ Deadline \/ Reorganize
    \/ \E w \in Window : Open(w) \/ Authorize(w) \/ Write(w) \/ \E op \in Operation : Ask(w, op)

Spec == Init /\ [][Next]_vars

-----------------------------------------------------------------------------
Status == {"none", "Draft", "PendingApproval", "Approved", "UnderReview", "Resolved", "gone"}

\* The row, the windows and their requests keep their types, the stages of the schema's
\* GoalStatus among them.
TypeOK ==
    /\ goal \in [status : Status, creator : User, terms : SUBSET Terms, version : Nat,
                 submitted : BOOLEAN, approvedBy : SUBSET User, reviewed : BOOLEAN,
                 final : BOOLEAN, rejected : BOOLEAN, resolvedBy : SUBSET User]
    /\ supervisor \subseteq User /\ past \subseteq Terms /\ agreed \subseteq Terms
    /\ win \in [Window -> [user : User, pc : {"closed", "shown", "authorize", "write"},
                           op : Operation \cup {"none"}, version : Nat,
                           terms : SUBSET Terms, late : BOOLEAN]]
    /\ raced \in BOOLEAN

\* The stages a goal is in after its approval.
Active == {"Approved", "UnderReview", "Resolved"}

\* The workflow stamps tell the status. A goal is never active without an approver, nor
\* under review or resolved without their stamps, whatever requests come together; and
\* unless a late request has written, a stamp is set only in its stages: a reject takes
\* the submission back, an approval the reason of an earlier rejection.
StampsOK ==
    /\ goal.status \in Active => goal.approvedBy # {}
    /\ goal.status \in {"UnderReview", "Resolved"} => goal.reviewed
    /\ goal.status = "Resolved" => goal.resolvedBy # {}
    /\ goal.final => goal.reviewed
    /\ ~raced =>
          /\ goal.submitted <=> goal.status \in {"PendingApproval"} \cup Active
          /\ goal.approvedBy # {} => goal.status \in Active
          /\ goal.reviewed => goal.status \in {"UnderReview", "Resolved"}
          /\ goal.resolvedBy # {} => goal.status = "Resolved"
          /\ goal.rejected => goal.status \in {"Draft", "PendingApproval"}

\* "The supervisor must always approve it before it becomes active": who has approved a
\* goal is not its owner unless an admin, and unless a late request has written, an
\* active goal says what its approver had on the screen.
AgreedTerms ==
    /\ \A u \in goal.approvedBy : u # Owner \/ u \in Admin
    /\ goal.status \in Active => goal.terms = agreed \/ raced

Stages ==
    {<<"none", "Draft">>, <<"Draft", "gone">>, <<"Draft", "PendingApproval">>,
     <<"PendingApproval", "Draft">>, <<"PendingApproval", "Approved">>,
     <<"Approved", "UnderReview">>, <<"UnderReview", "Resolved">>}

\* This step is the write of a late request.
LateWrite == \E w \in Window : win[w].late /\ Write(w)

\* The status goes through the lifecycle of architecture.md, one stage at a time, but
\* for the write of a late request: also after one, and with the review pass anywhere.
StageByStage ==
    [][goal'.status # goal.status => <<goal.status, goal'.status>> \in Stages \/ LateWrite]_vars

\* "Terminal: no further edits are accepted": a resolved goal never changes, but by a
\* request that has read it before it was resolved.
ResolvedIsFinal == [][goal.status = "Resolved" => goal' = goal \/ LateWrite]_vars

\* The lifecycle as architecture.md has it: no request skips a stage, late or not.
NoStageSkipped ==
    [][goal'.status # goal.status => <<goal.status, goal'.status>> \in Stages]_vars
=============================================================================
