------------------------ MODULE GoalLifecycleProofs ------------------------
(***************************************************************************)
(* Proofs about GoalLifecycle, for any people, terms and windows, however  *)
(* the requests, the review pass, the deadlines and reorganizations come   *)
(* between one another's statements.                                       *)
(***************************************************************************)
EXTENDS GoalLifecycle, TLAPS

\* Where a goal can be when the request that has read it writes it: the review
\* pass may have come first.
Reaches(op) == IF op \in {"progress", "finalize"} THEN {"Approved", "UnderReview"} ELSE Needs(op)

\* A window that shows the present version shows its terms.
ShownOK(w) ==
    win[w].pc # "closed" /\ goal.status # "gone" =>
        /\ goal.status # "none"
        /\ win[w].version <= goal.version
        /\ win[w].version = goal.version => win[w].terms = goal.terms

\* What no other request takes back: who may approve, and the stamps of the stages the
\* goal has been through.
KeptOK(w) ==
    Busy(w) =>
        /\ win[w].op \in Operation
        /\ win[w].op = "approve" /\ win[w].pc = "write" =>
              win[w].user # Owner \/ win[w].user \in Admin
        /\ goal.status # "gone" =>
              /\ win[w].op \in {"finalize", "resolve"} => goal.approvedBy # {}
              /\ win[w].op = "resolve" => goal.reviewed

\* What a request has checked still holds, unless it is late.
BusyOK(w) ==
    Busy(w) /\ ~win[w].late =>
        /\ goal.status \in Reaches(win[w].op)
        /\ win[w].op = "approve" => win[w].version = goal.version

WindowsOK == \A w \in Window : ShownOK(w) /\ KeptOK(w) /\ BusyOK(w)

IInv == TypeOK /\ StampsOK /\ AgreedTerms /\ WindowsOK

Row == [status : Status, creator : User, terms : SUBSET Terms, version : Nat,
        submitted : BOOLEAN, approvedBy : SUBSET User, reviewed : BOOLEAN,
        final : BOOLEAN, rejected : BOOLEAN, resolvedBy : SUBSET User]

Shown == [user : User, pc : {"closed", "shown", "authorize", "write"},
          op : Operation \cup {"none"}, version : Nat, terms : SUBSET Terms, late : BOOLEAN]

LEMMA InitInv == Init => IInv
<1> SUFFICES ASSUME Init PROVE IInv
  OBVIOUS
<1>1. NoGoal \in Row /\ Closed \in Shown
  BY GoalAssumption DEF NoGoal, Closed, Row, Shown, Status
<1>2. TypeOK
  BY <1>1 DEF Init, TypeOK, Row, Shown
<1>3. StampsOK /\ AgreedTerms
  BY DEF Init, StampsOK, AgreedTerms, NoGoal, Active
<1>4. WindowsOK
  BY DEF Init, WindowsOK, ShownOK, KeptOK, BusyOK, Busy, Closed
<1> QED
  BY <1>2, <1>3, <1>4 DEF IInv

-----------------------------------------------------------------------------
(* The steps that leave the goal alone.                                    *)

LEMMA OpenKeeps ==
    ASSUME IInv, NEW w \in Window, Open(w)
    PROVE  IInv'
<1>1. PICK u \in User :
         win' = [win EXCEPT ![w] = [user |-> u, pc |-> "shown", op |-> "none",
                                    version |-> goal.version, terms |-> goal.terms,
                                    late |-> FALSE]]
  BY DEF Open
<1>2. /\ goal.status \notin {"none", "gone"} /\ ~Busy(w)
      /\ UNCHANGED <<goal, supervisor, past, agreed, raced>>
  BY DEF Open, Busy
<1>3. TypeOK'
  <2>1. goal.version \in Nat /\ goal.terms \subseteq Terms
    BY DEF IInv, TypeOK
  <2> QED
    BY <1>1, <1>2, <2>1 DEF IInv, TypeOK
<1>4. StampsOK' /\ AgreedTerms'
  BY <1>2 DEF IInv, StampsOK, AgreedTerms
<1>5. win'[w].pc = "shown" /\ win'[w].version = goal.version /\ win'[w].terms = goal.terms
  BY <1>1 DEF IInv, TypeOK
<1>6. \A v \in Window : v # w => win'[v] = win[v]
  BY <1>1 DEF IInv, TypeOK
<1>7. WindowsOK'
  <2>1. goal.version \in Nat
    BY DEF IInv, TypeOK
  <2> QED
    BY <1>2, <1>5, <1>6, <2>1 DEF IInv, WindowsOK, ShownOK, KeptOK, BusyOK, Busy
<1> QED
  BY <1>3, <1>4, <1>7 DEF IInv

LEMMA AskKeeps ==
    ASSUME IInv, NEW w \in Window, NEW op \in Operation, Ask(w, op)
    PROVE  IInv'
<1>1. /\ win[w].pc = "shown" /\ goal.status \in Needs(op)
      /\ op = "delete" \/ win[w].version = goal.version
      /\ win' = [win EXCEPT ![w].op = op,
                            ![w].pc = IF op \in Supervised THEN "authorize" ELSE "write"]
      /\ UNCHANGED <<goal, supervisor, past, agreed, raced>>
  BY DEF Ask, Fresh
<1>2. /\ win'[w].op = op /\ win'[w].version = win[w].version /\ win'[w].terms = win[w].terms
      /\ win'[w].pc = (IF op \in Supervised THEN "authorize" ELSE "write")
  BY <1>1 DEF IInv, TypeOK
<1>3. \A v \in Window : v # w => win'[v] = win[v]
  BY <1>1 DEF IInv, TypeOK
<1>4. TypeOK'
  BY <1>1 DEF IInv, TypeOK
<1>5. StampsOK' /\ AgreedTerms'
  BY <1>1 DEF IInv, StampsOK, AgreedTerms
<1>6. WindowsOK'
  <2>1. BusyOK(w)'
    <3>1. goal.status \in Reaches(op)
      BY <1>1 DEF Reaches, Needs
    <3>2. op = "approve" => win'[w].version = goal.version
      BY <1>1, <1>2
    <3> QED
      BY <1>1, <1>2, <3>1, <3>2 DEF BusyOK
  <2>2. KeptOK(w)'
    <3>1. op = "approve" => win'[w].pc # "write"
      BY <1>2 DEF Supervised
    <3>2. /\ op \in {"finalize", "resolve"} => goal.approvedBy # {}
          /\ op = "resolve" => goal.reviewed
      BY <1>1 DEF Needs, Active, IInv, StampsOK
    <3> QED
      BY <1>1, <1>2, <3>1, <3>2 DEF KeptOK
  <2>3. ShownOK(w)'
    BY <1>1, <1>2 DEF IInv, WindowsOK, ShownOK
  <2>4. \A v \in Window : v # w => ShownOK(v)' /\ KeptOK(v)' /\ BusyOK(v)'
    BY <1>1, <1>3 DEF IInv, WindowsOK, ShownOK, KeptOK, BusyOK, Busy
  <2> QED
    BY <2>1, <2>2, <2>3, <2>4 DEF WindowsOK
<1> QED
  BY <1>4, <1>5, <1>6 DEF IInv

LEMMA AuthorizeKeeps ==
    ASSUME IInv, NEW w \in Window, Authorize(w)
    PROVE  IInv'
<1>1. /\ win[w].pc = "authorize" /\ Busy(w)
      /\ UNCHANGED <<goal, supervisor, past, agreed, raced>>
  BY DEF Authorize, Busy
<1>2. StampsOK' /\ AgreedTerms'
  BY <1>1 DEF IInv, StampsOK, AgreedTerms
<1>3. CASE /\ win[w].user \in Admin \/ Supervises(win[w].user)
           /\ win' = [win EXCEPT ![w].pc = "write"]
  <2>1. TypeOK'
    BY <1>1, <1>3 DEF IInv, TypeOK
  <2>2. win'[w] = [win[w] EXCEPT !.pc = "write"] /\ \A v \in Window : v # w => win'[v] = win[v]
    BY <1>3 DEF IInv, TypeOK
  <2>3. /\ win'[w].pc = "write" /\ win'[w].op = win[w].op /\ win'[w].user = win[w].user
        /\ win'[w].version = win[w].version /\ win'[w].terms = win[w].terms
        /\ win'[w].late = win[w].late
    BY <2>2 DEF IInv, TypeOK
  <2>4. BusyOK(w)' /\ ShownOK(w)'
    BY <1>1, <2>3 DEF IInv, WindowsOK, BusyOK, ShownOK, Busy
  <2>5. KeptOK(w)'
    BY <1>1, <1>3, <2>3 DEF IInv, WindowsOK, KeptOK, Busy, Supervises
  <2>6. \A v \in Window : v # w => BusyOK(v)' /\ ShownOK(v)' /\ KeptOK(v)'
    BY <1>1, <2>2 DEF IInv, WindowsOK, BusyOK, ShownOK, KeptOK, Busy
  <2> QED
    BY <1>2, <2>1, <2>4, <2>5, <2>6 DEF IInv, WindowsOK
<1>4. CASE win' = [win EXCEPT ![w] = Closed]
  <2>1. Closed \in Shown
    BY GoalAssumption DEF Closed, Shown
  <2>2. TypeOK'
    BY <1>1, <1>4, <2>1 DEF IInv, TypeOK, Shown
  <2>3. win'[w].pc = "closed" /\ \A v \in Window : v # w => win'[v] = win[v]
    BY <1>4 DEF IInv, TypeOK, Closed
  <2>4. WindowsOK'
    BY <1>1, <2>3 DEF IInv, WindowsOK, BusyOK, ShownOK, KeptOK, Busy
  <2> QED
    BY <1>2, <2>2, <2>4 DEF IInv
<1> QED
  BY <1>3, <1>4 DEF Authorize

-----------------------------------------------------------------------------
(* The steps that change the goal.                                         *)

LEMMA CreateKeeps ==
    ASSUME IInv, Create
    PROVE  IInv'
<1>1. PICK u \in User, t \in Terms :
         goal' = [goal EXCEPT !.status = "Draft", !.creator = u, !.terms = {t}]
  BY DEF Create
<1>2. goal.status = "none" /\ UNCHANGED <<supervisor, past, win, agreed, raced>>
  BY DEF Create
<1>3. TypeOK'
  BY <1>1, <1>2 DEF IInv, TypeOK, Status
<1>4. /\ goal'.status = "Draft" /\ goal'.submitted = goal.submitted
      /\ goal'.approvedBy = goal.approvedBy /\ goal'.reviewed = goal.reviewed
      /\ goal'.final = goal.final /\ goal'.rejected = goal.rejected
      /\ goal'.resolvedBy = goal.resolvedBy
  BY <1>1 DEF IInv, TypeOK
<1>5. StampsOK' /\ AgreedTerms'
  BY <1>2, <1>4 DEF IInv, StampsOK, AgreedTerms, Active
<1>6. \A w \in Window : win[w].pc = "closed"
  BY <1>2 DEF IInv, WindowsOK, ShownOK
<1>7. WindowsOK'
  BY <1>2, <1>6 DEF WindowsOK, ShownOK, KeptOK, BusyOK, Busy
<1> QED
  BY <1>3, <1>5, <1>7 DEF IInv

LEMMA ReviewPassKeeps ==
    ASSUME IInv, ReviewPass
    PROVE  IInv'
<1>1. /\ goal.status = "Approved" /\ UNCHANGED <<supervisor, past, win, agreed, raced>>
      /\ goal' = [goal EXCEPT !.status = "UnderReview", !.reviewed = TRUE, !.version = @ + 1]
  BY DEF ReviewPass
<1>2. TypeOK'
  <2>1. goal \in Row /\ goal.version + 1 \in Nat /\ "UnderReview" \in Status
    BY DEF IInv, TypeOK, Row, Status
  <2>2. goal' \in Row
    BY <1>1, <2>1 DEF Row
  <2> QED
    BY <1>1, <2>2 DEF IInv, TypeOK, Row
<1>3. /\ goal'.status = "UnderReview" /\ goal'.submitted = goal.submitted
      /\ goal'.approvedBy = goal.approvedBy /\ goal'.reviewed = TRUE
      /\ goal'.final = goal.final /\ goal'.rejected = goal.rejected
      /\ goal'.resolvedBy = goal.resolvedBy /\ goal'.terms = goal.terms
      /\ goal'.version = goal.version + 1 /\ goal.version \in Nat
  BY <1>1 DEF IInv, TypeOK
<1>4. StampsOK' /\ AgreedTerms'
  BY <1>1, <1>3 DEF IInv, StampsOK, AgreedTerms, Active
<1>5. WindowsOK'
  <2>1. \A w \in Window : win[w].version \in Nat
    BY DEF IInv, TypeOK
  <2>2. \A w \in Window : ShownOK(w)'
    BY <1>1, <1>3, <2>1 DEF IInv, WindowsOK, ShownOK
  <2>3. \A w \in Window : BusyOK(w)'
    BY <1>1, <1>3 DEF IInv, WindowsOK, KeptOK, BusyOK, Busy, Reaches, Needs, Operation, Supervised
  <2>4. \A w \in Window : KeptOK(w)'
    BY <1>1, <1>3 DEF IInv, WindowsOK, KeptOK, Busy
  <2> QED
    BY <2>2, <2>3, <2>4 DEF WindowsOK
<1> QED
  BY <1>2, <1>4, <1>5 DEF IInv

\* What a request that is not late finds when it writes.
LEMMA Found ==
    ASSUME IInv, NEW w \in Window, win[w].pc = "write", ~win[w].late
    PROVE  /\ win[w].op \in Operation /\ goal.status \in Reaches(win[w].op)
           /\ goal.status \notin {"none", "gone"}
           /\ win[w].op = "approve" => win[w].terms = goal.terms
<1>1. Busy(w) /\ BusyOK(w) /\ ShownOK(w) /\ KeptOK(w)
  BY DEF IInv, WindowsOK, Busy
<1>2. win[w].op \in Operation /\ goal.status \in Reaches(win[w].op)
  BY <1>1 DEF BusyOK, KeptOK
<1>3. goal.status \notin {"none", "gone"}
  BY <1>2 DEF Reaches, Needs, Operation, Supervised
<1>4. win[w].op = "approve" => win[w].terms = goal.terms
  BY <1>1, <1>3 DEF BusyOK, ShownOK
<1> QED
  BY <1>2, <1>3, <1>4

\* What a request leaves of a goal that is still there.
LEMMA Wrote ==
    ASSUME IInv, NEW w \in Window, Write(w), goal.status # "gone"
    PROVE  \/ /\ win[w].op = "delete" /\ goal' = [NoGoal EXCEPT !.status = "gone"]
           \/ /\ win[w].op # "delete"
              /\ \E t \in IF win[w].op = "edit" THEN {{x} : x \in Terms} ELSE {goal.terms} :
                    goal' = [Written(goal, win[w].op, win[w].user)
                                EXCEPT !.terms = t, !.version = @ + 1]
BY DEF Write

\* The row g is what the operation op of u may leave of the goal, late or not, before its
\* new terms.
Marked(g, op, u) ==
    /\ g \in Row /\ g.version = goal.version /\ g.terms = goal.terms
    /\ g.status \notin {"none", "gone"}
    /\ g.status \in Active => g.approvedBy # {}
    /\ g.status \in {"UnderReview", "Resolved"} => g.reviewed
    /\ g.status = "Resolved" => g.resolvedBy # {}
    /\ g.final => g.reviewed
    /\ g.approvedBy = IF op = "approve" THEN {u} ELSE goal.approvedBy
    /\ goal.reviewed => g.reviewed

\* What it leaves when it is not late, and none has been.
Stamped(g, op) ==
    /\ g.submitted <=> g.status \in {"PendingApproval"} \cup Active
    /\ g.approvedBy # {} => g.status \in Active
    /\ g.reviewed => g.status \in {"UnderReview", "Resolved"}
    /\ g.resolvedBy # {} => g.status = "Resolved"
    /\ g.rejected => g.status \in {"Draft", "PendingApproval"}
    /\ g.status \in Active => goal.status \in Active \/ op = "approve"
    /\ op = "edit" => g.status = "Draft"

\* The fields of the row g that the operation op of u leaves.
Fields(g, op, u) ==
    /\ g.version = goal.version /\ g.terms = goal.terms /\ g.creator = goal.creator
    /\ g.status = CASE op = "submit" -> "PendingApproval"
                    [] op = "approve" -> "Approved"
                    [] op = "reject" -> "Draft"
                    [] op = "finalize" -> "UnderReview"
                    [] op = "resolve" -> "Resolved"
                    [] OTHER -> goal.status
    /\ g.submitted = IF op = "submit" THEN TRUE
                     ELSE IF op = "reject" THEN FALSE ELSE goal.submitted
    /\ g.approvedBy = IF op = "approve" THEN {u} ELSE goal.approvedBy
    /\ g.reviewed = IF op = "finalize" THEN TRUE ELSE goal.reviewed
    /\ g.final = IF op = "finalize" THEN TRUE ELSE goal.final
    /\ g.rejected = IF op = "approve" THEN FALSE
                    ELSE IF op = "reject" THEN TRUE ELSE goal.rejected
    /\ g.resolvedBy = IF op = "resolve" THEN {u} ELSE goal.resolvedBy
    /\ g = [status |-> g.status, creator |-> g.creator, terms |-> g.terms,
            version |-> g.version, submitted |-> g.submitted, approvedBy |-> g.approvedBy,
            reviewed |-> g.reviewed, final |-> g.final, rejected |-> g.rejected,
            resolvedBy |-> g.resolvedBy]

LEMMA WrittenFields ==
    ASSUME NEW op \in Operation, NEW u, goal \in Row
    PROVE  Fields(Written(goal, op, u), op, u)
<1> DEFINE g == Written(goal, op, u)
<1>1. CASE op \in {"edit", "delete", "progress"}
  <2>1. g = goal
    BY <1>1 DEF Written
  <2> QED
    BY <1>1, <2>1 DEF Row, Fields
<1>2. CASE op = "submit"
  <2>1. g = [goal EXCEPT !.status = "PendingApproval", !.submitted = TRUE]
    BY <1>2 DEF Written
  <2> QED
    BY <1>2, <2>1 DEF Row, Fields
<1>3. CASE op = "approve"
  <2>1. g = [goal EXCEPT !.status = "Approved", !.approvedBy = {u}, !.rejected = FALSE]
    BY <1>3 DEF Written
  <2> QED
    BY <1>3, <2>1 DEF Row, Fields
<1>4. CASE op = "reject"
  <2>1. g = [goal EXCEPT !.status = "Draft", !.submitted = FALSE, !.rejected = TRUE]
    BY <1>4 DEF Written, Rejected
  <2> QED
    BY <1>4, <2>1 DEF Row, Fields
<1>5. CASE op = "finalize"
  <2>1. g = [goal EXCEPT !.status = "UnderReview", !.reviewed = TRUE, !.final = TRUE]
    BY <1>5 DEF Written
  <2> QED
    BY <1>5, <2>1 DEF Row, Fields
<1>6. CASE op = "resolve"
  <2>1. g = [goal EXCEPT !.status = "Resolved", !.resolvedBy = {u}]
    BY <1>6 DEF Written
  <2> QED
    BY <1>6, <2>1 DEF Row, Fields
<1> QED
  BY <1>1, <1>2, <1>3, <1>4, <1>5, <1>6 DEF Operation, Supervised

\* Each operation, however late, leaves a row with the stamps its new status needs.
LEMMA WrittenMarks ==
    ASSUME TypeOK, StampsOK, NEW op \in Operation, NEW u \in User,
           op # "delete", goal.status \notin {"none", "gone"},
           op \in {"finalize", "resolve"} => goal.approvedBy # {},
           op = "resolve" => goal.reviewed
    PROVE  Marked(Written(goal, op, u), op, u)
<1> DEFINE g == Written(goal, op, u)
<1>1. goal \in Row
  BY DEF TypeOK, Row
<1>2. {u} \in SUBSET User /\ {u} # {}
  OBVIOUS
<1> HIDE DEF g
<1>3. Fields(g, op, u)
  BY <1>1, WrittenFields DEF g
<1>4. g \in Row
  <2>1. /\ g.status \in Status /\ g.creator \in User /\ g.terms \in SUBSET Terms
        /\ g.version \in Nat /\ g.submitted \in BOOLEAN
    BY <1>1, <1>3 DEF Fields, Row, Status
  <2>2. /\ g.approvedBy \in SUBSET User /\ g.reviewed \in BOOLEAN /\ g.final \in BOOLEAN
        /\ g.rejected \in BOOLEAN /\ g.resolvedBy \in SUBSET User
    BY <1>1, <1>2, <1>3 DEF Fields, Row
  <2>3. g = [status |-> g.status, creator |-> g.creator, terms |-> g.terms,
             version |-> g.version, submitted |-> g.submitted,
             approvedBy |-> g.approvedBy, reviewed |-> g.reviewed,
             final |-> g.final, rejected |-> g.rejected, resolvedBy |-> g.resolvedBy]
    BY <1>3 DEF Fields
  <2> QED
    BY <2>1, <2>2, <2>3 DEF Row
<1>5. g.status \notin {"none", "gone"}
  BY <1>3 DEF Fields
<1>6. g.status \in Active => g.approvedBy # {}
  BY <1>2, <1>3 DEF Fields, StampsOK, Active
<1>7. /\ g.status \in {"UnderReview", "Resolved"} => g.reviewed
      /\ g.status = "Resolved" => g.resolvedBy # {}
      /\ g.final => g.reviewed
      /\ goal.reviewed => g.reviewed
  BY <1>2, <1>3 DEF Fields, StampsOK
<1> QED
  BY <1>3, <1>4, <1>5, <1>6, <1>7 DEF Fields, Marked, g

\* An operation that is not late leaves the stamps of its new status and no other.
LEMMA WrittenStamps ==
    ASSUME TypeOK, StampsOK, ~raced, NEW op \in Operation, NEW u \in User,
           op # "delete", goal.status \in Reaches(op)
    PROVE  Stamped(Written(goal, op, u), op)
<1> DEFINE g == Written(goal, op, u)
<1>1. goal \in Row
  BY DEF TypeOK, Row
<1>2. Fields(g, op, u)
  BY <1>1, WrittenFields
<1>3. /\ g.submitted <=> op = "submit" \/ (op # "reject" /\ goal.submitted)
      /\ g.reviewed <=> op = "finalize" \/ goal.reviewed
      /\ g.rejected <=> op = "reject" \/ (op # "approve" /\ goal.rejected)
  BY <1>1, <1>2 DEF Fields, Row
<1>4. /\ g.approvedBy # {} <=> op = "approve" \/ goal.approvedBy # {}
      /\ g.resolvedBy # {} <=> op = "resolve" \/ goal.resolvedBy # {}
  BY <1>2 DEF Fields
<1>5. g.status = CASE op = "submit" -> "PendingApproval"
                   [] op = "approve" -> "Approved"
                   [] op = "reject" -> "Draft"
                   [] op = "finalize" -> "UnderReview"
                   [] op = "resolve" -> "Resolved"
                   [] OTHER -> goal.status
  BY <1>2 DEF Fields
<1> SUFFICES Stamped(g, op)
  OBVIOUS
<1> HIDE DEF g
<1>6. CASE op \in {"edit", "progress"}
  BY <1>3, <1>4, <1>5, <1>6 DEF Stamped, StampsOK, Reaches, Needs
<1>7. CASE op \in {"submit", "reject"}
  BY <1>3, <1>4, <1>5, <1>7 DEF Stamped, StampsOK, Reaches, Needs, Active
<1>8. CASE op = "approve"
  BY <1>3, <1>4, <1>5, <1>8 DEF Stamped, StampsOK, Reaches, Needs, Active
<1>9. CASE op = "finalize"
  BY <1>3, <1>4, <1>5, <1>9 DEF Stamped, StampsOK, Reaches, Active
<1>10. CASE op = "resolve"
  BY <1>3, <1>4, <1>5, <1>10 DEF Stamped, StampsOK, Reaches, Needs, Active
<1> QED
  BY <1>6, <1>7, <1>8, <1>9, <1>10 DEF Operation, Supervised

LEMMA WriteKeeps ==
    ASSUME IInv, NEW w \in Window, Write(w)
    PROVE  IInv'
<1> DEFINE op == win[w].op
           u == win[w].user
           g == Written(goal, op, u)
<1>1. /\ win[w].pc = "write" /\ Busy(w)
      /\ win' = [v \in Window |-> IF v = w THEN Closed
                                  ELSE [win[v] EXCEPT !.late = @ \/ Busy(v)]]
      /\ agreed' = (IF op = "approve" THEN win[w].terms ELSE agreed)
      /\ raced' = (raced \/ win[w].late)
      /\ UNCHANGED <<supervisor, past>>
  BY DEF Write, Busy
<1>2. op \in Operation /\ (op = "approve" => u # Owner \/ u \in Admin)
  BY <1>1 DEF IInv, WindowsOK, KeptOK
<1>3. win'[w].pc = "closed"
  BY <1>1 DEF Closed
<1>4. \A v \in Window : v # w =>
         /\ win'[v].user = win[v].user /\ win'[v].pc = win[v].pc /\ win'[v].op = win[v].op
         /\ win'[v].version = win[v].version /\ win'[v].terms = win[v].terms
         /\ Busy(v) => win'[v].late
  BY <1>1 DEF IInv, TypeOK
<1>5. \A v \in Window : Busy(v)' => v # w /\ Busy(v) /\ win'[v].late
  BY <1>3, <1>4 DEF Busy
<1>6. \A v \in Window : BusyOK(v)'
  BY <1>5 DEF BusyOK
<1>7. goal \in Row /\ u \in User /\ agreed' \subseteq Terms /\ goal.version \in Nat
  BY <1>1 DEF IInv, TypeOK, Row
<1>8. win' \in [Window -> Shown] /\ raced' \in BOOLEAN
  <2>1. Closed \in Shown
    BY GoalAssumption DEF Closed, Shown
  <2>2. \A v \in Window : [win[v] EXCEPT !.late = @ \/ Busy(v)] \in Shown
    BY DEF IInv, TypeOK, Shown, Busy
  <2>3. raced' \in BOOLEAN
    BY <1>1 DEF IInv, TypeOK
  <2> QED
    BY <1>1, <2>1, <2>2, <2>3
<1>9. CASE goal.status = "gone"
  <2>1. goal' = goal
    BY <1>9 DEF Write
  <2>2. TypeOK'
    BY <1>1, <1>7, <1>8, <2>1 DEF IInv, TypeOK, Row, Shown
  <2>3. StampsOK' /\ AgreedTerms'
    BY <1>1, <1>9, <2>1 DEF IInv, StampsOK, AgreedTerms, Active
  <2>4. \A v \in Window : ShownOK(v)'
    BY <1>9, <2>1 DEF ShownOK
  <2>5. \A v \in Window : KeptOK(v)'
    BY <1>4, <1>5, <1>9, <2>1 DEF IInv, WindowsOK, KeptOK
  <2> QED
    BY <1>6, <2>2, <2>3, <2>4, <2>5 DEF IInv, WindowsOK
<1>10. CASE op = "delete" /\ goal' = [NoGoal EXCEPT !.status = "gone"]
  <2>1. NoGoal \in Row
    BY GoalAssumption DEF NoGoal, Row, Status
  <2>2. goal' \in Row
    BY <1>10, <2>1 DEF Row, Status
  <2>3. TypeOK'
    BY <1>1, <1>7, <1>8, <2>2 DEF IInv, TypeOK, Row, Shown
  <2>4. StampsOK' /\ AgreedTerms'
    BY <1>10 DEF StampsOK, AgreedTerms, NoGoal, Active
  <2>5. goal'.status = "gone"
    BY <1>10 DEF NoGoal
  <2>6. \A v \in Window : ShownOK(v)'
    BY <2>5 DEF ShownOK
  <2>7. \A v \in Window : KeptOK(v)'
    BY <1>4, <1>5, <2>5 DEF IInv, WindowsOK, KeptOK
  <2> QED
    BY <1>6, <2>3, <2>4, <2>6, <2>7 DEF IInv, WindowsOK
<1>11. CASE /\ goal.status # "gone" /\ op # "delete"
            /\ \E t \in IF op = "edit" THEN {{x} : x \in Terms} ELSE {goal.terms} :
                  goal' = [g EXCEPT !.terms = t, !.version = @ + 1]
  <2>1. PICK t \in IF op = "edit" THEN {{x} : x \in Terms} ELSE {goal.terms} :
           goal' = [g EXCEPT !.terms = t, !.version = @ + 1]
    BY <1>11
  <2>2. t \subseteq Terms /\ (op # "edit" => t = goal.terms)
    BY <1>7, <2>1 DEF Row
  <2>3. Marked(g, op, u)
    <3>1. TypeOK /\ StampsOK
      BY DEF IInv
    <3>2. goal.status # "none"
      BY <1>1, <1>11 DEF IInv, WindowsOK, ShownOK
    <3>3. /\ op \in {"finalize", "resolve"} => goal.approvedBy # {}
          /\ op = "resolve" => goal.reviewed
      BY <1>1, <1>11 DEF IInv, WindowsOK, KeptOK
    <3> QED
      BY <1>2, <1>7, <1>11, <3>1, <3>2, <3>3, WrittenMarks
  <2>4. ~raced' => Stamped(g, op) /\ (op = "approve" => win[w].terms = goal.terms)
    <3> SUFFICES ASSUME ~raced'
                 PROVE  Stamped(g, op) /\ (op = "approve" => win[w].terms = goal.terms)
      OBVIOUS
    <3>1. ~raced /\ ~win[w].late
      BY <1>1
    <3>2. TypeOK /\ StampsOK
      BY DEF IInv
    <3>3. goal.status \in Reaches(op) /\ (op = "approve" => win[w].terms = goal.terms)
      BY <1>1, <3>1, Found
    <3> QED
      BY <1>2, <1>7, <1>11, <3>1, <3>2, <3>3, WrittenStamps
  <2> HIDE DEF g
  <2>5. /\ goal'.status = g.status /\ goal'.submitted = g.submitted
        /\ goal'.approvedBy = g.approvedBy /\ goal'.reviewed = g.reviewed
        /\ goal'.resolvedBy = g.resolvedBy /\ goal'.final = g.final
        /\ goal'.rejected = g.rejected /\ goal'.terms = t
        /\ goal'.version = goal.version + 1
    BY <2>1, <2>3 DEF Row, Marked
  <2>6. goal' \in Row
    <3>1. t \in SUBSET Terms /\ g.version + 1 \in Nat
      BY <1>7, <2>2, <2>3 DEF Row, Marked
    <3> QED
      BY <2>1, <2>3, <3>1 DEF Row, Marked
  <2>7. TypeOK'
    BY <1>1, <1>7, <1>8, <2>6 DEF IInv, TypeOK, Row, Shown
  <2>8. StampsOK'
    BY <2>3, <2>4, <2>5 DEF StampsOK, Stamped, Marked
  <2>9. AgreedTerms'
    <3>1. \A x \in goal'.approvedBy : x # Owner \/ x \in Admin
      BY <1>2, <2>3, <2>5 DEF IInv, AgreedTerms, Marked
    <3>2. ASSUME ~raced', g.status \in Active PROVE goal'.terms = agreed'
      <4>1. t = goal.terms /\ (goal.status \in Active \/ op = "approve")
        BY <2>2, <2>4, <3>2 DEF Active, Stamped
      <4>2. CASE op = "approve"
        BY <1>1, <2>4, <2>5, <3>2, <4>1, <4>2
      <4>3. CASE op # "approve"
        BY <1>1, <2>5, <3>2, <4>1, <4>3 DEF IInv, AgreedTerms
      <4> QED
        BY <4>2, <4>3
    <3> QED
      BY <2>5, <3>1, <3>2 DEF AgreedTerms
  <2>10. \A v \in Window : ShownOK(v)'
    <3> TAKE v \in Window
    <3>1. CASE v = w
      BY <1>3, <3>1 DEF ShownOK
    <3>2. CASE v # w
      <4>1. win[v].version \in Nat /\ (win[v].pc # "closed" => win[v].version <= goal.version)
        BY <1>11 DEF IInv, TypeOK, WindowsOK, ShownOK
      <4> QED
        BY <1>4, <1>7, <2>3, <2>5, <3>2, <4>1 DEF ShownOK, Marked
    <3> QED
      BY <3>1, <3>2
  <2>11. \A v \in Window : KeptOK(v)'
    <3>1. /\ goal.approvedBy # {} => goal'.approvedBy # {}
          /\ goal.reviewed => goal'.reviewed
      BY <2>3, <2>5 DEF Marked
    <3> QED
      BY <1>4, <1>5, <1>11, <3>1 DEF IInv, WindowsOK, KeptOK
  <2> QED
    BY <1>6, <2>7, <2>8, <2>9, <2>10, <2>11 DEF IInv, WindowsOK
<1>12. goal.status # "gone" =>
          \/ op = "delete" /\ goal' = [NoGoal EXCEPT !.status = "gone"]
          \/ op # "delete" /\ \E t \in IF op = "edit" THEN {{x} : x \in Terms}
                                                     ELSE {goal.terms} :
                                 goal' = [g EXCEPT !.terms = t, !.version = @ + 1]
  BY Wrote
<1> QED
  BY <1>9, <1>10, <1>11, <1>12

-----------------------------------------------------------------------------
LEMMA NextInv ==
    ASSUME IInv, [Next]_vars
    PROVE  IInv'
<1>1. CASE Deadline
  <2>1. past' \subseteq Terms /\ UNCHANGED <<goal, supervisor, win, agreed, raced>>
    BY <1>1 DEF Deadline, IInv, TypeOK
  <2> QED
    BY <2>1 DEF IInv, TypeOK, StampsOK, AgreedTerms, WindowsOK, ShownOK, KeptOK, BusyOK, Busy
<1>2. CASE Reorganize
  <2>1. supervisor' \subseteq User /\ UNCHANGED <<goal, past, win, agreed, raced>>
    BY <1>2 DEF Reorganize, IInv, TypeOK
  <2> QED
    BY <2>1 DEF IInv, TypeOK, StampsOK, AgreedTerms, WindowsOK, ShownOK, KeptOK, BusyOK, Busy
<1>3. CASE UNCHANGED vars
  BY <1>3 DEF vars, IInv, TypeOK, StampsOK, AgreedTerms, WindowsOK, ShownOK, KeptOK, BusyOK, Busy
<1> QED
  BY <1>1, <1>2, <1>3, CreateKeeps, ReviewPassKeeps, OpenKeeps, AskKeeps, AuthorizeKeeps,
     WriteKeeps DEF Next

LEMMA InvHolds == Spec => []IInv
<1>1. IInv /\ [Next]_vars => IInv'
  BY NextInv
<1> QED
  BY <1>1, InitInv, PTL DEF Spec

\* The row keeps to the statuses of the schema, the windows to the requests there are.
THEOREM GoalTypes == Spec => []TypeOK
BY InvHolds, PTL DEF IInv

\* The stamps, for any people, terms and windows: an active goal has its approver, one
\* under review or resolved its stamps, whatever requests overlap; and as long as no late
\* request has written, no goal has a stamp that its status does not say.
THEOREM StampsTheorem == Spec => []StampsOK
BY InvHolds, PTL DEF IInv

\* No owner has approved a goal of their own, whatever requests overlap; and unless a late
\* request has written, an active goal says what its approver had on the screen, however
\* the review pass, new supervisors and other windows come between the statements.
THEOREM AgreedTheorem == Spec => []AgreedTerms
BY InvHolds, PTL DEF IInv

-----------------------------------------------------------------------------
(* The steps a status may take.                                            *)

LEMMA NextStage ==
    ASSUME IInv, [Next]_vars
    PROVE  goal'.status # goal.status => <<goal.status, goal'.status>> \in Stages \/ LateWrite
<1>0. goal \in Row
  BY DEF IInv, TypeOK, Row
<1>1. CASE Create
  <2>1. goal.status = "none" /\ goal'.status = "Draft"
    BY <1>0, <1>1 DEF Create, Row
  <2> QED
    BY <2>1 DEF Stages
<1>2. CASE ReviewPass
  <2>1. goal.status = "Approved" /\ goal'.status = "UnderReview"
    BY <1>0, <1>2 DEF ReviewPass, Row
  <2> QED
    BY <2>1 DEF Stages
<1>3. ASSUME NEW w \in Window, Write(w), ~win[w].late
      PROVE  goal'.status # goal.status => <<goal.status, goal'.status>> \in Stages
  <2> DEFINE op == win[w].op
             g == Written(goal, op, win[w].user)
  <2>1. win[w].pc = "write"
    BY <1>3 DEF Write
  <2>2. op \in Operation /\ goal.status \in Reaches(op)
    BY <1>3, <2>1, Found
  <2>3. CASE op = "delete" /\ goal' = [NoGoal EXCEPT !.status = "gone"]
    <3>1. goal.status = "Draft" /\ goal'.status = "gone"
      BY <2>2, <2>3 DEF Reaches, Needs, NoGoal
    <3> QED
      BY <3>1 DEF Stages
  <2>4. CASE op # "delete" /\ \E t, n : goal' = [g EXCEPT !.terms = t, !.version = n]
    <3>1. goal'.status = g.status
      <4>1. Fields(g, op, win[w].user)
        BY <1>0, <2>2, WrittenFields
      <4> HIDE DEF g
      <4> QED
        BY <2>4, <4>1 DEF Fields
    <3>2. CASE op \in {"edit", "progress"}
      BY <3>1, <3>2 DEF Written
    <3>3. CASE op = "submit"
      BY <1>0, <2>2, <3>1, <3>3 DEF Written, Row, Reaches, Needs, Stages
    <3>4. CASE op = "approve"
      BY <1>0, <2>2, <3>1, <3>4 DEF Written, Row, Reaches, Needs, Stages
    <3>5. CASE op = "reject"
      BY <1>0, <2>2, <3>1, <3>5 DEF Written, Rejected, Row, Reaches, Needs, Stages
    <3>6. CASE op = "finalize"
      BY <1>0, <2>2, <3>1, <3>6 DEF Written, Row, Reaches, Stages
    <3>7. CASE op = "resolve"
      BY <1>0, <2>2, <3>1, <3>7 DEF Written, Row, Reaches, Needs, Stages
    <3> QED
      BY <2>2, <2>4, <3>2, <3>3, <3>4, <3>5, <3>6, <3>7 DEF Operation, Supervised
  <2>5. \/ op = "delete" /\ goal' = [NoGoal EXCEPT !.status = "gone"]
        \/ op # "delete" /\ \E t, n : goal' = [g EXCEPT !.terms = t, !.version = n]
    <3>1. CASE op = "delete" /\ goal' = [NoGoal EXCEPT !.status = "gone"]
      BY <3>1
    <3>2. CASE /\ op # "delete"
               /\ \E t \in IF op = "edit" THEN {{x} : x \in Terms} ELSE {goal.terms} :
                     goal' = [g EXCEPT !.terms = t, !.version = @ + 1]
      BY <3>2, Zenon
    <3>3. goal.status # "gone"
      BY <1>3, <2>1, Found
    <3> QED
      BY <1>3, <3>1, <3>2, <3>3, Wrote
  <2> QED
    BY <2>3, <2>4, <2>5
<1>4. CASE UNCHANGED goal
  BY <1>4
<1>5. \/ Create \/ ReviewPass \/ UNCHANGED goal \/ \E w \in Window : Write(w)
  BY DEF Next, vars, Deadline, Reorganize, Open, Ask, Authorize
<1> QED
  BY <1>1, <1>2, <1>3, <1>4, <1>5 DEF LateWrite

\* However a final result, the review pass and the reviews of supervisors come together,
\* the status goes through the lifecycle one stage at a time, but where a request writes
\* that has been overtaken by another.
THEOREM StagesTheorem == Spec => StageByStage
<1>1. IInv /\ [Next]_vars =>
         [goal'.status # goal.status =>
             <<goal.status, goal'.status>> \in Stages \/ LateWrite]_vars
  BY NextStage
<1> QED
  BY <1>1, InvHolds, PTL DEF Spec, StageByStage

\* Nothing touches a resolved goal but a request that has read it before.
THEOREM FinalTheorem == Spec => ResolvedIsFinal
<1>1. IInv /\ [Next]_vars => [goal.status = "Resolved" => goal' = goal \/ LateWrite]_vars
  <2> SUFFICES ASSUME IInv, Next, goal.status = "Resolved", ~LateWrite PROVE UNCHANGED goal
    OBVIOUS
  <2>1. \A w \in Window : ~Write(w)
    <3> SUFFICES ASSUME NEW w \in Window, Write(w) PROVE FALSE
      OBVIOUS
    <3>1. win[w].op \in Operation /\ goal.status \in Reaches(win[w].op)
      BY Found DEF Write, LateWrite
    <3> QED
      BY <3>1 DEF Reaches, Needs, Operation, Supervised
  <2> QED
    BY <2>1 DEF Next, Create, ReviewPass, Deadline, Reorganize, Open, Ask, Authorize
<1> QED
  BY <1>1, InvHolds, PTL DEF Spec, ResolvedIsFinal
=============================================================================
