---------------------- MODULE TaskRelationshipsProofs ----------------------
(***************************************************************************)
(* Proofs about TaskRelationships, for any sets of tasks, requests and     *)
(* templates: the hierarchy and the dependencies never have a cycle.       *)
(***************************************************************************)
EXTENDS TaskRelationships, FiniteSetTheorems, WellFoundedInduction, TLAPS

-----------------------------------------------------------------------------
(* Lemmas about graphs.                                                    *)

\* Removing edges makes no cycle.
LEMMA FewerEdges ==
    ASSUME NEW E, NEW F, Acyclic(E), F \subseteq E
    PROVE  Acyclic(F)
BY DEF Acyclic, AcyclicOn

\* An edge a -> b makes no cycle when a set that b is in, a is not in and no
\* edge leaves exists: what a finished walk has found.
LEMMA AddEdge ==
    ASSUME NEW E, Acyclic(E), NEW a, NEW b, NEW R \in SUBSET Task,
           b \in R, a \notin R,
           \A x \in R, y \in Task : <<x, y>> \in E => y \in R
    PROVE  Acyclic(E \cup {<<a, b>>})
<1> SUFFICES ASSUME NEW S \in SUBSET Task, S # {}
             PROVE  \E x \in S : \A y \in S : <<x, y>> \notin E \cup {<<a, b>>}
  BY DEF Acyclic, AcyclicOn
<1>1. CASE S \cap R # {}
  <2>1. PICK x \in S \cap R : \A y \in S \cap R : <<x, y>> \notin E
    BY <1>1 DEF Acyclic, AcyclicOn
  <2>2. \A y \in S : <<x, y>> \notin E
    BY <2>1
  <2> QED
    BY <2>2
<1>2. CASE S \cap R = {}
  <2>1. PICK x \in S : \A y \in S : <<x, y>> \notin E
    BY DEF Acyclic, AcyclicOn
  <2> QED
    BY <1>2, <2>1
<1> QED
  BY <1>1, <1>2

\* New tasks with edges of their own, acyclic among themselves, make no cycle
\* in a graph that does not name them.
LEMMA AddNewTasks ==
    ASSUME NEW E, Acyclic(E), NEW N \in SUBSET Task, NEW D,
           \A x, y \in Task : <<x, y>> \in E => x \notin N /\ y \notin N,
           \A x, y \in Task : <<x, y>> \in D => x \in N,
           AcyclicOn(N, D)
    PROVE  Acyclic(E \cup D)
<1> SUFFICES ASSUME NEW S \in SUBSET Task, S # {}
             PROVE  \E x \in S : \A y \in S : <<x, y>> \notin E \cup D
  BY DEF Acyclic, AcyclicOn
<1>1. CASE S \ N # {}
  <2>1. PICK x \in S \ N : \A y \in S \ N : <<x, y>> \notin E
    BY <1>1 DEF Acyclic, AcyclicOn
  <2> QED
    BY <2>1
<1>2. CASE S \subseteq N
  <2>1. PICK x \in S : \A y \in S : <<x, y>> \notin D
    BY <1>2 DEF AcyclicOn
  <2> QED
    BY <1>2, <2>1
<1> QED
  BY <1>1, <1>2

\* A parent function is acyclic when every non-empty set of tasks has one whose
\* parent is not in it.
LEMMA ParentAcyclic ==
    ASSUME NEW V, NEW W, None \notin V, NEW p \in [V -> W \cup {None}]
    PROVE  AcyclicOn(V, ParentEdges(p))
             <=> \A S \in SUBSET V : S # {} => \E x \in S : p[x] \notin S
<1>1. \A x, y : <<x, y>> \in ParentEdges(p) <=> x \in V /\ p[x] # None /\ y = p[x]
  BY DEF ParentEdges
<1>2. \A S \in SUBSET V : \A x \in S :
         (\A y \in S : <<x, y>> \notin ParentEdges(p)) <=> p[x] \notin S
  <2> TAKE S \in SUBSET V
  <2> TAKE x \in S
  <2>1. ASSUME p[x] \in S PROVE <<x, p[x]>> \in ParentEdges(p)
    BY <1>1, <2>1
  <2>2. ASSUME NEW y \in S, <<x, y>> \in ParentEdges(p) PROVE y = p[x]
    BY <1>1, <2>2
  <2> QED
    BY <2>1, <2>2
<1> QED
  BY <1>2 DEF AcyclicOn

\* A non-empty set of numbers up to n has a largest one.
LEMMA HasLargest ==
    ASSUME NEW n \in Nat, NEW J \in SUBSET (1 .. n), J # {}
    PROVE  \E j \in J : \A k \in J : k <= j
<1> DEFINE K == {n - j : j \in J}
<1>1. K \subseteq Nat /\ K # {}
  <2>1. ASSUME NEW j \in J PROVE j \in Nat /\ j <= n /\ n - j \in Nat
    OBVIOUS
  <2>2. K \subseteq Nat
    BY <2>1
  <2>3. PICK j \in J : TRUE
    OBVIOUS
  <2>4. n - j \in K
    OBVIOUS
  <2> QED
    BY <2>2, <2>4
<1>2. PICK m \in K : \A y \in K : <<y, m>> \notin OpToRel(<, Nat)
  BY <1>1, NatLessThanWellFounded, WFMin
<1>3. \A y \in K : ~ (y < m)
  <2>1. SUFFICES ASSUME NEW y \in K, y < m PROVE <<y, m>> \in OpToRel(<, Nat)
    BY <1>2
  <2>2. <<y, m>> \in Nat \X Nat /\ <<y, m>>[1] < <<y, m>>[2]
    BY <1>1, <2>1
  <2> QED
    BY <2>2, Zenon DEF OpToRel
<1>4. PICK j \in J : m = n - j
  OBVIOUS
<1>5. ASSUME NEW k \in J PROVE n - k \in K /\ k \in Nat /\ k <= n
  <2>1. n - k \in K
    OBVIOUS
  <2>2. k \in Nat /\ k <= n
    OBVIOUS
  <2> QED
    BY <2>1, <2>2
<1>6. ASSUME NEW k \in J PROVE k <= j
  <2>1. ~ (n - k < n - j)
    BY <1>3, <1>4, <1>5
  <2> QED
    BY <1>5, <2>1
<1> QED
  BY <1>6

-----------------------------------------------------------------------------
(* The inductive invariant.                                                *)

IInv == TypeOK /\ RequestsOK /\ HierarchyAcyclic /\ DependenciesAcyclic

\* The parent function has no infinite climb.
Rooted(p) == \A S \in SUBSET Task : S # {} => \E x \in S : p[x] \notin S

LEMMA HierarchyRooted ==
    ASSUME NEW p \in [Task -> Task \cup {None}]
    PROVE  Acyclic(ParentEdges(p)) <=> Rooted(p)
BY NoneAssumption, ParentAcyclic DEF Acyclic, Rooted

\* What another request has read stays good enough when the graphs lose edges
\* or gain some from new tasks, and when that request is not walking.
LEMMA OtherRequest ==
    ASSUME TypeOK, NEW s \in Req, RequestOK(s), req'[s] = req[s],
           lock = s => lock' = s,
           used \subseteq used',
           \/ lock # s
           \/ /\ \A n \in used : parent'[n] \in {parent[n], None}
              /\ \A n \in used, m \in Task : <<n, m>> \in deps' => <<n, m>> \in deps
    PROVE  RequestOK(s)'
<1>1. CopyOK(s) <=> CopyOK(s)'
  BY DEF CopyOK, Places
<1>2. CASE lock # s
  BY <1>1, <1>2 DEF RequestOK
<1>3. CASE lock = s /\ WalkOK(s)
  <2>1. \A n \in used : parent'[n] \in {parent[n], None}
    BY <1>3
  <2>2. \A n \in used, m \in Task : <<n, m>> \in deps' => <<n, m>> \in deps
    BY <1>3
  <2>3. \A n \in req[s].seen : Successors(req[s].op, n)' \subseteq Successors(req[s].op, n)
    BY <1>3, <2>1, <2>2 DEF Successors, WalkOK
  <2>4. WalkOK(s)'
    BY <1>3, <2>3 DEF WalkOK
  <2> QED
    BY <1>1, <1>3, <2>4 DEF RequestOK
<1>4. CASE ~ WalkOK(s)
  BY <1>1, <1>4 DEF RequestOK
<1> QED
  BY <1>2, <1>3, <1>4

LEMMA IdleType == Idle \in Request
<1>1. [t \in {} |-> None] \in [{} -> Task \cup {None}]
  OBVIOUS
<1>2. <<>> \in Seq(Task)
  OBVIOUS
<1> QED
  BY <1>1, <1>2 DEF Idle, Request, Snapshot

\* A request that ends leaves nothing to keep, and gives back only its own lock.
LEMMA FinishOK ==
    ASSUME TypeOK, NEW r \in Req, Finish(r)
    PROVE  /\ req' \in [Req -> Request] /\ lock' \in Req \cup {None}
           /\ RequestOK(r)'
           /\ \A s \in Req \ {r} : req'[s] = req[s] /\ (lock = s => lock' = s)
<1>1. Idle \in Request
  BY IdleType
<1>2. req'[r] = Idle
  BY DEF Finish, TypeOK
<1>3. RequestOK(r)'
  BY <1>2 DEF RequestOK, Idle, Locking
<1> QED
  BY <1>1, <1>3, NoneAssumption DEF Finish, TypeOK

\* A step of one request that writes no row.
LEMMA ReadingStep ==
    ASSUME IInv, NEW r \in Req, UNCHANGED <<data, logs>>,
           req' \in [Req -> Request], lock' \in Req \cup {None},
           RequestOK(r)',
           \A s \in Req \ {r} : req'[s] = req[s] /\ (lock = s => lock' = s)
    PROVE  IInv'
<1>1. TypeOK'
  BY DEF IInv, TypeOK, data, logs
<1>2. RequestsOK'
  BY OtherRequest DEF IInv, TypeOK, RequestsOK, data
<1> QED
  BY <1>1, <1>2 DEF IInv, HierarchyAcyclic, DependenciesAcyclic, data

LEMMA InitOK == Init => IInv
<1> SUFFICES ASSUME Init PROVE IInv
  OBVIOUS
<1>1. TypeOK
  BY IdleType DEF Init, TypeOK, Entry
<1>2. RequestsOK
  BY DEF Init, Idle, RequestsOK, RequestOK, Locking
<1>3. HierarchyAcyclic
  <2>1. ParentEdges(parent) = {}
    BY DEF Init, ParentEdges
  <2> QED
    BY <2>1 DEF HierarchyAcyclic, Acyclic, AcyclicOn
<1>4. DependenciesAcyclic
  BY DEF Init, DependenciesAcyclic, Acyclic, AcyclicOn
<1> QED
  BY <1>1, <1>2, <1>3, <1>4 DEF IInv

LEMMA StartStep ==
    ASSUME IInv, NEW r \in Req, StartSetParent(r) \/ StartAddDependency(r)
    PROVE  IInv'
<1>1. PICK op \in Locking, a \in tasks, b \in tasks : a # b /\ Start(r, op, a, b)
  BY DEF StartSetParent, StartAddDependency, Locking
<1>2. req' = [req EXCEPT ![r] = [Idle EXCEPT !.op = op, !.pc = "lock", !.a = a, !.b = b]]
  BY <1>1 DEF Start
<1>3. tasks \subseteq used /\ used \subseteq Task /\ req \in [Req -> Request]
  BY DEF IInv, TypeOK
<1>4. req' \in [Req -> Request]
  <2>1. [Idle EXCEPT !.op = op, !.pc = "lock", !.a = a, !.b = b] \in Request
    BY <1>3, IdleType, ZenonT(60) DEF Request
  <2> QED
    BY <1>2, <1>3, <2>1
<1>5. RequestOK(r)'
  BY <1>1, <1>2, <1>3 DEF RequestOK, Idle, Locking, Start, data
<1> QED
  BY <1>1, <1>2, <1>3, <1>4, <1>5, ReadingStep DEF Start, IInv, TypeOK

LEMMA LockStep ==
    ASSUME IInv, NEW r \in Req, LockRelationships(r)
    PROVE  IInv'
<1>1. req' = [req EXCEPT ![r].pc = "read"] /\ req[r].pc = "lock" /\ lock = None /\ lock' = r
  BY DEF LockRelationships
<1>2. req \in [Req -> Request] /\ RequestOK(r)
  BY DEF IInv, TypeOK, RequestsOK
<1>3. req' \in [Req -> Request]
  <2>1. [req[r] EXCEPT !.pc = "read"] \in Request
    BY <1>2, ZenonT(60) DEF Request
  <2> QED
    BY <1>1, <1>2, <2>1
<1>4. RequestOK(r)'
  <2>1. req[r].op \in Locking
    BY <1>1, <1>2 DEF RequestOK, Request, Locking
  <2> QED
    BY <1>1, <1>2, <2>1 DEF RequestOK, Locking, LockRelationships, data, Request
<1>5. \A s \in Req \ {r} : req'[s] = req[s] /\ (lock = s => lock' = s)
  BY <1>1, <1>2, NoneAssumption
<1> QED
  BY <1>1, <1>3, <1>4, <1>5, ReadingStep DEF LockRelationships

LEMMA ReadCurrentStep ==
    ASSUME IInv, NEW r \in Req, ReadCurrent(r)
    PROVE  IInv'
<1> USE DEF IInv
<1>1. CASE HasEdge(r)
  BY <1>1, FinishOK, ReadingStep DEF ReadCurrent
<1>2. CASE ~ HasEdge(r)
  <2> DEFINE w == IF req[r].op = "setParent" THEN parent[req[r].a] ELSE None
  <2>1. /\ req' = [req EXCEPT ![r].pc = "walk", ![r].todo = {req[r].b}, ![r].seen = {},
                            ![r].was = w]
        /\ lock' = lock /\ req[r].pc = "read" /\ req[r].op \in Locking
        /\ UNCHANGED <<data, logs>>
    BY <1>2 DEF ReadCurrent
  <2>2. req \in [Req -> Request] /\ RequestOK(r) /\ used \subseteq Task
    BY DEF TypeOK, RequestsOK
  <2>3. req[r].a \in used /\ req[r].b \in used /\ lock = r
    BY <2>1, <2>2 DEF RequestOK
  <2>4. w \in Task \cup {None}
    BY <2>2, <2>3 DEF TypeOK
  <2>5. req' \in [Req -> Request]
    <3> HIDE DEF w
    <3>1. [req[r] EXCEPT !.pc = "walk", !.todo = {req[r].b}, !.seen = {}, !.was = w]
            \in Request
      BY <2>2, <2>3, <2>4, ZenonT(60) DEF Request
    <3> QED
      BY <2>1, <2>2, <3>1
  <2>6. req'[r].seen = {}
    BY <2>1, <2>2 DEF Request
  <2>7. RequestOK(r)'
    BY <2>1, <2>2, <2>3, <2>6 DEF RequestOK, WalkOK, Locking, data, Request
  <2> QED
    BY <2>1, <2>2, <2>5, <2>7, ReadingStep DEF TypeOK
<1> QED
  BY <1>1, <1>2

LEMMA WalkStep ==
    ASSUME IInv, NEW r \in Req, Walk(r)
    PROVE  IInv'
<1> USE DEF IInv
<1>0. /\ req \in [Req -> Request] /\ RequestOK(r) /\ used \subseteq Task
      /\ req[r].pc = "walk" /\ UNCHANGED <<data, logs>>
  BY DEF TypeOK, RequestsOK, Walk
<1>1. req[r].op \in Locking /\ lock = r /\ WalkOK(r)
  BY <1>0 DEF RequestOK, Request, Locking
<1>2. CASE req[r].todo = {}
  <2>1. req' = [req EXCEPT ![r].pc = "write"] /\ lock' = lock
    BY <1>2 DEF Walk, Goto
  <2>2. [req[r] EXCEPT !.pc = "write"] \in Request
    BY <1>0, ZenonT(60) DEF Request
  <2>3. req' \in [Req -> Request]
    BY <1>0, <2>1, <2>2
  <2>4. RequestOK(r)'
    BY <1>0, <1>1, <1>2, <2>1 DEF RequestOK, WalkOK, Successors, Locking, data, Request
  <2> QED
    BY <1>0, <2>1, <2>3, <2>4, ReadingStep DEF TypeOK
<1>3. ASSUME NEW n \in req[r].todo, n = req[r].a, Finish(r) PROVE IInv'
  BY <1>0, <1>3, FinishOK, ReadingStep
<1>4. ASSUME NEW n \in req[r].todo, n # req[r].a, lock' = lock,
             NEW td, td = (req[r].todo \ {n}) \cup
                    (IF n \in req[r].seen THEN {} ELSE Successors(req[r].op, n)),
             req' = [req EXCEPT ![r].todo = td, ![r].seen = req[r].seen \cup {n}]
      PROVE IInv'
  <2>1. Successors(req[r].op, n) \subseteq used
    <3>1. \A t \in Task : parent[t] \in used \cup {None}
      BY DEF TypeOK
    <3>2. \A m \in Task : <<n, m>> \in deps => m \in used
      BY DEF TypeOK
    <3> QED
      BY <1>0, <3>1, <3>2, <1>4 DEF Successors, Request
  <2>2. req[r].todo \subseteq Task /\ req[r].seen \subseteq Task
    BY <1>0 DEF Request
  <2>3. [req[r] EXCEPT !.todo = td, !.seen = req[r].seen \cup {n}] \in Request
    BY <1>0, <1>4, <2>1, <2>2, ZenonT(60) DEF Request
  <2>4. req' \in [Req -> Request]
    BY <1>0, <1>4, <2>3
  <2>5. /\ req'[r].op = req[r].op /\ req'[r].pc = "walk" /\ req'[r].todo = td
        /\ req'[r].seen = req[r].seen \cup {n}
        /\ req'[r].a = req[r].a /\ req'[r].b = req[r].b
    BY <1>0, <1>4 DEF Request
  <2>6. WalkOK(r)'
    <3>1. \A op, m : Successors(op, m)' = Successors(op, m)
      BY <1>0 DEF Successors, data
    <3>2. req'[r].seen \cup req'[r].todo
            = req[r].seen \cup req[r].todo \cup
              (IF n \in req[r].seen THEN {} ELSE Successors(req[r].op, n))
      BY <1>4, <2>5
    <3>3. n \in req[r].seen => Successors(req[r].op, n) \subseteq req[r].seen \cup req[r].todo
      BY <1>1 DEF WalkOK
    <3>4. n \in used
      BY <1>4, <1>1 DEF WalkOK
    <3>5. \A m \in req'[r].seen :
             Successors(req[r].op, m)' \subseteq req'[r].seen \cup req'[r].todo
      <4>1. \A m \in req[r].seen :
               Successors(req[r].op, m) \subseteq req[r].seen \cup req[r].todo
        BY <1>1 DEF WalkOK
      <4>2. \A m \in req'[r].seen :
               Successors(req[r].op, m) \subseteq req'[r].seen \cup req'[r].todo
        BY <1>4, <2>5, <3>2, <4>1
      <4> QED
        BY <1>0, <2>5, <4>2 DEF Successors, data
    <3>6. req'[r].seen \cup req'[r].todo \subseteq used'
      BY <1>0, <1>1, <2>1, <3>2 DEF WalkOK, data
    <3>7. req'[r].a \notin req'[r].seen /\ req'[r].b \in req'[r].seen \cup req'[r].todo
      BY <1>1, <1>4, <2>5, <3>2 DEF WalkOK
    <3> QED
      BY <3>5, <3>6, <3>7 DEF WalkOK
  <2>7. RequestOK(r)'
    BY <1>0, <1>1, <1>4, <2>5, <2>6 DEF RequestOK, Locking, data
  <2> QED
    BY <1>0, <1>4, <2>4, <2>7, ReadingStep DEF TypeOK
<1> QED
  BY <1>2, <1>3, <1>4 DEF Walk

LEMMA RollbackStep ==
    ASSUME IInv, NEW r \in Req, Rollback(r)
    PROVE  IInv'
BY FinishOK, ReadingStep DEF Rollback, IInv

LEMMA StartClearParentStep ==
    ASSUME IInv, NEW r \in Req, StartClearParent(r)
    PROVE  IInv'
<1>1. PICK t \in tasks :
        req' = [req EXCEPT ![r] = [Idle EXCEPT !.op = "clearParent", !.pc = "write",
                                               !.a = t, !.was = parent[t]]]
  BY DEF StartClearParent
<1>2. /\ tasks \subseteq Task /\ parent \in [Task -> Task \cup {None}]
      /\ req \in [Req -> Request] /\ lock \in Req \cup {None}
  BY DEF IInv, TypeOK
<1>3. req' \in [Req -> Request]
  <2>1. [Idle EXCEPT !.op = "clearParent", !.pc = "write", !.a = t, !.was = parent[t]]
          \in Request
    BY <1>2, IdleType, ZenonT(60) DEF Request
  <2> QED
    BY <1>1, <1>2, <2>1
<1>4. RequestOK(r)'
  BY <1>1, <1>2 DEF RequestOK, Idle, Locking
<1> QED
  BY <1>1, <1>2, <1>3, <1>4, ReadingStep DEF StartClearParent

LEMMA StartDuplicateStep ==
    ASSUME IInv, NEW r \in Req, StartDuplicate(r)
    PROVE  IInv'
<1>1. PICK t \in tasks, pc \in {"collect", "originals"} :
        req' = [req EXCEPT ![r] = [Idle EXCEPT !.op = "duplicate", !.a = t, !.ids = <<t>>,
                                               !.todo = {t}, !.pc = pc]]
  BY DEF StartDuplicate
<1>2. tasks \subseteq Task /\ req \in [Req -> Request] /\ lock \in Req \cup {None}
  BY DEF IInv, TypeOK
<1>3. req' \in [Req -> Request]
  <2>. <<t>> \in Seq(Task)
    BY <1>2
  <2>1. [Idle EXCEPT !.op = "duplicate", !.a = t, !.ids = <<t>>, !.todo = {t}, !.pc = pc]
          \in Request
    BY <1>2, IdleType, ZenonT(60) DEF Request
  <2> QED
    BY <1>1, <1>2, <2>1
<1>4. RequestOK(r)'
  BY <1>1, <1>2 DEF RequestOK, Idle, Locking
<1> QED
  BY <1>1, <1>2, <1>3, <1>4, ReadingStep DEF StartDuplicate

LEMMA CollectLevelStep ==
    ASSUME IInv, NEW r \in Req, CollectLevel(r)
    PROVE  IInv'
<1> DEFINE children == {t \in tasks : parent[t] \in req[r].todo}
<1>1. PICK s \in Listings(children), pc \in {"collect", "originals"} :
        req' = [req EXCEPT ![r].ids = req[r].ids \o s, ![r].todo = children, ![r].pc = pc]
  BY DEF CollectLevel
<1>2. /\ tasks \subseteq Task /\ req \in [Req -> Request] /\ lock \in Req \cup {None}
      /\ RequestOK(r) /\ req[r].pc = "collect"
  BY DEF IInv, TypeOK, RequestsOK, CollectLevel
<1>3. req' \in [Req -> Request]
  <2>1. PICK n \in Nat : n = Cardinality(children)
    BY <1>2, TaskAssumption, FS_Subset, FS_CardinalityType
  <2>2. s \in [1 .. n -> Task]
    BY <1>2, <2>1 DEF Listings
  <2>3. s \in Seq(Task)
    <3> HIDE DEF children
    <3>1. n \in Nat
      BY <2>1
    <3> QED
      BY <3>1, <2>2, SMTT(30)
  <2>4. req[r] \in Request
    BY <1>2
  <2>5. req[r].ids \in Seq(Task)
    BY <2>4 DEF Request
  <2>6. req[r].ids \o s \in Seq(Task)
    BY <2>3, <2>5
  <2>8. [req[r] EXCEPT !.ids = req[r].ids \o s, !.todo = children, !.pc = pc] \in Request
    BY <1>2, <2>4, <2>6, ZenonT(60) DEF Request
  <2> QED
    BY <1>1, <1>2, <2>8
<1>4. RequestOK(r)'
  BY <1>1, <1>2 DEF RequestOK, Request, Locking
<1> QED
  BY <1>1, <1>2, <1>3, <1>4, ReadingStep DEF CollectLevel

LEMMA ReadOriginalsStep ==
    ASSUME IInv, NEW r \in Req, ReadOriginals(r)
    PROVE  IInv'
<1> DEFINE found == {t \in tasks : \E i \in DOMAIN req[r].ids : req[r].ids[i] = t}
           rows == [t \in found |-> parent[t]]
<1>1. /\ req' = [req EXCEPT ![r].snap = rows, ![r].pc = "clone", ![r].todo = {}]
      /\ req[r].pc = "originals" /\ lock' = lock /\ UNCHANGED <<data, logs>>
  BY DEF ReadOriginals
<1>2. /\ tasks \subseteq Task /\ req \in [Req -> Request] /\ lock \in Req \cup {None}
      /\ parent \in [Task -> Task \cup {None}] /\ RequestOK(r)
  BY DEF IInv, TypeOK, RequestsOK
<1>3. found \subseteq Task /\ rows \in [found -> Task \cup {None}] /\ DOMAIN rows = found
  BY <1>2
<1>4. rows \in Snapshot
  BY <1>3 DEF Snapshot
<1> HIDE DEF rows
<1>5. req' \in [Req -> Request]
  <2>1. [req[r] EXCEPT !.snap = rows, !.pc = "clone", !.todo = {}] \in Request
    BY <1>2, <1>4, ZenonT(60) DEF Request
  <2> QED
    BY <1>1, <1>2, <2>1
<1>6. /\ req'[r].snap = rows /\ req'[r].pc = "clone" /\ req'[r].ids = req[r].ids
      /\ req'[r].op = req[r].op /\ req'[r].a = req[r].a
  BY <1>1, <1>2 DEF Request
<1>7. CopyOK(r)'
  <2>1. \A t \in found : \E i \in DOMAIN req[r].ids : req[r].ids[i] = t
    OBVIOUS
  <2>2. AcyclicOn(found, ParentEdges(rows))
    <3>1. Rooted(parent)
      BY <1>2, HierarchyRooted DEF IInv, HierarchyAcyclic
    <3>2. \A S \in SUBSET found : S # {} => \E x \in S : rows[x] \notin S
      BY <1>3, <3>1 DEF Rooted, rows
    <3> QED
      BY <1>3, <3>2, NoneAssumption, ParentAcyclic
  <2> QED
    BY <1>3, <1>6, <2>1, <2>2 DEF CopyOK, Places
<1>8. RequestOK(r)'
  BY <1>1, <1>2, <1>6, <1>7 DEF RequestOK, Request, Locking
<1> QED
  BY <1>1, <1>2, <1>5, <1>8, ReadingStep

\* New rows: new ids, attached to rows or to each other without a cycle.
LEMMA AddRowsStep ==
    ASSUME IInv, NEW N \in SUBSET (Task \ used), NEW p \in [N -> tasks \cup N \cup {None}],
           NEW d \in SUBSET (N \X N), AddRows(N, p, d),
           parentLog' \in [Task -> SUBSET Task],
           \A S \in SUBSET N : S # {} => \E x \in S : p[x] \notin S,
           AcyclicOn(N, d),
           req' \in [Req -> Request], lock' \in Req \cup {None},
           \A s \in Req : \/ RequestOK(s)'
                          \/ req'[s] = req[s] /\ (lock = s => lock' = s)
    PROVE  IInv'
<1>1. /\ tasks \subseteq used /\ used \subseteq Task /\ parent \in [Task -> tasks \cup {None}]
      /\ deps \subseteq tasks \X tasks /\ \A t \in Task \ tasks : parent[t] = None
      /\ depLog \in [Task \X Task -> Entry] /\ born \subseteq Task \X Task
  BY DEF IInv, TypeOK
<1>2. /\ tasks' = tasks \cup N /\ used' = used \cup N /\ deps' = deps \cup d
      /\ parent' \in [Task -> Task \cup {None}]
      /\ \A t \in Task : parent'[t] = IF t \in N THEN p[t] ELSE parent[t]
  BY <1>1 DEF AddRows
<1>3. TypeOK'
  <2>1. parent' \in [Task -> tasks' \cup {None}]
    <3>1. ASSUME NEW t \in Task PROVE parent'[t] \in tasks' \cup {None}
      <4>1. CASE t \in N
        <5>1. p[t] \in tasks \cup N \cup {None}
          BY <4>1
        <5> QED
          BY <1>2, <4>1, <5>1
      <4>2. CASE t \notin N
        BY <1>1, <1>2, <4>2
      <4> QED
        BY <4>1, <4>2
    <3> QED
      BY <1>2, <3>1
  <2>2. \A t \in Task \ tasks' : parent'[t] = None
    BY <1>1, <1>2
  <2>3. depLog' \in [Task \X Task -> Entry] /\ born' \subseteq Task \X Task
    BY <1>1 DEF AddRows
  <2> QED
    BY <1>1, <1>2, <2>1, <2>2, <2>3 DEF TypeOK
<1>4. HierarchyAcyclic'
  <2>1. Rooted(parent)
    BY <1>1, HierarchyRooted DEF IInv, HierarchyAcyclic
  <2>2. Rooted(parent')
    <3> SUFFICES ASSUME NEW S \in SUBSET Task, S # {} PROVE \E x \in S : parent'[x] \notin S
      BY DEF Rooted
    <3>1. CASE S \subseteq N
      BY <1>2, <3>1
    <3>2. CASE S \ N # {}
      <4>1. PICK x \in S \ N : parent[x] \notin S \ N
        BY <2>1, <3>2 DEF Rooted
      <4> QED
        BY <1>1, <1>2, <4>1, NoneAssumption
    <3> QED
      BY <3>1, <3>2
  <2> QED
    BY <1>2, <2>2, HierarchyRooted DEF HierarchyAcyclic
<1>5. DependenciesAcyclic'
  <2>1. Acyclic(deps \cup d)
    BY <1>1, AddNewTasks DEF IInv, DependenciesAcyclic
  <2> QED
    BY <1>2, <2>1 DEF DependenciesAcyclic
<1>6. RequestsOK'
  <2>1. \A n \in used : parent'[n] = parent[n]
    BY <1>1, <1>2
  <2>2. \A n \in used, m \in Task : <<n, m>> \in deps' => <<n, m>> \in deps
    BY <1>1, <1>2
  <2> QED
    BY <1>2, <2>1, <2>2, OtherRequest DEF IInv, RequestsOK
<1> QED
  BY <1>3, <1>4, <1>5, <1>6 DEF IInv

LEMMA CreateStep ==
    ASSUME IInv, CreateTask \/ CreateSubtask
    PROVE  IInv'
<1>1. PICK t \in Task \ used, u \in tasks \cup {None} :
        AddRows({t}, [x \in {t} |-> u], {})
  <2>1. CASE CreateTask
    BY <2>1 DEF CreateTask
  <2>2. CASE CreateSubtask
    BY <2>2 DEF CreateSubtask
  <2> QED
    BY <2>1, <2>2
<1> DEFINE N == {t}   p == [x \in {t} |-> u]   d == {}
<1>2. req' = req /\ lock' = lock
  BY DEF CreateTask, CreateSubtask
<1>3. tasks \subseteq used /\ t # None /\ req \in [Req -> Request] /\ lock \in Req \cup {None}
  BY NoneAssumption DEF IInv, TypeOK
<1>4. \A S \in SUBSET N : S # {} => \E x \in S : p[x] \notin S
  BY <1>3
<1>5. AcyclicOn(N, d)
  BY DEF AcyclicOn
<1>6. /\ N \in SUBSET (Task \ used) /\ p \in [N -> tasks \cup N \cup {None}]
      /\ d \in SUBSET (N \X N) /\ AddRows(N, p, d)
  BY <1>1
<1>7. parentLog' \in [Task -> SUBSET Task]
  <2>1. CASE parentLog' = parentLog
    BY <2>1 DEF IInv, TypeOK
  <2>2. CASE CreateSubtask
    <3>1. PICK q \in tasks, v \in Task : parentLog' = [parentLog EXCEPT ![v] = {q}]
      BY <2>2 DEF CreateSubtask
    <3> QED
      BY <3>1, <1>3 DEF IInv, TypeOK
  <2> QED
    BY <2>1, <2>2 DEF CreateTask
<1> HIDE DEF N, p, d
<1> QED
  BY <1>2, <1>3, <1>4, <1>5, <1>6, <1>7, AddRowsStep

LEMMA InstantiateStep ==
    ASSUME IInv, Instantiate
    PROVE  IInv'
<1>s. PICK s \in Template : \E f \in FreshIds(s.node) :
        LET new == {f[n] : n \in s.node}
            at(t) == CHOOSE n \in s.node : f[n] = t
        IN AddRows(new,
                   [t \in new |-> IF s.parent[at(t)] = None THEN None ELSE f[s.parent[at(t)]]],
                   {<<f[e[1]], f[e[2]]>> : e \in s.dep})
  BY DEF Instantiate
<1>1. PICK f \in FreshIds(s.node) :
        LET new == {f[n] : n \in s.node}
            at(t) == CHOOSE n \in s.node : f[n] = t
        IN AddRows(new,
                   [t \in new |-> IF s.parent[at(t)] = None THEN None ELSE f[s.parent[at(t)]]],
                   {<<f[e[1]], f[e[2]]>> : e \in s.dep})
  BY <1>s
<1> DEFINE N == {f[n] : n \in s.node}
           at(t) == CHOOSE n \in s.node : f[n] = t
           p == [t \in N |-> IF s.parent[at(t)] = None THEN None ELSE f[s.parent[at(t)]]]
           d == {<<f[e[1]], f[e[2]]>> : e \in s.dep}
<1>2. /\ req' = req /\ lock' = lock
      /\ tasks \subseteq used /\ req \in [Req -> Request] /\ lock \in Req \cup {None}
      /\ parentLog' \in [Task -> SUBSET Task]
  BY DEF Instantiate, IInv, TypeOK
<1>3. /\ f \in [s.node -> Task \ used]
      /\ \A x, y \in s.node : f[x] = f[y] => x = y
  BY DEF FreshIds
<1>4. /\ s.parent \in [s.node -> s.node \cup {None}] /\ None \notin s.node
      /\ s.dep \subseteq s.node \X s.node
      /\ AcyclicOn(s.node, ParentEdges(s.parent)) /\ AcyclicOn(s.node, s.dep)
  BY TemplateAssumption, NoneAssumption
<1>5. \A n \in s.node : at(f[n]) = n
  BY <1>3, SMTT(60)
<1>6. \A n \in s.node : p[f[n]] = IF s.parent[n] = None THEN None ELSE f[s.parent[n]]
  BY <1>5
<1>p. p = [t \in N |-> p[t]]
  OBVIOUS
<1> HIDE DEF p, at
<1>7. /\ N \in SUBSET (Task \ used) /\ p \in [N -> tasks \cup N \cup {None}]
      /\ d \in SUBSET (N \X N) /\ AddRows(N, p, d)
  <2>1. N \in SUBSET (Task \ used)
    BY <1>3
  <2>2. p \in [N -> tasks \cup N \cup {None}]
    <3>1. \A n \in s.node : p[f[n]] \in N \cup {None}
      <4> TAKE n \in s.node
      <4>1. CASE s.parent[n] = None
        BY <1>6, <4>1
      <4>2. CASE s.parent[n] \in s.node
        <5>1. f[s.parent[n]] \in N /\ s.parent[n] # None
          BY <1>4, <4>2
        <5> QED
          BY <1>6, <5>1
      <4> QED
        BY <1>4, <4>1, <4>2
    <3> QED
      BY <3>1, <1>p
  <2>3. d \in SUBSET (N \X N)
    BY <1>4
  <2>4. AddRows(N, p, d)
    BY <1>1 DEF p, at
  <2> QED
    BY <2>1, <2>2, <2>3, <2>4
<1>8. \A S \in SUBSET N : S # {} => \E x \in S : p[x] \notin S
  <2> SUFFICES ASSUME NEW S \in SUBSET N, S # {} PROVE \E x \in S : p[x] \notin S
    OBVIOUS
  <2> DEFINE S0 == {n \in s.node : f[n] \in S}
  <2>1. S0 \in SUBSET s.node /\ S0 # {}
    OBVIOUS
  <2>2. PICK n \in S0 : s.parent[n] \notin S0
    BY <1>4, <2>1, ParentAcyclic
  <2>3. p[f[n]] \notin S
    <3>1. None \notin N
      BY <1>7, NoneAssumption
    <3>2. CASE s.parent[n] = None
      BY <1>6, <3>1, <3>2
    <3>3. CASE s.parent[n] \in s.node
      BY <1>4, <1>6, <2>2, <3>3
    <3> QED
      BY <1>4, <3>2, <3>3
  <2> QED
    BY <2>3
<1>9. AcyclicOn(N, d)
  <2> SUFFICES ASSUME NEW S \in SUBSET N, S # {} PROVE \E x \in S : \A y \in S : <<x, y>> \notin d
    BY DEF AcyclicOn
  <2> DEFINE S0 == {n \in s.node : f[n] \in S}
  <2>1. S0 \in SUBSET s.node /\ S0 # {}
    OBVIOUS
  <2>2. PICK n \in S0 : \A m \in S0 : <<n, m>> \notin s.dep
    BY <1>4, <2>1 DEF AcyclicOn
  <2>3. ASSUME NEW y \in S, <<f[n], y>> \in d PROVE FALSE
    <3>1. PICK e \in s.dep : <<f[n], y>> = <<f[e[1]], f[e[2]]>>
      BY <2>3
    <3>2. e[1] \in s.node /\ e[2] \in s.node /\ e = <<e[1], e[2]>>
      BY <1>4
    <3>3. e[1] = n /\ e[2] \in S0
      BY <1>3, <3>1, <3>2
    <3> QED
      BY <2>2, <3>2, <3>3
  <2> QED
    BY <2>3
<1> HIDE DEF N, d
<1> QED
  BY <1>2, <1>7, <1>8, <1>9, AddRowsStep

LEMMA DeleteStep ==
    ASSUME IInv, DeleteTask
    PROVE  IInv'
<1>1. PICK t \in tasks :
        /\ tasks' = tasks \ {t}
        /\ parent' = [u \in Task |-> IF u = t \/ parent[u] = t THEN None ELSE parent[u]]
        /\ deps' = {e \in deps : e[1] # t /\ e[2] # t}
        /\ parentLog' = [parentLog EXCEPT ![t] = {}]
  BY DEF DeleteTask
<1>2. /\ used' = used /\ lock' = lock /\ req' = req /\ depLog' = depLog
      /\ tasks \subseteq used /\ used \subseteq Task /\ parent \in [Task -> tasks \cup {None}]
      /\ deps \subseteq tasks \X tasks /\ \A u \in Task \ tasks : parent[u] = None
      /\ req \in [Req -> Request] /\ lock \in Req \cup {None}
      /\ parentLog \in [Task -> SUBSET Task] /\ depLog \in [Task \X Task -> Entry]
      /\ born' = born /\ born \subseteq Task \X Task
  BY DEF DeleteTask, IInv, TypeOK
<1>3. \A u \in Task : parent'[u] \in {parent[u], None} /\ parent'[u] # t /\ parent'[t] = None
  BY <1>1, <1>2, NoneAssumption
<1>4. TypeOK'
  <2>1. parent' \in [Task -> tasks' \cup {None}]
    BY <1>1, <1>2, <1>3
  <2>2. \A u \in Task \ tasks' : parent'[u] = None
    BY <1>1, <1>2
  <2>3. deps' \subseteq tasks' \X tasks'
    BY <1>1, <1>2
  <2>4. parentLog' \in [Task -> SUBSET Task]
    BY <1>1, <1>2
  <2> QED
    BY <1>1, <1>2, <2>1, <2>2, <2>3, <2>4 DEF TypeOK
<1>5. HierarchyAcyclic'
  <2>1. Rooted(parent)
    BY <1>2, HierarchyRooted DEF IInv, HierarchyAcyclic
  <2>2. Rooted(parent')
    BY <1>3, <2>1, NoneAssumption DEF Rooted
  <2>3. parent' \in [Task -> Task \cup {None}]
    BY <1>4 DEF TypeOK
  <2> QED
    BY <2>2, <2>3, HierarchyRooted DEF HierarchyAcyclic
<1>6. DependenciesAcyclic'
  BY <1>1, FewerEdges DEF IInv, DependenciesAcyclic
<1>7. RequestsOK'
  BY <1>1, <1>2, <1>3, OtherRequest DEF IInv, RequestsOK
<1> QED
  BY <1>4, <1>5, <1>6, <1>7 DEF IInv

LEMMA RemoveDependencyStep ==
    ASSUME IInv, RemoveDependency
    PROVE  IInv'
<1>1. /\ UNCHANGED <<tasks, used, parent, lock, req, parentLog, born>>
      /\ deps' \subseteq deps /\ \E e : depLog' = [depLog EXCEPT ![e] = "removed"]
  BY DEF RemoveDependency
<1>2. TypeOK'
  BY <1>1 DEF IInv, TypeOK, Entry
<1>3. DependenciesAcyclic'
  BY <1>1, FewerEdges DEF IInv, DependenciesAcyclic
<1>4. RequestsOK'
  BY <1>1, OtherRequest DEF IInv, RequestsOK
<1> QED
  BY <1>1, <1>2, <1>3, <1>4 DEF IInv, HierarchyAcyclic

\* What the walk of a request about to write has found: no edge leaves the tasks
\* it has seen, its target is one of them, and its source is not.
LEMMA WalkFound ==
    ASSUME IInv, NEW r \in Req, req[r].pc = "write", req[r].op \in Locking
    PROVE  /\ lock = r /\ req[r].a \in Task /\ req[r].b \in req[r].seen
           /\ req[r].a \notin req[r].seen /\ req[r].seen \subseteq Task
           /\ \A n \in req[r].seen : Successors(req[r].op, n) \subseteq req[r].seen
BY DEF IInv, TypeOK, RequestsOK, RequestOK, WalkOK

LEMMA WriteParentStep ==
    ASSUME IInv, NEW r \in Req, WriteParent(r)
    PROVE  IInv'
<1> DEFINE a == req[r].a   b == req[r].b   seen == req[r].seen
<1>1. /\ req[r].pc = "write" /\ req[r].op = "setParent" /\ a \in tasks /\ b \in tasks
      /\ parent' = [parent EXCEPT ![a] = b]
      /\ parentLog' = [parentLog EXCEPT ![a] = (@ \ {req[r].was}) \cup {b}]
      /\ Finish(r) /\ UNCHANGED <<tasks, used, deps, depLog, born>>
  BY DEF WriteParent
<1>2. /\ lock = r /\ b \in seen /\ a \notin seen /\ seen \subseteq Task
      /\ \A n \in seen : Successors("setParent", n) \subseteq seen
  BY <1>1, WalkFound DEF Locking
<1>3. /\ tasks \subseteq used /\ used \subseteq Task /\ parent \in [Task -> tasks \cup {None}]
      /\ parentLog \in [Task -> SUBSET Task] /\ \A t \in Task \ tasks : parent[t] = None
  BY DEF IInv, TypeOK
<1> HIDE DEF a, b, seen
<1>4. TypeOK'
  <2>1. parent' \in [Task -> tasks \cup {None}] /\ \A t \in Task \ tasks : parent'[t] = None
    BY <1>1, <1>3
  <2>2. parentLog' \in [Task -> SUBSET Task]
    BY <1>1, <1>3
  <2> QED
    BY <1>1, <2>1, <2>2, FinishOK DEF IInv, TypeOK
<1>5. HierarchyAcyclic'
  <2>1. Rooted(parent)
    BY <1>3, HierarchyRooted DEF IInv, HierarchyAcyclic
  <2>2. \A n \in seen : parent[n] \in seen \cup {None}
    BY <1>2 DEF Successors
  <2>3. Rooted(parent')
    <3> SUFFICES ASSUME NEW S \in SUBSET Task, S # {} PROVE \E x \in S : parent'[x] \notin S
      BY DEF Rooted
    <3>1. CASE S \cap seen # {}
      <4>1. PICK x \in S \cap seen : parent[x] \notin S \cap seen
        BY <2>1, <3>1 DEF Rooted
      <4>2. parent'[x] = parent[x] /\ parent[x] \notin S
        BY <1>1, <1>2, <1>3, <2>2, <4>1, NoneAssumption
      <4> QED
        BY <4>1, <4>2
    <3>2. CASE S \cap seen = {}
      <4>1. PICK x \in S : parent[x] \notin S
        BY <2>1 DEF Rooted
      <4>2. parent'[x] \notin S
        BY <1>1, <1>2, <1>3, <3>2, <4>1
      <4> QED
        BY <4>2
    <3> QED
      BY <3>1, <3>2
  <2>4. parent' \in [Task -> Task \cup {None}]
    BY <1>1, <1>3
  <2> QED
    BY <2>3, <2>4, HierarchyRooted DEF HierarchyAcyclic
<1>6. RequestsOK'
  <2>1. \A s \in Req \ {r} : RequestOK(s)'
    BY <1>1, <1>2, FinishOK, OtherRequest DEF IInv, RequestsOK
  <2> QED
    BY <1>1, <2>1, FinishOK DEF IInv, RequestsOK
<1> QED
  BY <1>1, <1>4, <1>5, <1>6 DEF IInv, DependenciesAcyclic

LEMMA WriteDependencyStep ==
    ASSUME IInv, NEW r \in Req, WriteDependency(r)
    PROVE  IInv'
<1> DEFINE a == req[r].a   b == req[r].b   seen == req[r].seen
<1>1. /\ req[r].pc = "write" /\ req[r].op = "addDependency" /\ a \in tasks /\ b \in tasks
      /\ deps' = deps \cup {<<a, b>>} /\ depLog' = [depLog EXCEPT ![<<a, b>>] = "added"]
      /\ Finish(r) /\ UNCHANGED <<tasks, used, parent, parentLog, born>>
  BY DEF WriteDependency
<1>2. /\ lock = r /\ b \in seen /\ a \notin seen /\ seen \subseteq Task
      /\ \A n \in seen : Successors("addDependency", n) \subseteq seen
  BY <1>1, WalkFound DEF Locking
<1> HIDE DEF a, b, seen
<1>3. TypeOK'
  BY <1>1, FinishOK DEF IInv, TypeOK, Entry
<1>4. DependenciesAcyclic'
  <2>1. \A x \in seen, y \in Task : <<x, y>> \in deps => y \in seen
    BY <1>2 DEF Successors
  <2> QED
    BY <1>1, <1>2, <2>1, AddEdge DEF IInv, DependenciesAcyclic
<1>5. RequestsOK'
  <2>1. \A s \in Req \ {r} : RequestOK(s)'
    BY <1>1, <1>2, FinishOK, OtherRequest DEF IInv, RequestsOK
  <2> QED
    BY <1>1, <2>1, FinishOK DEF IInv, RequestsOK
<1> QED
  BY <1>1, <1>3, <1>4, <1>5 DEF IInv, HierarchyAcyclic

LEMMA ClearParentStep ==
    ASSUME IInv, NEW r \in Req, ClearParent(r)
    PROVE  IInv'
<1> DEFINE a == req[r].a
<1>1. /\ a \in tasks
      /\ parent' = [parent EXCEPT ![a] = None]
      /\ parentLog' = [parentLog EXCEPT ![a] = @ \ {req[r].was}]
      /\ Finish(r) /\ UNCHANGED <<tasks, used, deps, depLog, born>>
  BY DEF ClearParent
<1>2. /\ tasks \subseteq used /\ used \subseteq Task /\ parent \in [Task -> tasks \cup {None}]
      /\ parentLog \in [Task -> SUBSET Task] /\ \A t \in Task \ tasks : parent[t] = None
  BY DEF IInv, TypeOK
<1> HIDE DEF a
<1>3. \A t \in Task : parent'[t] \in {parent[t], None}
  BY <1>1, <1>2
<1>4. parent' \in [Task -> tasks \cup {None}] /\ parentLog' \in [Task -> SUBSET Task]
  BY <1>1, <1>2
<1>5. TypeOK'
  BY <1>1, <1>2, <1>3, <1>4, FinishOK DEF IInv, TypeOK
<1>6. HierarchyAcyclic'
  <2>1. Rooted(parent)
    BY <1>2, HierarchyRooted DEF IInv, HierarchyAcyclic
  <2>2. Rooted(parent')
    BY <1>3, <2>1, NoneAssumption DEF Rooted
  <2>3. parent' \in [Task -> Task \cup {None}]
    BY <1>2, <1>4
  <2> QED
    BY <2>2, <2>3, HierarchyRooted DEF HierarchyAcyclic
<1>7. RequestsOK'
  <2>1. \A s \in Req \ {r} : RequestOK(s)'
    BY <1>1, <1>2, <1>3, FinishOK, OtherRequest DEF IInv, RequestsOK
  <2> QED
    BY <1>1, <2>1, FinishOK DEF IInv, RequestsOK
<1> QED
  BY <1>1, <1>5, <1>6, <1>7 DEF IInv, DependenciesAcyclic

\* The place a lookup in idMap points to: a cloned place that holds the task.
LEMMA LastPlaceOK ==
    ASSUME IInv, NEW r \in Req, NEW t, NEW i \in Nat,
           NEW j, j = LastPlace(r, t, i), j # 0
    PROVE  j \in Places(r) /\ req[r].ids[j] = t
<1> DEFINE js == {k \in Places(r) : k < i /\ req[r].ids[k] = t}
<1>1. req[r].ids \in Seq(Task)
  BY DEF IInv, TypeOK, Request
<1>2. js \in SUBSET (1 .. Len(req[r].ids))
  BY <1>1 DEF Places
<1>3. js # {}
  BY DEF LastPlace
<1>4. Len(req[r].ids) \in Nat
  BY <1>1
<1> HIDE DEF js
<1>5. \E k \in js : \A l \in js : l <= k
  BY <1>2, <1>3, <1>4, HasLargest
<1>6. j = CHOOSE k \in js : \A l \in js : l <= k
  BY <1>3 DEF LastPlace, js
<1>7. j \in js
  BY <1>5, <1>6
<1> QED
  BY <1>7 DEF js

\* Every task read is at some place, so its last place is one.
LEMMA MappedOK ==
    ASSUME IInv, NEW r \in Req, CopyOK(r), NEW t \in DOMAIN req[r].snap,
           NEW j, j = LastPlace(r, t, Len(req[r].ids) + 1)
    PROVE  j \in Places(r) /\ req[r].ids[j] = t
<1>1. req[r].ids \in Seq(Task)
  BY DEF IInv, TypeOK, Request
<1>2. PICK i \in Places(r) : req[r].ids[i] = t
  BY DEF CopyOK
<1>3. i \in 1 .. Len(req[r].ids) /\ Places(r) \subseteq 1 .. Len(req[r].ids)
  BY <1>1, <1>2 DEF Places
<1>4. Len(req[r].ids) \in Nat
  BY <1>1
<1> DEFINE js == {k \in Places(r) : k < Len(req[r].ids) + 1 /\ req[r].ids[k] = t}
<1>5. i \in js /\ js \subseteq 1 .. Len(req[r].ids)
  BY <1>2, <1>3, <1>4
<1> HIDE DEF js
<1>6. \E k \in js : \A l \in js : l <= k
  <2>1. js \in SUBSET (1 .. Len(req[r].ids)) /\ js # {}
    BY <1>5
  <2> QED
    BY <1>4, <2>1, HasLargest
<1>7. j = CHOOSE k \in js : \A l \in js : l <= k
  BY <1>5 DEF LastPlace, js
<1>8. j \in js
  BY <1>6, <1>7
<1> QED
  BY <1>8 DEF js

LEMMA CloneStep ==
    ASSUME IInv, NEW r \in Req, Clone(r)
    PROVE  IInv'
<1> DEFINE snap == req[r].snap
           ids == req[r].ids
           P == Places(r)
           mapped(t) == LastPlace(r, t, Len(ids) + 1)
           inner == {e \in deps : e[1] \in DOMAIN snap /\ e[2] \in DOMAIN snap}
<1>1. PICK f \in FreshIds(P) :
        LET new == {f[i] : i \in P}
            at(t) == CHOOSE i \in P : f[i] = t
        IN AddRows(new, [t \in new |-> CloneParent(r, f, at(t))],
                   {<<f[mapped(e[1])], f[mapped(e[2])]>> : e \in inner})
  BY DEF Clone
<1> DEFINE N == {f[i] : i \in P}
           at(t) == CHOOSE i \in P : f[i] = t
           p == [t \in N |-> CloneParent(r, f, at(t))]
           d == {<<f[mapped(e[1])], f[mapped(e[2])]>> : e \in inner}
<1>2. /\ req[r].pc = "clone" /\ CopyOK(r) /\ Finish(r) /\ req[r] \in Request
      /\ req[r].a \in DOMAIN snap => snap[req[r].a] \in tasks \cup {None}
  BY DEF Clone, IInv, TypeOK, RequestsOK, RequestOK
<1>3. f \in [P -> Task \ used] /\ \A i, k \in P : f[i] = f[k] => i = k
  BY DEF FreshIds
<1>4. /\ tasks \subseteq used /\ used \subseteq Task
      /\ deps \subseteq tasks \X tasks /\ Acyclic(deps)
  BY DEF IInv, TypeOK, DependenciesAcyclic
<1>5. PICK V \in SUBSET Task : snap \in [V -> Task \cup {None}] /\ V = DOMAIN snap
  BY <1>2 DEF Request, Snapshot
<1>6. /\ \A i \in P : i \in Nat /\ i # 0 /\ ids[i] \in DOMAIN snap
      /\ Len(ids) + 1 \in Nat
  BY <1>2 DEF Places, Request
<1>7. \A i \in P : p[f[i]] = CloneParent(r, f, i)
  BY <1>3
<1>8. p = [t \in N |-> p[t]]
  OBVIOUS
<1>9. AddRows(N, p, d)
  BY <1>1
<1>10. N \in SUBSET (Task \ used)
  BY <1>3
<1>11. \A t \in DOMAIN snap : mapped(t) \in P /\ ids[mapped(t)] = t
  BY <1>2, MappedOK
<1> HIDE DEF p, at, mapped, P
\* The parent of a clone is a row, null, or the clone of the parent that was read.
<1>12. ASSUME NEW i \in P
       PROVE  \/ p[f[i]] \in tasks \cup {None}
              \/ \E j \in P : p[f[i]] = f[j] /\ ids[j] = snap[ids[i]]
  <2> DEFINE o == ids[i]   j == LastPlace(r, snap[o], i)
  <2>1. CASE o = req[r].a
    BY <1>2, <1>6, <1>7, <2>1 DEF CloneParent
  <2>2. CASE o # req[r].a /\ (snap[o] = None \/ j = 0)
    BY <1>7, <2>2 DEF CloneParent
  <2>3. CASE o # req[r].a /\ ~ (snap[o] = None \/ j = 0)
    <3>1. p[f[i]] = f[j]
      BY <1>7, <2>3 DEF CloneParent
    <3>2. j \in P /\ ids[j] = snap[o]
      BY <1>6, <2>3, LastPlaceOK DEF P
    <3> QED
      BY <3>1, <3>2
  <2> QED
    BY <2>1, <2>2, <2>3
<1>13. p \in [N -> tasks \cup N \cup {None}]
  <2>1. \A i \in P : p[f[i]] \in tasks \cup N \cup {None}
    BY <1>12
  <2> QED
    BY <1>8, <2>1
<1>14. d \in SUBSET (N \X N)
  BY <1>11
<1>15. \A S \in SUBSET N : S # {} => \E x \in S : p[x] \notin S
  <2> SUFFICES ASSUME NEW S \in SUBSET N, S # {} PROVE \E x \in S : p[x] \notin S
    OBVIOUS
  <2> DEFINE S0 == {ids[i] : i \in {k \in P : f[k] \in S}}
  <2>1. S0 \in SUBSET V /\ S0 # {}
    BY <1>5, <1>6
  <2>2. PICK o \in S0 : snap[o] \notin S0
    <3>1. None \notin V /\ AcyclicOn(V, ParentEdges(snap))
      BY <1>2, <1>5, NoneAssumption DEF CopyOK
    <3>2. \A T \in SUBSET V : T # {} => \E x \in T : snap[x] \notin T
      <4>1. snap \in [V -> Task \cup {None}]
        BY <1>5
      <4> HIDE DEF snap
      <4> QED
        BY <3>1, <4>1, ParentAcyclic
    <3> HIDE DEF S0
    <3> QED
      BY <2>1, <3>2
  <2>3. PICK i \in P : f[i] \in S /\ ids[i] = o
    OBVIOUS
  <2>4. p[f[i]] \notin S
    <3>1. CASE p[f[i]] \in tasks \cup {None}
      BY <1>4, <1>10, <3>1, NoneAssumption
    <3>2. ASSUME NEW j \in P, p[f[i]] = f[j], ids[j] = snap[ids[i]] PROVE p[f[i]] \notin S
      BY <2>2, <2>3, <3>2
    <3> QED
      BY <1>12, <3>1, <3>2
  <2> QED
    BY <2>3, <2>4
<1>16. AcyclicOn(N, d)
  <2> SUFFICES ASSUME NEW S \in SUBSET N, S # {} PROVE \E x \in S : \A y \in S : <<x, y>> \notin d
    BY DEF AcyclicOn
  <2> DEFINE S0 == {o \in V : f[mapped(o)] \in S}
  <2>1. CASE S0 = {}
    <3>1. ASSUME NEW x \in S, NEW y \in S, <<x, y>> \in d PROVE FALSE
      <4>1. PICK e \in inner : <<x, y>> = <<f[mapped(e[1])], f[mapped(e[2])]>>
        BY <3>1
      <4> QED
        BY <1>5, <2>1, <4>1
    <3> QED
      BY <3>1
  <2>2. CASE S0 # {}
    <3>1. PICK o \in S0 : \A q \in S0 : <<o, q>> \notin deps
      BY <1>4, <2>2 DEF Acyclic, AcyclicOn
    <3>2. ASSUME NEW y \in S, <<f[mapped(o)], y>> \in d PROVE FALSE
      <4>1. PICK e \in inner : <<f[mapped(o)], y>> = <<f[mapped(e[1])], f[mapped(e[2])]>>
        BY <3>2
      <4>2. e = <<e[1], e[2]>> /\ e \in deps /\ e[1] \in V /\ e[2] \in V
        BY <1>4, <1>5
      <4>3. mapped(o) = mapped(e[1])
        BY <1>3, <1>5, <1>11, <4>1, <4>2
      <4>4. o = e[1]
        BY <1>5, <1>11, <4>2, <4>3
      <4>5. e[2] \in S0
        BY <4>1, <4>2
      <4> QED
        BY <3>1, <4>2, <4>4, <4>5
    <3> QED
      BY <3>2
  <2> QED
    BY <2>1, <2>2
<1> HIDE DEF N, d
<1>17. parentLog' \in [Task -> SUBSET Task]
  BY DEF Clone, IInv, TypeOK
<1> QED
  BY <1>2, <1>9, <1>10, <1>13, <1>14, <1>15, <1>16, <1>17, AddRowsStep, FinishOK DEF IInv

-----------------------------------------------------------------------------
(* The history of the dependencies.                                        *)

\* Neither the entries nor the births name an id that was not given out yet.
HistoryOK ==
    /\ DependencyHistoryReplays
    /\ born \subseteq used \X used
    /\ \A e \in Task \X Task : depLog[e] # "none" => e \in used \X used

\* New rows come with dependencies among themselves, which no entry speaks of.
LEMMA AddRowsHistory ==
    ASSUME IInv, HistoryOK, NEW N \in SUBSET (Task \ used), NEW p,
           NEW d \in SUBSET (N \X N), AddRows(N, p, d)
    PROVE  HistoryOK'
<1>1. /\ tasks' = tasks \cup N /\ used' = used \cup N
      /\ deps' = deps \cup d /\ depLog' = depLog /\ born' = born \cup d
  BY DEF AddRows
<1>2. tasks \subseteq used /\ used \subseteq Task /\ deps \subseteq tasks \X tasks
  BY DEF IInv, TypeOK
<1>3. /\ born' \subseteq used' \X used'
      /\ \A e \in Task \X Task : depLog'[e] # "none" => e \in used' \X used'
  BY <1>1 DEF HistoryOK
<1>4. Recorded' = Recorded \cup d
  <2>1. d \subseteq Task \X Task /\ \A e \in d : e \notin used \X used
    OBVIOUS
  <2>2. \A e \in d : depLog[e] = "none"
    BY <2>1 DEF HistoryOK
  <2> QED
    BY <1>1, <2>1, <2>2 DEF Recorded
<1>5. \A e \in Recorded : (e[1] \in tasks' /\ e[2] \in tasks') <=> (e[1] \in tasks /\ e[2] \in tasks)
  <2>1. Recorded \subseteq used \X used
    BY DEF HistoryOK, Recorded
  <2> QED
    BY <1>1, <2>1
<1>6. \A e \in d : e[1] \in tasks' /\ e[2] \in tasks'
  BY <1>1
<1>7. deps' = {e \in Recorded' : e[1] \in tasks' /\ e[2] \in tasks'}
  BY <1>1, <1>4, <1>5, <1>6 DEF HistoryOK, DependencyHistoryReplays
<1> QED
  BY <1>3, <1>7 DEF HistoryOK, DependencyHistoryReplays

LEMMA InstantiateHistory ==
    ASSUME IInv, HistoryOK, Instantiate
    PROVE  HistoryOK'
<1>0. PICK s \in Template : \E f \in FreshIds(s.node) :
        \E p : AddRows({f[n] : n \in s.node}, p, {<<f[e[1]], f[e[2]]>> : e \in s.dep})
  BY DEF Instantiate
<1>1. PICK f \in FreshIds(s.node) :
        \E p : AddRows({f[n] : n \in s.node}, p, {<<f[e[1]], f[e[2]]>> : e \in s.dep})
  BY <1>0
<1> DEFINE N == {f[n] : n \in s.node}
           d == {<<f[e[1]], f[e[2]]>> : e \in s.dep}
<1>2. f \in [s.node -> Task \ used] /\ s.dep \subseteq s.node \X s.node
  BY TemplateAssumption DEF FreshIds
<1>3. N \in SUBSET (Task \ used) /\ d \in SUBSET (N \X N)
  BY <1>2
<1>4. PICK p : AddRows(N, p, d)
  BY <1>1
<1> HIDE DEF N, d
<1> QED
  BY <1>3, <1>4, AddRowsHistory

LEMMA CloneHistory ==
    ASSUME IInv, HistoryOK, NEW r \in Req, Clone(r)
    PROVE  HistoryOK'
<1> DEFINE snap == req[r].snap
           P == Places(r)
           mapped(t) == LastPlace(r, t, Len(req[r].ids) + 1)
           inner == {e \in deps : e[1] \in DOMAIN snap /\ e[2] \in DOMAIN snap}
<1>1. PICK f \in FreshIds(P) :
        \E p : AddRows({f[i] : i \in P}, p, {<<f[mapped(e[1])], f[mapped(e[2])]>> : e \in inner})
  BY DEF Clone
<1> DEFINE N == {f[i] : i \in P}
           d == {<<f[mapped(e[1])], f[mapped(e[2])]>> : e \in inner}
<1>2. f \in [P -> Task \ used] /\ CopyOK(r)
  BY DEF FreshIds, Clone, IInv, RequestsOK, RequestOK
<1>3. \A t \in DOMAIN snap : mapped(t) \in P
  BY <1>2, MappedOK
<1>4. PICK p : AddRows(N, p, d)
  BY <1>1
<1> HIDE DEF mapped, P
<1>5. N \in SUBSET (Task \ used) /\ d \in SUBSET (N \X N)
  BY <1>2, <1>3
<1> HIDE DEF N, d
<1> QED
  BY <1>4, <1>5, AddRowsHistory

LEMMA HistoryNext == IInv /\ HistoryOK /\ [Next]_vars => HistoryOK'
<1> SUFFICES ASSUME IInv, HistoryOK, [Next]_vars PROVE HistoryOK'
  OBVIOUS
<1>0. /\ tasks \subseteq used /\ used \subseteq Task /\ deps \subseteq tasks \X tasks
      /\ depLog \in [Task \X Task -> Entry]
  BY DEF IInv, TypeOK
<1>1. ASSUME UNCHANGED <<tasks, used, deps, depLog, born>> PROVE HistoryOK'
  BY <1>1 DEF HistoryOK, DependencyHistoryReplays, Recorded
<1>2. CASE CreateTask \/ CreateSubtask
  <2>1. PICK t, p : t \in Task \ used /\ AddRows({t}, p, {})
    BY <1>2 DEF CreateTask, CreateSubtask
  <2>2. {t} \in SUBSET (Task \ used) /\ {} \in SUBSET ({t} \X {t})
    BY <2>1
  <2> QED
    BY <2>1, <2>2, AddRowsHistory
<1>3. CASE DeleteTask
  <2>1. PICK t \in tasks : tasks' = tasks \ {t} /\ deps' = {e \in deps : e[1] # t /\ e[2] # t}
    BY <1>3 DEF DeleteTask
  <2>2. used' = used /\ depLog' = depLog /\ born' = born
    BY <1>3 DEF DeleteTask
  <2> QED
    BY <2>1, <2>2 DEF HistoryOK, DependencyHistoryReplays, Recorded
<1>4. CASE RemoveDependency
  <2>1. PICK e \in deps : deps' = deps \ {e} /\ depLog' = [depLog EXCEPT ![e] = "removed"]
    BY <1>4 DEF RemoveDependency
  <2>2. tasks' = tasks /\ used' = used /\ born' = born
    BY <1>4 DEF RemoveDependency
  <2>3. Recorded' = Recorded \ {e}
    BY <1>0, <2>1, <2>2 DEF Recorded
  <2> QED
    BY <1>0, <2>1, <2>2, <2>3 DEF HistoryOK, DependencyHistoryReplays
<1>5. ASSUME NEW r \in Req, WriteDependency(r) PROVE HistoryOK'
  <2> DEFINE e == <<req[r].a, req[r].b>>
  <2>1. /\ e \in tasks \X tasks /\ deps' = deps \cup {e}
        /\ depLog' = [depLog EXCEPT ![e] = "added"]
        /\ tasks' = tasks /\ used' = used /\ born' = born
    BY <1>5 DEF WriteDependency
  <2> HIDE DEF e
  <2>2. Recorded' = Recorded \cup {e}
    BY <1>0, <2>1 DEF Recorded
  <2> QED
    BY <1>0, <2>1, <2>2 DEF HistoryOK, DependencyHistoryReplays
<1>6. ASSUME NEW r \in Req,
             \/ StartSetParent(r) \/ StartAddDependency(r) \/ LockRelationships(r)
             \/ ReadCurrent(r) \/ Walk(r) \/ WriteParent(r) \/ Rollback(r)
             \/ StartClearParent(r) \/ ClearParent(r)
             \/ StartDuplicate(r) \/ CollectLevel(r) \/ ReadOriginals(r)
      PROVE UNCHANGED <<tasks, used, deps, depLog, born>>
  <2> DEFINE Still == UNCHANGED <<data, logs>>
  <2>0. Still => UNCHANGED <<tasks, used, deps, depLog, born>>
    BY DEF data, logs
  <2>1. \A op, x, y : Start(r, op, x, y) => Still
    BY Zenon DEF Start
  <2>2. StartSetParent(r) \/ StartAddDependency(r) => Still
    BY <2>1 DEF StartSetParent, StartAddDependency
  <2>3. LockRelationships(r) \/ ReadCurrent(r) \/ Walk(r) \/ Rollback(r) => Still
    BY Zenon DEF LockRelationships, ReadCurrent, Walk, Rollback
  <2>4. WriteParent(r) \/ ClearParent(r) => UNCHANGED <<tasks, used, deps, depLog, born>>
    BY Zenon DEF WriteParent, ClearParent
  <2>5. StartClearParent(r) \/ StartDuplicate(r) \/ CollectLevel(r) \/ ReadOriginals(r) => Still
    BY Zenon DEF StartClearParent, StartDuplicate, CollectLevel, ReadOriginals
  <2> HIDE DEF Still
  <2> QED
    BY <1>6, <2>0, <2>2, <2>3, <2>4, <2>5
<1> QED
  BY <1>1, <1>2, <1>3, <1>4, <1>5, <1>6, InstantiateHistory, CloneHistory DEF Next, vars

-----------------------------------------------------------------------------
(* The theorems.                                                           *)

LEMMA NextOK == IInv /\ [Next]_vars => IInv'
<1> SUFFICES ASSUME IInv, [Next]_vars PROVE IInv'
  OBVIOUS
<1>1. CASE UNCHANGED vars
  <2>1. TypeOK' /\ HierarchyAcyclic' /\ DependenciesAcyclic'
    BY <1>1 DEF IInv, TypeOK, HierarchyAcyclic, DependenciesAcyclic, vars
  <2>2. RequestsOK'
    BY <1>1, OtherRequest DEF IInv, RequestsOK, vars
  <2> QED
    BY <2>1, <2>2 DEF IInv
<1>2. CASE CreateTask \/ CreateSubtask
  BY <1>2, CreateStep
<1>3. CASE Instantiate
  BY <1>3, InstantiateStep
<1>4. CASE DeleteTask
  BY <1>4, DeleteStep
<1>5. CASE RemoveDependency
  BY <1>5, RemoveDependencyStep
<1>6. ASSUME NEW r \in Req,
             \/ StartSetParent(r) \/ StartAddDependency(r) \/ LockRelationships(r)
             \/ ReadCurrent(r) \/ Walk(r) \/ WriteParent(r) \/ WriteDependency(r)
             \/ Rollback(r)
      PROVE IInv'
  BY <1>6, StartStep, LockStep, ReadCurrentStep, WalkStep, WriteParentStep,
     WriteDependencyStep, RollbackStep
<1>7. ASSUME NEW r \in Req,
             \/ StartClearParent(r) \/ ClearParent(r)
             \/ StartDuplicate(r) \/ CollectLevel(r) \/ ReadOriginals(r) \/ Clone(r)
      PROVE IInv'
  BY <1>7, StartClearParentStep, ClearParentStep, StartDuplicateStep, CollectLevelStep,
     ReadOriginalsStep, CloneStep
<1> QED
  BY <1>1, <1>2, <1>3, <1>4, <1>5, <1>6, <1>7 DEF Next

\* The inductive invariant holds, for any number of tasks and requests.
THEOREM Invariance == Spec => []IInv
<1> QED
  BY InitOK, NextOK, PTL DEF Spec

\* Types, and no parent or dependency that names a task that is not there.
THEOREM TypeCorrect == Spec => []TypeOK
<1>1. IInv => TypeOK
  BY DEF IInv
<1> QED
  BY <1>1, Invariance, PTL

\* setParent, clearParent, createSubtask, duplicateTask, generateOccurrence and
\* deleteTask together never make a task its own ancestor.
THEOREM NoAncestryCycle == Spec => []HierarchyAcyclic
<1>1. IInv => HierarchyAcyclic
  BY DEF IInv
<1> QED
  BY <1>1, Invariance, PTL

\* addDependency, removeDependency, duplicateTask, generateOccurrence and
\* deleteTask together never make a task block itself.
THEOREM NoDependencyCycle == Spec => []DependenciesAcyclic
<1>1. IInv => DependenciesAcyclic
  BY DEF IInv
<1> QED
  BY <1>1, Invariance, PTL

\* The two together, for duplicateTask above all: its clones close no cycle, however old
\* its three readings are.
THEOREM NeitherGraphCyclic == Spec => []GraphsAcyclic
<1>1. HierarchyAcyclic /\ DependenciesAcyclic => GraphsAcyclic
  BY DEF GraphsAcyclic
<1> QED
  BY <1>1, NoAncestryCycle, NoDependencyCycle, PTL

\* addDependency, removeDependency, duplicateTask, generateOccurrence and deleteTask log
\* what they change and nothing else: the history of the tasks that exist replays to the
\* dependencies there are.
THEOREM DependencyHistory == Spec => []DependencyHistoryReplays
<1>1. Init => HistoryOK
  BY DEF Init, HistoryOK, DependencyHistoryReplays, Recorded
<1>2. HistoryOK => DependencyHistoryReplays
  BY DEF HistoryOK
<1> QED
  BY <1>1, <1>2, Invariance, HistoryNext, PTL DEF Spec
=============================================================================
