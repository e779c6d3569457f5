------------------------- MODULE TaskRelationships -------------------------
(***************************************************************************)
(* The two graphs over tasks: the parent/child hierarchy (Task.parentId)   *)
(* and the dependencies (TaskDependency, blocker -> blocked), and every    *)
(* operation that writes one of them.                                      *)
(*                                                                         *)
(* One transaction of the code is one action for each statement another    *)
(* request can come between (READ COMMITTED: each statement sees what is   *)
(* committed when it runs); its writes become visible together, when it    *)
(* commits.  Setting a parent and adding a dependency take a global        *)
(* advisory lock before their check; the other operations do not.          *)
(***************************************************************************)
EXTENDS Naturals, Sequences, FiniteSets

CONSTANTS
    Task,       \* task ids; an id is never used twice (autoincrement)
    Req,        \* the requests being served at the same time
    Template,   \* what a template instantiates: [node, parent, dep]
    Ops,        \* the operations of one transaction a run offers
    Serves,     \* the operations of several statements each request may ask for
    None        \* the null parent, and the free lock

(***************************************************************************)
(* A graph on V is acyclic when every non-empty set of its nodes has one   *)
(* with no edge into the set.  For finitely many edges this is "no node    *)
(* reaches itself", without the recursion of a path.                       *)
(***************************************************************************)
AcyclicOn(V, E) ==
    \A S \in SUBSET V : S # {} => \E x \in S : \A y \in S : <<x, y>> \notin E

Acyclic(E) == AcyclicOn(Task, E)

\* The edges task -> parent of a parent function.
ParentEdges(p) == {<<t, p[t]>> : t \in {u \in DOMAIN p : p[u] # None}}

\* A template is validated when it is saved: every parent is one of its nodes,
\* and neither its hierarchy nor its dependencies have a cycle.
\* (Ids are 32-bit integers, so there are finitely many.)
ASSUME TaskAssumption == IsFiniteSet(Task)
ASSUME NoneAssumption ==
    /\ None \notin Task /\ None \notin Req
    /\ \A s \in Template : None \notin s.node
ASSUME TemplateAssumption ==
    \A s \in Template :
        /\ s.parent \in [s.node -> s.node \cup {None}]
        /\ s.dep \subseteq s.node \X s.node
        /\ AcyclicOn(s.node, ParentEdges(s.parent))
        /\ AcyclicOn(s.node, s.dep)

VARIABLES
    tasks,      \* the rows of Task
    used,       \* the ids ever given out
    parent,     \* Task.parentId (None for an id that is not a row)
    deps,       \* the rows of TaskDependency
    lock,       \* who holds the advisory lock RELATIONSHIP_LOCK_KEY
    req,        \* the requests
    parentLog,  \* per task, the parents its history says it has
    depLog,     \* per pair of tasks, the last entry their histories have on it
    born        \* history variable: the dependencies tasks were created with

data == <<tasks, used, parent, deps>>
logs == <<parentLog, depLog, born>>
vars == <<tasks, used, parent, deps, lock, req, parentLog, depLog, born>>

Idle == [op |-> "none", pc |-> "idle", a |-> None, b |-> None, was |-> None,
         seen |-> {}, todo |-> {}, ids |-> <<>>, snap |-> [t \in {} |-> None]]

\* The request r is served: its locals are gone, and its lock, if it has it.
Finish(r) ==
    /\ req' = [req EXCEPT ![r] = Idle]
    /\ lock' = IF lock = r THEN None ELSE lock

Goto(r, pc) == req' = [req EXCEPT ![r].pc = pc] /\ UNCHANGED lock

Init ==
    /\ tasks = {} /\ used = {} /\ deps = {} /\ lock = None
    /\ parent = [t \in Task |-> None]
    /\ req = [r \in Req |-> Idle]
    /\ parentLog = [t \in Task |-> {}]
    /\ depLog = [e \in Task \X Task |-> "none"]
    /\ born = {}

-----------------------------------------------------------------------------
(* Rows come and go.                                                       *)

\* New rows for the ids in N, attached by p, with dependencies d among them.
\* No history is written: a copy, and an occurrence, has none.
AddRows(N, p, d) ==
    /\ tasks' = tasks \cup N
    /\ used' = used \cup N
    /\ parent' = [t \in Task |-> IF t \in N THEN p[t] ELSE parent[t]]
    /\ deps' = deps \cup d
    /\ born' = born \cup d
    /\ UNCHANGED depLog

\* The ways to give each member of S an id of its own.
FreshIds(S) == {f \in [S -> Task \ used] : \A x, y \in S : f[x] = f[y] => x = y}

\* createTask: a task of its own.
CreateTask ==
    /\ "createTask" \in Ops
    /\ \E t \in Task \ used : AddRows({t}, [x \in {t} |-> None], {})
    /\ UNCHANGED <<lock, req, parentLog>>

\* createSubtask: created already attached, in one transaction, without the lock.
\* Its parent is logged "as when an existing task is given this parent".
CreateSubtask ==
    /\ "createSubtask" \in Ops
    /\ \E p \in tasks, t \in Task \ used :
          /\ AddRows({t}, [x \in {t} |-> p], {})
          /\ parentLog' = [parentLog EXCEPT ![t] = {p}]
    /\ UNCHANGED <<lock, req>>

\* generateOccurrence: a template's tree and dependencies, on new tasks.
Instantiate ==
    /\ "instantiate" \in Ops
    /\ \E s \in Template : \E f \in FreshIds(s.node) :
          LET new == {f[n] : n \in s.node}
              at(t) == CHOOSE n \in s.node : f[n] = t
          IN AddRows(new,
                     [t \in new |-> IF s.parent[at(t)] = None THEN None
                                    ELSE f[s.parent[at(t)]]],
                     {<<f[e[1]], f[e[2]]>> : e \in s.dep})
    /\ UNCHANGED <<lock, req, parentLog>>

\* deleteTask: children are detached (SetNull), its edges go with it (Cascade),
\* and so does its own history.
DeleteTask ==
    /\ "deleteTask" \in Ops
    /\ \E t \in tasks :
          /\ tasks' = tasks \ {t}
          /\ parent' = [u \in Task |-> IF u = t \/ parent[u] = t THEN None ELSE parent[u]]
          /\ deps' = {e \in deps : e[1] # t /\ e[2] # t}
          /\ parentLog' = [parentLog EXCEPT ![t] = {}]
    /\ UNCHANGED <<used, lock, req, depLog, born>>

-----------------------------------------------------------------------------
(* setParent and addDependency: lock, read, walk, write.  Both add an edge *)
(* a -> b to their graph unless the walk from b meets a.                   *)

Locking == {"setParent", "addDependency"}

Start(r, op, a, b) ==
    /\ op \in Serves[r]
    /\ req[r].pc = "idle"
    /\ req' = [req EXCEPT ![r] = [Idle EXCEPT !.op = op, !.pc = "lock",
                                              !.a = a, !.b = b]]
    /\ UNCHANGED <<data, lock, logs>>

\* The access checks passed; a is the task, b its new parent.
StartSetParent(r) ==
    \E t, p \in tasks : t # p /\ Start(r, "setParent", t, p)

\* The access checks passed and resolveEdge made a the blocker, b the blocked.
StartAddDependency(r) ==
    \E x, y \in tasks : x # y /\ Start(r, "addDependency", x, y)

\* Mutant of LockRelationships: pg_try_advisory_xact_lock, its result ignored.
LockRelationshipsNoWait(r) ==
    /\ req[r].pc = "lock"
    /\ lock' = IF lock = None THEN r ELSE lock
    /\ req' = [req EXCEPT ![r].pc = "read"]
    /\ UNCHANGED <<data, logs>>

\* pg_advisory_xact_lock: waits until no other transaction holds it.
LockRelationships(r) ==
    /\ req[r].pc = "lock" /\ lock = None
    /\ lock' = r
    /\ req' = [req EXCEPT ![r].pc = "read"]
    /\ UNCHANGED <<data, logs>>

\* The edge is there already: nothing to do.
HasEdge(r) == IF req[r].op = "setParent" THEN parent[req[r].a] = req[r].b
              ELSE <<req[r].a, req[r].b>> \in deps

\* The first statement under the lock reads the current parent, or the edge.
ReadCurrent(r) ==
    /\ req[r].pc = "read" /\ req[r].op \in Locking
    /\ IF HasEdge(r) THEN Finish(r)
       ELSE /\ req' = [req EXCEPT ![r].pc = "walk", ![r].todo = {req[r].b}, ![r].seen = {},
                   ![r].was = IF req[r].op = "setParent" THEN parent[req[r].a] ELSE None]
            /\ UNCHANGED lock
    /\ UNCHANGED <<data, logs>>

\* Where one statement of the walk leads from n: up to its parent, or along
\* the edges it blocks.
Successors(op, n) == IF op = "setParent" THEN {parent[n]} \ {None}
                     ELSE {m \in Task : <<n, m>> \in deps}

\* One turn of the loop of wouldCreateAncestryCycle or wouldCreateDependencyCycle.
\* The pending tasks are a set: the order they are taken in changes no outcome.
Walk(r) ==
    /\ req[r].pc = "walk"
    /\ IF req[r].todo = {} THEN Goto(r, "write")
       ELSE \E n \in req[r].todo :
            IF n = req[r].a THEN Finish(r)          \* a cycle: 400, rolled back
            ELSE /\ UNCHANGED lock
                 /\ req' = [req EXCEPT
                       ![r].todo = (@ \ {n}) \cup
                           (IF n \in req[r].seen THEN {} ELSE Successors(req[r].op, n)),
                       ![r].seen = @ \cup {n}]
    /\ UNCHANGED <<data, logs>>

\* The update and its history (a replaced parent reads remove-old + add-new),
\* and the commit.
WriteParent(r) ==
    LET a == req[r].a   b == req[r].b IN
    /\ req[r].pc = "write" /\ req[r].op = "setParent"
    /\ {a, b} \subseteq tasks
    /\ parent' = [parent EXCEPT ![a] = b]
    /\ parentLog' = [parentLog EXCEPT ![a] = (@ \ {req[r].was}) \cup {b}]
    /\ Finish(r)
    /\ UNCHANGED <<tasks, used, deps, depLog, born>>

WriteDependency(r) ==
    LET e == <<req[r].a, req[r].b>> IN
    /\ req[r].pc = "write" /\ req[r].op = "addDependency"
    /\ {req[r].a, req[r].b} \subseteq tasks
    /\ deps' = deps \cup {e}
    /\ depLog' = [depLog EXCEPT ![e] = "added"]
    /\ Finish(r)
    /\ UNCHANGED <<tasks, used, parent, parentLog, born>>

\* The transaction rolls back: a row the write refers to was deleted meanwhile
\* (foreign key, P2025), the transaction timed out, or the process died.
Rollback(r) ==
    /\ req[r].pc # "idle"
    /\ Finish(r)
    /\ UNCHANGED <<data, logs>>

-----------------------------------------------------------------------------
(* clearParent and removeDependency: no lock.                              *)

\* clearParent reads the current parent; no parent, nothing to clear.
StartClearParent(r) ==
    /\ "clearParent" \in Serves[r]
    /\ req[r].pc = "idle"
    /\ \E t \in tasks :
          /\ parent[t] # None
          /\ req' = [req EXCEPT ![r] = [Idle EXCEPT !.op = "clearParent", !.pc = "write",
                                                    !.a = t, !.was = parent[t]]]
    /\ UNCHANGED <<data, lock, logs>>

\* It then writes null whatever the parent is by now, and logs the one it read.
ClearParent(r) ==
    LET a == req[r].a IN
    /\ req[r].pc = "write" /\ req[r].op = "clearParent"
    /\ a \in tasks
    /\ parent' = [parent EXCEPT ![a] = None]
    /\ parentLog' = [parentLog EXCEPT ![a] = @ \ {req[r].was}]
    /\ Finish(r)
    /\ UNCHANGED <<tasks, used, deps, depLog, born>>

\* Mutant of RemoveDependency: the removal is not logged.
RemoveDependencyUnlogged ==
    /\ "removeDependency" \in Ops
    /\ \E e \in deps : deps' = deps \ {e}
    /\ UNCHANGED <<tasks, used, parent, lock, req, logs>>

\* removeDependency: one deleteMany, logged only when it removed the row.
RemoveDependency ==
    /\ "removeDependency" \in Ops
    /\ \E e \in deps :
          /\ deps' = deps \ {e}
          /\ depLog' = [depLog EXCEPT ![e] = "removed"]
    /\ UNCHANGED <<tasks, used, parent, lock, req, parentLog, born>>

-----------------------------------------------------------------------------
(* duplicateTask: collect the subtree, read it, clone it.                  *)

\* A bound of the runs: no request collects more tasks than there are ids to copy
\* them to.  (A tree that moves while it is collected can be collected for ever.)
Room(n) == n <= Cardinality(Task \ used)

StartDuplicate(r) ==
    /\ "duplicate" \in Serves[r]
    /\ Room(1)
    /\ req[r].pc = "idle"
    /\ \E t \in tasks, descendants \in BOOLEAN :
          req' = [req EXCEPT ![r] = [Idle EXCEPT
                    !.op = "duplicate", !.a = t, !.ids = <<t>>, !.todo = {t},
                    !.pc = IF descendants THEN "collect" ELSE "originals"]]
    /\ UNCHANGED <<data, lock, logs>>

Listings(S) == {s \in [1 .. Cardinality(S) -> S] : \A x \in S : \E i \in DOMAIN s : s[i] = x}

\* collectSubtreeIds: one level per statement.
CollectLevel(r) ==
    LET children == {t \in tasks : parent[t] \in req[r].todo} IN
    /\ req[r].pc = "collect"
    /\ Room(Len(req[r].ids) + Cardinality(children))
    /\ \E s \in Listings(children) :
          req' = [req EXCEPT ![r].ids = @ \o s, ![r].todo = children,
                             ![r].pc = IF children = {} THEN "originals" ELSE "collect"]
    /\ UNCHANGED <<data, lock, logs>>

\* The rows of the ids collected, read in one statement.
ReadOriginals(r) ==
    LET found == {t \in tasks : \E i \in DOMAIN req[r].ids : req[r].ids[i] = t} IN
    /\ req[r].pc = "originals"
    /\ req' = [req EXCEPT ![r].snap = [t \in found |-> parent[t]], ![r].pc = "clone",
                          ![r].todo = {}]
    /\ UNCHANGED <<data, lock, logs>>

\* The places of the collected ids whose row was found: each is cloned, in order.
Places(r) == {i \in DOMAIN req[r].ids : req[r].ids[i] \in DOMAIN req[r].snap}

\* The last place before i that holds t, 0 if there is none: where idMap.get(t)
\* points when place i is cloned.
LastPlace(r, t, i) ==
    LET js == {j \in Places(r) : j < i /\ req[r].ids[j] = t}
    IN IF js = {} THEN 0 ELSE CHOOSE j \in js : \A k \in js : k <= j

\* Mutant of CloneParent: looks up the task's own id instead of its parent's.
CloneParentOwnId(r, f, i) ==
    LET o == req[r].ids[i]
        p == req[r].snap[o]
    IN IF o = req[r].a THEN p ELSE IF p = None THEN None ELSE f[i]

\* The parent of the clone of place i: the root's copy is a sibling of the root;
\* the others go under the clone of their parent, if that is made already.
CloneParent(r, f, i) ==
    LET o == req[r].ids[i]
        p == req[r].snap[o]
        j == LastPlace(r, p, i)
    IN IF o = req[r].a THEN p
       ELSE IF p = None \/ j = 0 THEN None ELSE f[j]

\* Mutant of Clone: both ends of a copied dependency look up the blocker.
CloneBlockerTwice(r) ==
    LET end == Len(req[r].ids) + 1
        snap == req[r].snap
        mapped(t) == LastPlace(r, t, end)
    IN
    /\ req[r].pc = "clone"
    /\ req[r].a \in DOMAIN snap => snap[req[r].a] \in tasks \cup {None}
    /\ \E f \in FreshIds(Places(r)) :
          LET new == {f[i] : i \in Places(r)}
              at(t) == CHOOSE i \in Places(r) : f[i] = t
              inner == {e \in deps : e[1] \in DOMAIN snap /\ e[2] \in DOMAIN snap}
          IN AddRows(new, [t \in new |-> CloneParent(r, f, at(t))],
                     {<<f[mapped(e[1])], f[mapped(e[1])]>> : e \in inner})
    /\ UNCHANGED parentLog
    /\ Finish(r)

\* The transaction: the clones, then the dependencies between the originals.
Clone(r) ==
    LET end == Len(req[r].ids) + 1
        snap == req[r].snap
        mapped(t) == LastPlace(r, t, end)
    IN
    /\ req[r].pc = "clone"
    /\ req[r].a \in DOMAIN snap => snap[req[r].a] \in tasks \cup {None}
    /\ \E f \in FreshIds(Places(r)) :
          LET new == {f[i] : i \in Places(r)}
              at(t) == CHOOSE i \in Places(r) : f[i] = t
              inner == {e \in deps : e[1] \in DOMAIN snap /\ e[2] \in DOMAIN snap}
          IN AddRows(new, [t \in new |-> CloneParent(r, f, at(t))],
                     {<<f[mapped(e[1])], f[mapped(e[2])]>> : e \in inner})
    /\ UNCHANGED parentLog
    /\ Finish(r)

-----------------------------------------------------------------------------
Next ==
    \/ CreateTask \/ CreateSubtask \/ Instantiate \/ DeleteTask \/ RemoveDependency
    \/ \E r \in Req :
         \/ StartSetParent(r) \/ StartAddDependency(r) \/ LockRelationships(r)
         \/ ReadCurrent(r) \/ Walk(r) \/ WriteParent(r) \/ WriteDependency(r)
         \/ Rollback(r)
         \/ StartClearParent(r) \/ ClearParent(r)
         \/ StartDuplicate(r) \/ CollectLevel(r) \/ ReadOriginals(r) \/ Clone(r)

Spec == Init /\ [][Next]_vars

-----------------------------------------------------------------------------
\* Rows read in one statement: the parent of each task found.
Snapshot == UNION {[S -> Task \cup {None}] : S \in SUBSET Task}

Request ==
    [op : {"none", "clearParent", "duplicate"} \cup Locking,
     pc : {"idle", "lock", "read", "walk", "write", "collect", "originals", "clone"},
     a : Task \cup {None}, b : Task \cup {None}, was : Task \cup {None},
     seen : SUBSET Task, todo : SUBSET Task, ids : Seq(Task),
     snap : Snapshot]

\* What the last entry on a pair of tasks says.
Entry == {"none", "added", "removed"}

\* Types, and what the foreign keys keep: a parent or an edge names rows only.
TypeOK ==
    /\ tasks \in SUBSET used /\ used \in SUBSET Task
    /\ parent \in [Task -> tasks \cup {None}]
    /\ \A t \in Task \ tasks : parent[t] = None
    /\ deps \in SUBSET (tasks \X tasks)
    /\ lock \in Req \cup {None}
    /\ req \in [Req -> Request]
    /\ parentLog \in [Task -> SUBSET Task]
    /\ depLog \in [Task \X Task -> Entry]
    /\ born \in SUBSET (Task \X Task)

\* What a walk knows, whatever the requests without the lock do meanwhile: every
\* edge from a task it has seen leads to one it has seen or has still to see.
WalkOK(r) ==
    LET q == req[r] IN
    /\ q.a \notin q.seen
    /\ q.b \in q.seen \cup q.todo
    /\ q.seen \cup q.todo \subseteq used
    /\ \A n \in q.seen : Successors(q.op, n) \subseteq q.seen \cup q.todo

\* The rows a copy has read are collected tasks, and their parents a forest.
CopyOK(r) ==
    LET q == req[r] IN
    /\ \A t \in DOMAIN q.snap : \E i \in Places(r) : q.ids[i] = t
    /\ AcyclicOn(DOMAIN q.snap, ParentEdges(q.snap))

RequestOK(r) ==
    LET q == req[r]
        in(pcs) == q.op \in Locking /\ q.pc \in pcs
    IN
    /\ q.op \in Locking => q.pc \in {"lock", "read", "walk", "write"}
    /\ q.op \in Locking => q.a \in used /\ q.b \in used
    /\ q.op = "clearParent" => q.pc = "write" /\ q.a \in Task
    /\ q.op = "duplicate" => q.pc \in {"collect", "originals", "clone"} /\ q.a \in Task
    /\ q.op = "none" => q.pc = "idle"
    /\ in({"read", "walk", "write"}) => lock = r
    /\ in({"walk", "write"}) => WalkOK(r)
    /\ in({"write"}) => q.todo = {}
    /\ q.pc = "clone" => CopyOK(r)

\* The inductive strengthening: at most one request is between its lock and its
\* write, and what it and the copies have read is still good enough.
RequestsOK == \A r \in Req : RequestOK(r)

\* No task is its own ancestor, however the requests that set, clear and clone
\* parents interleave: the check of wouldCreateAncestryCycle still holds when
\* setParent writes, although clearParent and the others take no lock.
HierarchyAcyclic == Acyclic(ParentEdges(parent))

\* No task waits for itself to complete: the same for addDependency, with
\* removeDependency, deletes and new task trees going on during its walk.
DependenciesAcyclic == Acyclic(deps)

\* Both, for a tree that is copied while it moves: duplicateTask reads ids, rows and
\* dependencies in three statements, and every clone's parent, blocker and blocked task
\* is looked up among the clones.
GraphsAcyclic == HierarchyAcyclic /\ DependenciesAcyclic

\* The dependencies by the last entries, and where there is none, by birth.
Recorded ==
    {e \in Task \X Task : depLog[e] = "added" \/ (depLog[e] = "none" /\ e \in born)}

\* The history of the tasks that exist tells which dependencies there are: the
\* last entry on a pair says how it stands, for an add or a removal is logged
\* exactly when it changed the graph.  A pair without an entry has a dependency
\* only if it was created with one: duplicateTask and generateOccurrence copy
\* dependencies and write no history, so of those no task tells before one of
\* them is removed.
DependencyHistoryReplays ==
    deps = {e \in Recorded : e[1] \in tasks /\ e[2] \in tasks}

\* The history of a task tells its parent ("each relationship add/remove is a
\* discrete auditable event"), as far as the parents it names still exist.  It is
\* said of tasks made on their own or as subtasks: a copy has no history.
ParentHistoryReplays ==
    \A t \in tasks : parentLog[t] \cap tasks = {parent[t]} \ {None}

=============================================================================
