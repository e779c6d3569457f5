------------------------ MODULE MCTaskRelationships ------------------------
(***************************************************************************)
(* Small instances of TaskRelationships for TLC.                           *)
(***************************************************************************)
EXTENDS TaskRelationships, TLC

\* A template of two nodes, the second a child of the first and blocked by it.
NoTemplate == {}
TwoNodeTemplate ==
    {[node |-> {"top", "sub"}, parent |-> ("top" :> None @@ "sub" :> "top"),
      dep |-> {<<"top", "sub">>}]}

\* On three nodes, AcyclicOn is "no node reaches itself".
ASSUME AcyclicMeansNoLoop ==
    LET S == {1, 2, 3}
        join(R) == R \cup {e \in S \X S :
                              \E y \in S : <<e[1], y>> \in R /\ <<y, e[2]>> \in R}
    IN \A E \in SUBSET (S \X S) :
          AcyclicOn(S, E) <=> \A x \in S : <<x, x>> \notin join(join(E))

GraphOps ==
    {"createTask", "createSubtask", "instantiate", "deleteTask", "removeDependency"}
Edits == [r \in Req |-> {"setParent", "clearParent", "addDependency", "duplicate"}]
ParentEdits == [r \in Req |-> {"setParent", "clearParent"}]

\* One request copies, all the others move what it copies.
CopyOps == {"instantiate", "createSubtask", "deleteTask"}
CopyAndMove ==
    LET copier == CHOOSE r \in Req : TRUE
    IN [r \in Req |-> IF r = copier THEN {"duplicate"} ELSE {"setParent", "clearParent"}]

\* States that differ only in what no action will read have the same successors: the
\* histories (of the entries on a dependency, what they amount to is kept), the old
\* parent a request keeps for them, and the sets of a walk or a collection that ended.
Local(q) ==
    [q EXCEPT !.was = None,
              !.seen = IF q.pc = "walk" THEN @ ELSE {},
              !.todo = IF q.pc \in {"walk", "collect"} THEN @ ELSE {}]
Unlogged == <<data, lock, [r \in Req |-> Local(req[r])]>>
UpToEntries == <<Unlogged, Recorded \cap (tasks \X tasks)>>

TaskSymmetry == Permutations(Task)
RequestSymmetry == Permutations(Req)
BothSymmetry == TaskSymmetry \cup RequestSymmetry
=============================================================================
