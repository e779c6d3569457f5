--------------------------- MODULE MCGoalLifecycle ---------------------------
(* Small instances of GoalLifecycle: an employee, an administrator and a     *)
(* third person who may be the supervisor or not.                            *)
EXTENDS GoalLifecycle, TLC

CONSTANTS emma, ann, max, w1, w2, t1, t2

Symmetry == Permutations(Window) \cup Permutations(Terms)
=============================================================================
