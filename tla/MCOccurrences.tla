--------------------------- MODULE MCOccurrences ---------------------------
(* Small instances of Occurrences: one or two series of two or three        *)
(* occurrences, and the processes and users that race for them.             *)
EXTENDS Occurrences, TLC

CONSTANTS t1, s1, i1, i2, c1

Symmetry == Permutations(Pass)
AllOps == {"click", "complete", "reopen", "delete", "rule", "crash", "fail"}
DueOps == {"click", "complete", "delete", "crash", "fail"}
=============================================================================
