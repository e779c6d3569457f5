-------------------------- MODULE MCExclusivesPass --------------------------
(* Small instances of ExclusivesPass.                                       *)
EXTENDS ExclusivesPass, TLC

CONSTANTS p1, p2, l1, l2, g1, g2, v1, v2

AllOps == {"skip", "fail", "expire", "crash", "edit", "delete", "recipe"}
=============================================================================
