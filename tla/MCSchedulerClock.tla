-------------------------- MODULE MCSchedulerClock --------------------------
(* Small instances of SchedulerClock: one time unit stands for the shortest *)
(* sleep, and the ceiling, the cooldown and the threshold keep their order. *)
EXTENDS SchedulerClock, TLC

CONSTANTS g1, g2, b1, b2

Symmetry == Permutations(Item)
BeatSymmetry == Permutations(Beat)
=============================================================================
