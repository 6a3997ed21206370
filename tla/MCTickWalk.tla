----------------------------- MODULE MCTickWalk -----------------------------
(* Instances of TickWalk for TLC. *)
EXTENDS TickWalk, TLC

CONSTANTS a, b, c

Symmetry == Permutations(Threads)
=============================================================================
