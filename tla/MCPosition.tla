----------------------------- MODULE MCPosition -----------------------------
(* Where two sides of two branches stand, for TLC.                          *)
EXTENDS Position, TLC

CONSTANTS ids, acts, faults

Ids == 1..ids

Bounds == [act |-> acts, fault |-> faults]

Branches == Permutations(Branch)
=============================================================================
