-------------------------------- MODULE MCChat --------------------------------
(* A chat and its session, for TLC.                                         *)
EXTENDS Chat

CONSTANTS a, b, f, u, acts, takings, faults, replaces, slips

Bounds == [act |-> acts, take |-> takings, fault |-> faults, replace |-> replaces, slip |-> slips]
=============================================================================
