---------------------------- MODULE MCDisposable ----------------------------
(* A VM and its windows, for TLC.                                           *)
EXTENDS Disposable

CONSTANTS works, opens, moves, clears, faults, slips

Works == 1..works

Bounds == [open |-> opens, move |-> moves, clear |-> clears, fault |-> faults,
           slip |-> slips]
=============================================================================
