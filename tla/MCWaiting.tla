----------------------------- MODULE MCWaiting -----------------------------
(* Scenarios for the waiting room runs.                                     *)
EXTENDS WaitingRoom, TLC

CONSTANTS p1, p2, p3

Come(a, b, c) == (p1 :> a) @@ (p2 :> b) @@ (p3 :> c)

RoomScenarios == { Come("booked", "panel", "self") }
Couple == { (p1 :> "booked") @@ (p2 :> "panel") }
MCOps == OpNames
(* Everything but what clears the marks of a notice or skips the emit.      *)
QuietOps == OpNames \ (Clearing \cup {"meCancel"})
=============================================================================
