------------------------------ MODULE MCSlots ------------------------------
(* Slots for TLC: four callers, two of them of one rank. *)
EXTENDS Slots, TLC

CONSTANTS p1, p2, p3, p4

MCRank == (p1 :> 1) @@ (p2 :> 2) @@ (p3 :> 2) @@ (p4 :> 3)
=============================================================================
