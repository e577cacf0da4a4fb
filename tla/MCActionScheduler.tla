------------------------- MODULE MCActionScheduler -------------------------
(***************************************************************************)
(* ActionScheduler for TLC: the action w writes a file that the commands a *)
(* and b read; l links what they make; the test t runs what a makes; the   *)
(* command d stands alone.                                                 *)
(***************************************************************************)
EXTENDS ActionScheduler, TLC

CONSTANTS w, a, b, l, t, d

MCMakers ==
    (w :> {}) @@ (a :> {w}) @@ (b :> {w}) @@ (l :> {a, b}) @@ (t :> {a}) @@ (d :> {})

(* The longest chain that starts at each. *)
MCRank == (w :> 3) @@ (a :> 2) @@ (b :> 2) @@ (l :> 1) @@ (t :> 1) @@ (d :> 1)
=============================================================================
