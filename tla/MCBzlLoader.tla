---------------------------- MODULE MCBzlLoader ----------------------------
(* BzlLoader for TLC: p, q and r load each other in a ring, and r a leaf s; *)
(* or, without the ring, p loads q and r, r loads q, q loads s.             *)
EXTENDS BzlLoader, TLC

CONSTANTS p, q, r, s

RingLoads == (p :> <<q>>) @@ (q :> <<r>>) @@ (r :> <<s, p>>) @@ (s :> <<>>)
DagLoads == (p :> <<q, r>>) @@ (q :> <<s>>) @@ (r :> <<q>>) @@ (s :> <<>>)
=============================================================================
