------------------------------ MODULE MCEngine ------------------------------
(***************************************************************************)
(* Engine for TLC, on three graphs over a leaf, which holds 0 or 1.        *)
(*                                                                         *)
(* Chain: m depends on a and does not let the change through; top depends  *)
(* on a and, while a holds 1, on m too, which it then asks for together    *)
(* with whatever of the two it has not read.                               *)
(*                                                                         *)
(* Loop: y depends on x; x depends on a and, while a holds 1, on y.        *)
(*                                                                         *)
(* Ring: x and y depend on each other; y reads the world and makes do with *)
(* an error, x hands on what y gives.                                      *)
(***************************************************************************)
EXTENDS Engine, TLC

CONSTANTS a, m, top, x, y

Val(v) == <<"ok", v>>

MCOutcomes == {Val(v) : v \in 0..3}

Holds(got, v) == a \in DOMAIN got /\ got[a] = Val(v)

ChainWants(k, got) ==
    IF k = a THEN {}
    ELSE IF k = top /\ Holds(got, 1) THEN {a, m} \cap Keys ELSE {a}

LoopWants(k, got) ==
    CASE k = a -> {}
      [] k = x -> IF Holds(got, 1) THEN {a, y} ELSE {a}
      [] k = y -> {x}

RingWants(k, got) == IF k = x THEN {y} ELSE {x}

(* A computation propagates an error of a dependency. *)
ErrorsOf(got) == {d \in DOMAIN got : got[d][1] = "err"}

ChainOutcome(k, got, w) ==
    IF ErrorsOf(got) # {} THEN got[CHOOSE d \in ErrorsOf(got) : TRUE]
    ELSE CASE k = a -> Val(w[a])
           [] k = m -> Val(2)
           [] k = top -> IF m \in DOMAIN got THEN got[m]
                         ELSE IF Holds(got, 1) THEN Val(1) ELSE Val(3)

LoopOutcome(k, got, w) ==
    IF ErrorsOf(got) # {} THEN got[CHOOSE d \in ErrorsOf(got) : TRUE]
    ELSE IF k = a THEN Val(w[a]) ELSE Val(2)

RingOutcome(k, got, w) ==
    IF k = y THEN Val(w[y]) ELSE IF y \in DOMAIN got THEN got[y] ELSE Val(3)

(* Sound although LookSpawn CHOOSEs a task: the free tasks it chooses among *)
(* are alike, so every choice leads to the same state up to renaming.       *)
EngineSymmetry == Permutations(Tasks) \cup Permutations(Clients)
=============================================================================
