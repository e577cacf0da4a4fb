---- MODULE MCModuleGraph ----
(* The root r asks for b and c, which ask for each other; e asks for r.          *)
EXTENDS ModuleGraph
CONSTANTS b, c, e, r
K(n, v) == [name |-> n, version |-> v]
Plain == [deps |-> {}, nodeps |-> {}]
Some(ds, ns) == [deps : SUBSET ds, nodeps : SUBSET ns]
MCFileSets == {[k \in Modules |->
  CASE k = Root -> root [] k = K(b, 1) -> b1 [] k = K(b, 2) -> b2 [] k = K(c, 1) -> c1
    [] k = K(c, 2) -> c2 [] k = K(e, 2) -> [Plain EXCEPT !.deps = {K(r, 1)}] [] OTHER -> Plain] :
  root \in Some({K(b, 1), K(b, 2), K(c, 1)}, {K(c, 2), K(e, 1)}), b1 \in Some({K(c, 1), K(c, 2)}, {}),
  b2 \in Some({K(c, 1)}, {K(e, 1)}), c1 \in Some({K(b, 3)}, {}) \cup {None}, c2 \in Some({K(e, 2)}, {K(b, 1)})}
Free == [n \in Names |-> [kind |-> "none"]]
MCOverrideSets == {Free} \cup {[Free EXCEPT ![b] = o] : o \in
  {[kind |-> "path"], [kind |-> "pin", version |-> 1], [kind |-> "pin", version |-> 2], [kind |-> "multiple", versions |-> {1, 2}]}}
  \cup {[Free EXCEPT ![r] = [kind |-> "path"]]}
====
