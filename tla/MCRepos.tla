---- MODULE MCRepos ----
(* The extension e, whose .bzl is in the module m, generates g, which reads m;   *)
(* p reads q, whose rule is in p, and one thread asks for it, or two.            *)
EXTENDS Repos
CONSTANTS t1, t2, t3, m, g, p, q, e
MCGenerator == [r \in Repositories |-> IF r = g /\ e \in Extensions THEN e ELSE None]
MCLoads == [j \in Jobs |-> CASE j = e -> {m} [] j = q -> {p} [] OTHER -> {}]
MCReads == [j \in Jobs |-> CASE j = g -> {m} [] j = p -> {q} [] OTHER -> {}]
MCAsks == [t \in Threads |-> CASE t = t1 -> {g, p} \cap Repositories [] t = t2 -> {m} [] OTHER -> {m, g}]
MCAsksBoth == [t \in Threads |-> IF t = t1 THEN {p} ELSE {q}]
MCValues == [r \in Repositories |-> IF r = m THEN {0, 1} ELSE {0}]
====
