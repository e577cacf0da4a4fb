------------------------- MODULE EngineFreshProofs -------------------------
(***************************************************************************)
(* That Engine::get returns what computing everything anew would, for      *)
(* every graph without cycles, every number of clients and tasks and every *)
(* interleaving of their requests, with cancellation and aborts at any     *)
(* time, if the world changes only while nothing is in flight and no       *)
(* computation panics.                                                     *)
(*                                                                         *)
(* The argument: an evaluation that is not marked dirty is explained by    *)
(* what its dependencies gave when it was made.  A dependency whose        *)
(* changed_at is still the one seen gives the same now, so if none changed *)
(* the evaluation is the value; and up to the first that changed, what is  *)
(* verified are keys that the value depends on, so that no wait is refused *)
(* as a cycle.                                                             *)
(***************************************************************************)
EXTENDS EngineProofs, WellFoundedInduction, FiniteSetTheorems

(* In every world every key has a value: no computation depends on itself. *)
Acyclic == \A w \in [Leaves -> Values] : DOMAIN ScratchIn(w) = Keys

(* The evaluation of each key that its node holds, or that the computation  *)
(* it is running began from and the node would go back to.                  *)
LatestOf(n, T) ==
    IF n.st = "done" THEN n.ev ELSE IF n.st = "running" THEN T[n.task].previous ELSE None
Latest(N, T) == [k \in Keys |-> LatestOf(N[k], T)]

(* The keys whose evaluation may be of an earlier world: it is marked so,   *)
(* or the computation that the node is running found it marked.             *)
Marked(N, T, D) ==
    {k \in Keys : D[k] \/ (N[k].st = "running" /\ T[N[k].task].dirty)}

(* The keys that dependencies name, and those that come before the i-th. *)
DepSet(deps) == {deps[i].dep : i \in DOMAIN deps}
Before(deps, i) == {deps[j].dep : j \in {j \in DOMAIN deps : j < i}}

(* A computation of k that found got asked for these dependencies, each     *)
(* because of those before it, and then for nothing else.                   *)
Asked(k, deps, got) ==
    \A i \in DOMAIN deps : deps[i].dep \in Wants(k, Only(got, Before(deps, i)))
Complete(k, deps, got) ==
    Asked(k, deps, got) /\ Wants(k, Only(got, DepSet(deps))) \subseteq DepSet(deps)

(* What there is of k is of version v. *)
Current(M, v, k) == M[k] # None /\ M[k].verified_at = v

(* The dependency e is still as it was seen, and known to be at version v. *)
Agrees(M, v, e) == Current(M, v, e.dep) /\ M[e.dep].changed_at = e.seen
AllAgree(M, v, deps) == \A i \in DOMAIN deps : Agrees(M, v, deps[i])

(* What there is of the dependency e is not older than what was seen, which *)
(* was o if it is the same.                                                 *)
Seen(M, e, o) ==
    /\ M[e.dep] # None /\ e.seen <= M[e.dep].changed_at
    /\ M[e.dep].changed_at = e.seen => M[e.dep].outcome = o

(* ev is what k gives in world w if its dependencies gave got. *)
ExplainedBy(M, w, k, ev, got) ==
    /\ Complete(k, ev.deps, got) /\ ev.outcome = Outcome(k, got, w)
    /\ \A i \in DOMAIN ev.deps : Seen(M, ev.deps[i], got[ev.deps[i].dep])

Explained(M, w, k, ev) ==
    \E got \in [DepSet(ev.deps) -> AnyOutcome] : ExplainedBy(M, w, k, ev, got)

(* What was verified at version v is the value of k in world w. *)
UpNow(M, v, w, k) ==
    Current(M, v, k) => M[k].outcome = ScratchIn(w)[k] /\ AllAgree(M, v, M[k].deps)

Kept(M, Z, v, w) ==
    \A k \in Keys : M[k] # None =>
        UpNow(M, v, w, k) /\ (k \notin Z => Explained(M, w, k, M[k]))

(* An evaluation of k at version v is good for whoever asks at v. *)
GoodResult(M, v, w, k, res) ==
    /\ res.is = "ok" /\ Current(M, v, k)
    /\ res.ev.changed_at = M[k].changed_at /\ res.ev.outcome = ScratchIn(w)[k]

(* When a computation of k at version v in world w, which began from p,     *)
(* will say that the value changed; it began from the latest evaluation,    *)
(* or another has made one at this version which says the same.             *)
ChangedFrom(p, v, w, k) ==
    IF p # None /\ p.outcome = ScratchIn(w)[k] THEN p.changed_at ELSE v
FromLatest(M, v, w, k, p) ==
    IF Current(M, v, k) THEN ChangedFrom(p, v, w, k) = M[k].changed_at ELSE p = M[k]

(* A computation is on its way to the value of its key. *)
TaskRight(M, v, w, X) ==
    /\ X.pc \in Active =>
          /\ FromLatest(M, v, w, X.key, X.previous)
          /\ X.previous # None /\ ~X.dirty => Explained(M, w, X.key, X.previous)
    /\ X.pc = "verify" =>
          /\ ~X.dirty /\ X.got = NoneGot /\ X.deps = <<>>
          /\ \A i \in DOMAIN X.previous.deps : i < X.at => Agrees(M, v, X.previous.deps[i])
    /\ X.pc = "compute" =>
          /\ X.got = Only(ScratchIn(w), DepSet(X.deps))
          /\ Asked(X.key, X.deps, ScratchIn(w)) /\ AllAgree(M, v, X.deps)
    /\ X.pc = "write" =>
          /\ X.outcome = ScratchIn(w)[X.key]
          /\ Complete(X.key, X.deps, ScratchIn(w)) /\ AllAgree(M, v, X.deps)
    /\ X.pc = "done" => X.abort # "no" \/ GoodResult(M, v, w, X.key, X.result)

(* It asks for d, which it will depend on. *)
PendingRight(w, X, d) ==
    /\ d \in Wants(X.key, ScratchIn(w)) /\ X.pc # "write"
    /\ X.pc = "verify" => X.at \in DOMAIN X.previous.deps /\ d = X.previous.deps[X.at].dep
    /\ X.pc = "compute" => d \in Wants(X.key, X.got)

(* Nobody awaits a computation that was aborted, and an answer is good. *)
RequestRight(M, v, w, T, k, q) ==
    /\ q.mode = "await" => T[q.task].abort = "no"
    /\ q.mode = "drop" => q.result = Nothing \/ GoodResult(M, v, w, k, q.result)

FlightRight(M, R, T, v, w) ==
    /\ \A t \in Tasks : T[t].pc # "free" => TaskRight(M, v, w, T[t])
    /\ \A t \in Tasks, d \in Keys :
          T[t].pc # "free" /\ R[t][d].mode # "none" => PendingRight(w, T[t], d)
    /\ \A r \in Requesters, k \in Keys : RequestRight(M, v, w, T, k, R[r][k])

Right(N, R, T, D, v, w) ==
    /\ Kept(Latest(N, T), Marked(N, T, D), v, w)
    /\ FlightRight(Latest(N, T), R, T, v, w)

(* A node that holds something, or that is asked for, is in the graph. *)
Known(N, R, S) ==
    /\ \A k \in Keys : N[k].st # "empty" => k \in S
    /\ \A r \in Requesters, k \in Keys : R[r][k].mode # "none" => k \in S

(* A computation is of a key that is in the graph. *)
TasksKnown(T, S) == \A t \in Tasks : T[t].pc # "free" => T[t].key \in S

(* While a change is announced the version to come counts. *)
AnnouncedVersion == IF inv.pc = "changed" THEN version + 1 ELSE version
AnnouncedKeys == IF inv = Still THEN {} ELSE {inv.key}

(* A client that was answered was given the value of its key. *)
ClientsRight ==
    \A c \in Clients : client[c].pc = "got" => client[c].value = ScratchIn(world)[client[c].key]

FreshInv ==
    /\ QuietInv
    /\ Known(node, req, nodes) /\ TasksKnown(task, nodes)
    /\ inv.pc = "bumped" => (inv.found <=> inv.key \in nodes)
    /\ Kept(Latest(node, task), Marked(node, task, dirty) \cup AnnouncedKeys,
            AnnouncedVersion, world)
    /\ FlightRight(Latest(node, task), req, task, version, world)
    /\ ClientsRight

-----------------------------------------------------------------------------
(* What a computation reads *)

(* f is a part of g. *)
PartOf(f, g) == DOMAIN f \subseteq DOMAIN g /\ \A x \in DOMAIN f : f[x] = g[x]

(* Part of what was read was read. *)
LEMMA OnlyType ==
    ASSUME NEW g \in Gots
    PROVE  /\ DOMAIN g \in SUBSET Keys
           /\ \A x \in DOMAIN g : g[x] \in AnyOutcome
           /\ \A S \in SUBSET DOMAIN g : /\ Only(g, S) \in Gots /\ DOMAIN Only(g, S) = S
                                         /\ \A x \in S : Only(g, S)[x] = g[x]
<1>1. PICK D \in SUBSET Keys : g \in [D -> AnyOutcome]
    BY DEF Gots
<1>2. ASSUME NEW S \in SUBSET DOMAIN g
      PROVE  Only(g, S) \in [S -> AnyOutcome] /\ S \in SUBSET Keys
    BY <1>1 DEF Only
<1>3. ASSUME NEW S \in SUBSET DOMAIN g PROVE Only(g, S) \in Gots
    BY <1>2 DEF Gots
<1> QED
    BY <1>1, <1>3 DEF Only

(* A part is what it is a part of, on its own keys. *)
LEMMA PartIsOnly ==
    ASSUME NEW f \in Gots, NEW g \in Gots, PartOf(f, g)
    PROVE  f = Only(g, DOMAIN f)
<1>1. PICK D \in SUBSET Keys : f \in [D -> AnyOutcome]
    BY DEF Gots
<1> QED
    BY <1>1 DEF Only, PartOf

(* Having read more, a computation wants no less; what wanted nothing it    *)
(* had not read wants the same.                                             *)
LEMMA WantsGrow ==
    ASSUME NEW f \in Gots, NEW g \in Gots, PartOf(f, g), NEW k \in Keys
    PROVE  /\ Wants(k, f) \subseteq Wants(k, g) /\ Wants(k, g) \subseteq Keys
           /\ Wants(k, f) \subseteq DOMAIN f => Wants(k, g) = Wants(k, f)
<1> DEFINE W == Wants(k, f)
<1>1. f = Only(g, DOMAIN f) /\ DOMAIN f \subseteq DOMAIN g
    BY PartIsOnly DEF PartOf
<1>2. W \subseteq Wants(k, g) /\ Wants(k, g) \subseteq Keys
    BY <1>1, ComputeAssumption
<1>3. ASSUME W \subseteq DOMAIN f PROVE Wants(k, g) \subseteq W
    <2>1. Wants(k, Only(f, W)) \subseteq W
        BY <1>3, ComputeAssumption
    <2>2. Only(f, W) = Only(g, W)
        BY <1>3 DEF Only, PartOf
    <2>3. W \subseteq DOMAIN g
        BY <1>1, <1>3
    <2> HIDE DEF W
    <2> QED
        BY <2>1, <2>2, <2>3, ComputeAssumption
<1> QED
    BY <1>2, <1>3

-----------------------------------------------------------------------------
(* Computing everything anew *)

(* What a round knows are outcomes. *)
LEMMA RoundType ==
    ASSUME NEW f \in Gots, NEW w \in [Leaves -> Values]
    PROVE  NextRound(f, w) \in Gots
<1> DEFINE D == {k \in Keys : Wants(k, f) \subseteq DOMAIN f}
<1>1. ASSUME NEW k \in D PROVE Outcome(k, Only(f, Wants(k, f)), w) \in AnyOutcome
    BY OnlyType, EngineAssumption
<1>2. NextRound(f, w) \in [D -> AnyOutcome]
    BY <1>1 DEF NextRound
<1>3. D \in SUBSET Keys
    OBVIOUS
<1> HIDE DEF D
<1> QED
    BY <1>2, <1>3 DEF Gots

(* Who knows more knows more a round later. *)
LEMMA RoundGrows ==
    ASSUME NEW f \in Gots, NEW g \in Gots, PartOf(f, g), NEW w \in [Leaves -> Values]
    PROVE  PartOf(NextRound(f, w), NextRound(g, w))
<1>1. ASSUME NEW k \in Keys, Wants(k, f) \subseteq DOMAIN f
      PROVE  /\ Wants(k, g) \subseteq DOMAIN g
             /\ Only(f, Wants(k, f)) = Only(g, Wants(k, g))
    <2>1. Wants(k, g) = Wants(k, f)
        BY <1>1, WantsGrow
    <2> QED
        BY <1>1, <2>1 DEF PartOf, Only
<1> QED
    BY <1>1 DEF NextRound, PartOf

(* The order of the naturals has no endless descent, so a set of them has   *)
(* a least member.                                                          *)
NatBelow == {p \in Nat \X Nat : p[1] < p[2]}

LEMMA LeastNumber ==
    ASSUME NEW S \in SUBSET Nat, S # {}
    PROVE  \E m \in S : \A n \in S : m <= n
<1>1. IsWellFoundedOn({p \in Nat \X Nat : p[1] < p[2]}, Nat)
    BY NatLessThanWellFounded DEF OpToRel
<1>2. IsWellFoundedOn(NatBelow, Nat)
    BY <1>1, Zenon DEF NatBelow
<1>3. PICK m \in S : \A n \in S : ~ (<<n, m>> \in NatBelow)
    BY <1>2, WFMin
<1>4. \A n \in S : ~(n < m)
    BY <1>3 DEF NatBelow
<1> QED
    BY <1>4

(* The rounds up to the m-th. *)
RoundsTo(f, m, w) ==
    f = [n \in 0..m |-> IF n = 0 THEN NoneGot ELSE NextRound(f[n - 1], w)]

LEMMA RoundsToExist ==
    ASSUME NEW m \in Nat, NEW w
    PROVE  \E f : RoundsTo(f, m, w)
<1> DEFINE B == {n \in Nat : ~ \E f : RoundsTo(f, n, w)}
<1> SUFFICES ASSUME m \in B PROVE FALSE
    OBVIOUS
<1>1. PICK n \in B : \A j \in B : n <= j
    <2>1. B \in SUBSET Nat /\ B # {}
        OBVIOUS
    <2> HIDE DEF B
    <2> QED
        BY <2>1, LeastNumber
<1>2. n \in Nat
    OBVIOUS
<1>3. CASE n = 0
    <2> DEFINE f == [j \in 0..0 |-> NoneGot]
    <2>1. RoundsTo(f, 0, w)
        BY DEF RoundsTo
    <2> QED
        BY <1>1, <1>3, <2>1
<1>4. CASE n # 0
    <2>1. n - 1 \in Nat /\ n - 1 \notin B
        BY <1>1, <1>2, <1>4
    <2>2. PICK f : RoundsTo(f, n - 1, w)
        BY <2>1
    <2> DEFINE g == [j \in 0..n |-> IF j = n THEN NextRound(f[n - 1], w) ELSE f[j]]
    <2>3. \A j \in 0..n : g[j] = IF j = 0 THEN NoneGot ELSE NextRound(g[j - 1], w)
        <3>1. ASSUME NEW j \in 0..n PROVE j \in 0..(n - 1) \/ j = n
            BY <1>2
        <3>2. \A j \in 0..(n - 1) : f[j] = IF j = 0 THEN NoneGot ELSE NextRound(f[j - 1], w)
            BY <2>2 DEF RoundsTo
        <3>3. \A j \in 0..(n - 1) : g[j] = f[j] /\ j # n
            BY <1>2
        <3>4. g[n] = NextRound(f[n - 1], w) /\ g[n - 1] = f[n - 1]
            BY <1>2, <2>1
        <3>5. \A j \in 0..(n - 1) : j # 0 => j - 1 \in 0..(n - 1)
            BY <1>2
        <3> HIDE DEF g
        <3> QED
            BY <1>4, <3>1, <3>2, <3>3, <3>4, <3>5
    <2>4. RoundsTo(g, n, w)
        BY <2>3 DEF RoundsTo
    <2> HIDE DEF g
    <2> QED
        BY <1>1, <2>4
<1> QED
    BY <1>3, <1>4

(* How many rounds there are, and how each comes from the one before. *)
LEMMA RoundsAre ==
    ASSUME NEW w
    PROVE  /\ Cardinality(Keys) \in Nat
           /\ DOMAIN Rounds(w) = 0..Cardinality(Keys) /\ Rounds(w)[0] = NoneGot
           /\ \A n \in 1..Cardinality(Keys) : Rounds(w)[n] = NextRound(Rounds(w)[n - 1], w)
<1> DEFINE C == Cardinality(Keys)
           F == Rounds(w)
<1>1. C \in Nat
    BY FS_CardinalityType, ComputeAssumption
<1>2. \E f : RoundsTo(f, C, w)
    BY <1>1, RoundsToExist
<1>3. F = CHOOSE f : f = [n \in 0..C |-> IF n = 0 THEN NoneGot ELSE NextRound(f[n - 1], w)]
    BY DEF Rounds
<1>4. F = [n \in 0..C |-> IF n = 0 THEN NoneGot ELSE NextRound(F[n - 1], w)]
    BY <1>2, <1>3, Zenon DEF RoundsTo
<1> HIDE DEF F, C
<1>5. DOMAIN F = 0..C /\ \A n \in 0..C : F[n] = IF n = 0 THEN NoneGot ELSE NextRound(F[n - 1], w)
    BY <1>4
<1>6. 0 \in 0..C /\ \A n \in 1..C : n \in 0..C /\ n # 0
    BY <1>1
<1> QED
    BY <1>1, <1>5, <1>6 DEF F, C

(* Every round knows what the rounds before it knew. *)
LEMMA RoundsGrow ==
    ASSUME NEW w \in [Leaves -> Values]
    PROVE  /\ \A n \in 0..Cardinality(Keys) : Rounds(w)[n] \in Gots
           /\ \A n \in 1..Cardinality(Keys) : PartOf(Rounds(w)[n - 1], Rounds(w)[n])
           /\ \A n \in 0..Cardinality(Keys) : PartOf(Rounds(w)[n], ScratchIn(w))
<1> DEFINE C == Cardinality(Keys)
           F == Rounds(w)
<1>0. /\ C \in Nat /\ F[0] = NoneGot /\ F[C] = ScratchIn(w)
      /\ \A n \in 1..C : F[n] = NextRound(F[n - 1], w)
    BY RoundsAre DEF ScratchIn
<1> HIDE DEF F, C
<1>1. \A n \in 0..C : F[n] \in Gots
    <2> DEFINE B == {n \in Nat : n <= C /\ F[n] \notin Gots}
    <2> SUFFICES ASSUME B # {} PROVE FALSE
        BY <1>0
    <2>1. PICK n \in B : \A j \in B : n <= j
        <3> HIDE DEF B
        <3>1. B \in SUBSET Nat
            BY DEF B
        <3> QED
            BY <3>1, LeastNumber
    <2>2. n # 0
        BY <1>0, <2>1, NoneGotType
    <2>3. n \in 1..C /\ n - 1 \in Nat /\ n - 1 <= C /\ ~(n <= n - 1)
        BY <1>0, <2>1, <2>2
    <2>4. F[n - 1] \in Gots
        BY <2>1, <2>3
    <2> QED
        BY <1>0, <2>1, <2>3, <2>4, RoundType
<1>2. \A n \in 1..C : PartOf(F[n - 1], F[n])
    <2> DEFINE B == {n \in Nat : n \in 1..C /\ ~PartOf(F[n - 1], F[n])}
    <2> SUFFICES ASSUME B # {} PROVE FALSE
        <3>1. \A n \in 1..C : n \in Nat
            BY <1>0
        <3> QED
            BY <3>1, Zenon
    <2>1. PICK n \in B : \A j \in B : n <= j
        <3> HIDE DEF B
        <3>1. B \in SUBSET Nat
            BY DEF B
        <3> QED
            BY <3>1, LeastNumber
    <2>2. n \in 1..C
        BY <2>1
    <2>3. CASE n = 1
        <3>1. n - 1 = 0 /\ DOMAIN F[0] = {}
            BY <1>0, <2>3 DEF NoneGot
        <3> QED
            BY <2>1, <3>1 DEF PartOf
    <2>4. CASE n # 1
        <3>1. n - 1 \in 1..C /\ ~(n <= n - 1) /\ n - 1 \in 0..C /\ n - 2 \in 0..C
            BY <1>0, <2>2, <2>4
        <3>2. PartOf(F[(n - 1) - 1], F[n - 1])
            BY <2>1, <3>1
        <3>3. (n - 1) - 1 \in 0..C
            BY <1>0, <2>2, <2>4
        <3>4. F[n] = NextRound(F[n - 1], w) /\ F[n - 1] = NextRound(F[(n - 1) - 1], w)
            BY <1>0, <2>2, <3>1
        <3>5. PartOf(NextRound(F[(n - 1) - 1], w), NextRound(F[n - 1], w))
            BY <1>1, <3>1, <3>2, <3>3, RoundGrows
        <3> QED
            BY <2>1, <3>4, <3>5
    <2> QED
        BY <2>3, <2>4
<1>3. \A n \in 0..C : PartOf(F[n], F[C])
    <2> DEFINE B == {j \in Nat : j <= C /\ ~PartOf(F[C - j], F[C])}
    <2> SUFFICES ASSUME B # {} PROVE FALSE
        <3>1. ASSUME NEW n \in 0..C PROVE C - n \in Nat /\ C - n <= C /\ C - (C - n) = n
            BY <1>0
        <3> QED
            BY <3>1
    <2>1. PICK j \in B : \A i \in B : j <= i
        <3> HIDE DEF B
        <3>1. B \in SUBSET Nat
            BY DEF B
        <3> QED
            BY <3>1, LeastNumber
    <2>2. j \in Nat /\ j <= C
        BY <2>1
    <2>3. CASE j = 0
        <3>1. C - j = C
            BY <1>0, <2>3
        <3> QED
            BY <2>1, <3>1 DEF PartOf
    <2>4. CASE j # 0
        <3>1. j - 1 \in Nat /\ j - 1 <= C /\ ~(j <= j - 1)
            BY <1>0, <2>2, <2>4
        <3>2. PartOf(F[C - (j - 1)], F[C])
            BY <2>1, <3>1
        <3>3. C - (j - 1) \in 1..C /\ (C - (j - 1)) - 1 = C - j
            BY <1>0, <2>2, <2>4
        <3>4. PartOf(F[C - j], F[C - (j - 1)])
            BY <1>2, <3>3
        <3> QED
            BY <2>1, <3>2, <3>4 DEF PartOf
    <2> QED
        BY <2>3, <2>4
<1> QED
    BY <1>0, <1>1, <1>2, <1>3 DEF F, C

(* Where nothing is cyclic every key has a value, which its computation     *)
(* gives from the values of the keys it wants; and those, with all that     *)
(* they want, do not include it.                                            *)
LEMMA ValuesAre ==
    ASSUME Acyclic, NEW w \in [Leaves -> Values]
    PROVE  /\ ScratchIn(w) \in [Keys -> AnyOutcome] /\ ScratchIn(w) \in Gots
           /\ \A k \in Keys :
                 /\ Wants(k, ScratchIn(w)) \subseteq Keys
                 /\ ScratchIn(w)[k] = Outcome(k, Only(ScratchIn(w), Wants(k, ScratchIn(w))), w)
                 /\ \E S \in SUBSET Keys :
                       /\ k \notin S /\ Wants(k, ScratchIn(w)) \subseteq S
                       /\ \A j \in S : Wants(j, ScratchIn(w)) \subseteq S
<1> DEFINE C == Cardinality(Keys)
           F == Rounds(w)
           val == ScratchIn(w)
<1>0. /\ C \in Nat /\ F[0] = NoneGot /\ F[C] = val
      /\ \A n \in 1..C : F[n] = NextRound(F[n - 1], w)
    BY RoundsAre DEF ScratchIn
<1>1. /\ \A n \in 0..C : F[n] \in Gots /\ PartOf(F[n], val)
      /\ \A n \in 1..C : PartOf(F[n - 1], F[n])
    BY RoundsGrow
<1>2. DOMAIN val = Keys
    BY DEF Acyclic
<1> HIDE DEF F, C, val
<1>3. val \in Gots /\ val \in [Keys -> AnyOutcome]
    <2>1. val \in Gots
        BY <1>0, <1>1
    <2>2. PICK D \in SUBSET Keys : val \in [D -> AnyOutcome]
        BY <2>1 DEF Gots
    <2> QED
        BY <1>2, <2>1, <2>2
<1>4. ASSUME NEW k \in Keys
      PROVE  /\ Wants(k, val) \subseteq Keys
             /\ val[k] = Outcome(k, Only(val, Wants(k, val)), w)
             /\ \E S \in SUBSET Keys : /\ k \notin S /\ Wants(k, val) \subseteq S
                                       /\ \A j \in S : Wants(j, val) \subseteq S
    <2> DEFINE B == {n \in Nat : n <= C /\ k \in DOMAIN F[n]}
    <2>1. PICK n \in B : \A j \in B : n <= j
        <3>1. C \in B
            BY <1>0, <1>2
        <3>2. B \in SUBSET Nat
            OBVIOUS
        <3> HIDE DEF B
        <3> QED
            BY <3>1, <3>2, LeastNumber
    <2>2. n # 0
        BY <1>0, <2>1 DEF NoneGot
    <2>3. /\ n \in 1..C /\ n \in 0..C /\ n - 1 \in 0..C /\ n - 1 \in Nat /\ n - 1 <= C
          /\ ~(n <= n - 1)
        BY <1>0, <2>1, <2>2
    <2> DEFINE g == F[n - 1]
    <2>4. k \notin DOMAIN g /\ k \in DOMAIN F[n]
        BY <2>1, <2>3
    <2>5. g \in Gots /\ PartOf(g, val) /\ PartOf(g, F[n]) /\ F[n] = NextRound(g, w)
        BY <1>0, <1>1, <2>3
    <2>6. PartOf(F[n], val)
        BY <1>1, <2>3
    <2> HIDE DEF g, B
    <2>7. ASSUME NEW j \in DOMAIN F[n]
          PROVE  /\ j \in Keys /\ Wants(j, g) \subseteq DOMAIN g /\ Wants(j, val) = Wants(j, g)
                 /\ F[n][j] = Outcome(j, Only(g, Wants(j, g)), w)
        <3>1. /\ j \in Keys /\ Wants(j, g) \subseteq DOMAIN g
              /\ F[n][j] = Outcome(j, Only(g, Wants(j, g)), w)
            BY <2>5, <2>7 DEF NextRound
        <3> QED
            BY <1>3, <2>5, <3>1, WantsGrow
    <2>8. Only(g, Wants(k, g)) = Only(val, Wants(k, val))
        BY <2>4, <2>5, <2>7 DEF PartOf, Only
    <2>9. val[k] = F[n][k]
        BY <2>4, <2>6 DEF PartOf
    <2>10. DOMAIN g \in SUBSET Keys /\ \A j \in DOMAIN g : Wants(j, val) \subseteq DOMAIN g
        BY <2>5, <2>7, OnlyType DEF PartOf
    <2>11. Wants(k, val) \subseteq DOMAIN g
        BY <2>4, <2>7
    <2> QED
        BY <2>4, <2>7, <2>8, <2>9, <2>10, <2>11
<1> QED
    BY <1>3, <1>4 DEF val

-----------------------------------------------------------------------------
(* Dependencies *)

(* The keys of dependencies are keys. *)
LEMMA DepKeys ==
    ASSUME NEW deps \in Deps
    PROVE  /\ DOMAIN deps = 1..Len(deps) /\ Len(deps) \in Nat
           /\ \A i \in DOMAIN deps : /\ deps[i] \in [dep : Keys, seen : Versions]
                                     /\ deps[i].dep \in Keys /\ deps[i].seen \in Nat
           /\ DepSet(deps) \in SUBSET Keys
           /\ \A i : Before(deps, i) \in SUBSET DepSet(deps)
<1>1. DOMAIN deps = 1..Len(deps) /\ Len(deps) \in Nat
    BY DEF Deps
<1>2. \A i \in DOMAIN deps : deps[i] \in [dep : Keys, seen : Versions]
    BY <1>1, ElementType DEF Deps
<1>3. \A i \in DOMAIN deps : deps[i].dep \in Keys /\ deps[i].seen \in Nat
    BY <1>2 DEF Versions
<1> QED
    BY <1>1, <1>2, <1>3 DEF DepSet, Before

(* Only of Only. *)
LEMMA OnlyTwice ==
    ASSUME NEW g, NEW S, NEW U \in SUBSET S
    PROVE  Only(Only(g, S), U) = Only(g, U)
    BY DEF Only

(* What was wanted of part of the values is wanted. *)
LEMMA PartlyWanted ==
    ASSUME Acyclic, NEW w \in [Leaves -> Values], NEW k \in Keys, NEW S \in SUBSET Keys
    PROVE  /\ Only(ScratchIn(w), S) \in Gots /\ DOMAIN Only(ScratchIn(w), S) = S
           /\ PartOf(Only(ScratchIn(w), S), ScratchIn(w))
           /\ Wants(k, Only(ScratchIn(w), S)) \subseteq Wants(k, ScratchIn(w))
           /\ Wants(k, Only(ScratchIn(w), S)) \subseteq S =>
                 Wants(k, ScratchIn(w)) \subseteq S
<1>1. ScratchIn(w) \in Gots /\ DOMAIN ScratchIn(w) = Keys
    BY ValuesAre
<1> QED
    BY <1>1, OnlyType, ComputeAssumption DEF PartOf

(* A computation that asked for its dependencies and for nothing else gives *)
(* the value of its key.                                                    *)
LEMMA CompleteValue ==
    ASSUME Acyclic, NEW w \in [Leaves -> Values], NEW k \in Keys, NEW deps \in Deps,
           Complete(k, deps, ScratchIn(w))
    PROVE  /\ DepSet(deps) = Wants(k, ScratchIn(w))
           /\ Outcome(k, Only(ScratchIn(w), DepSet(deps)), w) = ScratchIn(w)[k]
<1>1. DepSet(deps) \in SUBSET Keys /\ \A i : Before(deps, i) \in SUBSET Keys
    BY DepKeys
<1>2. Wants(k, ScratchIn(w)) \subseteq DepSet(deps)
    BY <1>1, PartlyWanted DEF Complete
<1>3. \A i \in DOMAIN deps : deps[i].dep \in Wants(k, ScratchIn(w))
    BY <1>1, PartlyWanted DEF Complete, Asked
<1>4. DepSet(deps) = Wants(k, ScratchIn(w))
    BY <1>2, <1>3 DEF DepSet
<1> QED
    BY <1>4, ValuesAre

(* wait_on refuses no key that a computation really wants. *)
LEMMA NoRefusal ==
    ASSUME Acyclic, NEW w \in [Leaves -> Values], NEW k \in Keys,
           NEW d \in Wants(k, ScratchIn(w)),
           \A j, e \in Keys : WaitsOn(j, e) => e \in Wants(j, ScratchIn(w))
    PROVE  ~Reaches(d, k)
<1>1. PICK S \in SUBSET Keys : /\ k \notin S /\ Wants(k, ScratchIn(w)) \subseteq S
                               /\ \A j \in S : Wants(j, ScratchIn(w)) \subseteq S
    BY ValuesAre
<1>2. d \in S /\ \A j \in S, e \in Keys : WaitsOn(j, e) => e \in S
    BY <1>1
<1> QED
    BY <1>1, <1>2 DEF Reaches

-----------------------------------------------------------------------------
(* Later evaluations *)

Evaluations == [Keys -> Evaluated \cup {None}]

(* Each key has an evaluation that is no older, and the same one if it was  *)
(* of version v already.                                                    *)
Later(M, M2, v) ==
    \A k \in Keys : M[k] # None =>
        /\ M2[k] # None /\ M[k].changed_at <= M2[k].changed_at
        /\ M2[k].changed_at = M[k].changed_at => M2[k].outcome = M[k].outcome
        /\ M[k].verified_at = v =>
              M2[k].verified_at = v /\ M2[k].changed_at = M[k].changed_at

(* What there is, is an evaluation. *)
LEMMA EvaluationForms ==
    ASSUME NEW ev \in Evaluated
    PROVE  /\ ev # None /\ ev.changed_at \in Nat /\ ev.verified_at \in Nat
           /\ ev.deps \in Deps /\ ev.outcome \in AnyOutcome
    BY NoneAssumption DEF Evaluated, Versions

(* A dependency that is as it was seen stays so. *)
LEMMA LaterAgrees ==
    ASSUME NEW M, NEW M2, NEW v, Later(M, M2, v)
    PROVE  /\ \A k \in Keys : Current(M, v, k) => Current(M2, v, k)
           /\ \A e \in [dep : Keys, seen : Versions] : Agrees(M, v, e) => Agrees(M2, v, e)
           /\ \A deps \in Deps : AllAgree(M, v, deps) => AllAgree(M2, v, deps)
<1>1. \A k \in Keys : Current(M, v, k) => Current(M2, v, k)
    BY DEF Later, Current
<1>2. \A e \in [dep : Keys, seen : Versions] : Agrees(M, v, e) => Agrees(M2, v, e)
    BY DEF Later, Current, Agrees
<1> QED
    BY <1>1, <1>2, DepKeys DEF AllAgree

(* What explains an evaluation goes on explaining it. *)
LEMMA LaterExplained ==
    ASSUME NEW M \in Evaluations, NEW M2 \in Evaluations, NEW v, Later(M, M2, v),
           NEW w, NEW k, NEW ev \in Evaluated, Explained(M, w, k, ev)
    PROVE  Explained(M2, w, k, ev)
<1>1. PICK got \in [DepSet(ev.deps) -> AnyOutcome] : ExplainedBy(M, w, k, ev, got)
    BY DEF Explained
<1>2. ASSUME NEW i \in DOMAIN ev.deps
      PROVE  Seen(M2, ev.deps[i], got[ev.deps[i].dep])
    <2> DEFINE e == ev.deps[i]
    <2>1. e.dep \in Keys /\ e.seen \in Nat
        BY DepKeys, EvaluationForms
    <2>2. Seen(M, e, got[e.dep])
        BY <1>1 DEF ExplainedBy
    <2> HIDE DEF e
    <2>3. M[e.dep] # None /\ M2[e.dep] # None
        BY <2>1, <2>2 DEF Seen, Later
    <2>4. M[e.dep].changed_at \in Nat /\ M2[e.dep].changed_at \in Nat
        BY <2>1, <2>3, EvaluationForms DEF Evaluations
    <2>5. Seen(M2, e, got[e.dep])
        BY <2>1, <2>2, <2>3, <2>4 DEF Seen, Later
    <2> QED
        BY <2>5 DEF e
<1>3. ExplainedBy(M2, w, k, ev, got)
    BY <1>1, <1>2 DEF ExplainedBy
<1> QED
    BY <1>3 DEF Explained

(* A good result stays good. *)
LEMMA LaterGood ==
    ASSUME NEW M, NEW M2, NEW v, Later(M, M2, v), NEW w, NEW k \in Keys, NEW res,
           GoodResult(M, v, w, k, res)
    PROVE  GoodResult(M2, v, w, k, res)
    BY DEF Later, GoodResult, Current

(* A computation stays on its way. *)
LEMMA LaterTask ==
    ASSUME NEW M \in Evaluations, NEW M2 \in Evaluations, NEW v, Later(M, M2, v), NEW w,
           NEW X \in TaskRecord, TaskRight(M, v, w, X), X.pc = "verify" => X.previous # None,
           X.pc \in Active => FromLatest(M2, v, w, X.key, X.previous)
    PROVE  TaskRight(M2, v, w, X)
<1>0. X.key \in Keys /\ X.deps \in Deps /\ X.previous \in Evaluated \cup {None}
    BY DEF TaskRecord
<1>1. X.pc \in Active /\ X.previous # None /\ ~X.dirty => Explained(M2, w, X.key, X.previous)
    BY <1>0, LaterExplained DEF TaskRight
<1>2. ASSUME X.pc = "verify", NEW i \in DOMAIN X.previous.deps, i < X.at
      PROVE  Agrees(M2, v, X.previous.deps[i])
    <2>1. X.previous.deps[i] \in [dep : Keys, seen : Versions]
        BY <1>0, <1>2, EvaluationForms, DepKeys
    <2> QED
        BY <1>2, <2>1, LaterAgrees DEF TaskRight
<1>3. AllAgree(M, v, X.deps) => AllAgree(M2, v, X.deps)
    BY <1>0, LaterAgrees
<1>4. GoodResult(M, v, w, X.key, X.result) => GoodResult(M2, v, w, X.key, X.result)
    BY <1>0, LaterGood
<1> QED
    BY <1>1, <1>2, <1>3, <1>4 DEF TaskRight

(* Who keeps evaluations with fewer marks keeps them with more. *)
LEMMA KeptMore ==
    ASSUME NEW M, NEW Z, NEW Y, NEW v, NEW w, Kept(M, Z, v, w), Z \subseteq Y
    PROVE  Kept(M, Y, v, w)
    BY DEF Kept

(* None is of a version to come. *)
NoneLater(M, v) ==
    \A k \in Keys : M[k] # None =>
        M[k].changed_at <= M[k].verified_at /\ M[k].verified_at <= v

(* A computation of k at version v that began from p makes ev. *)
Makes(M, v, w, k, p, ev) ==
    /\ ev.verified_at = v /\ ev.outcome = ScratchIn(w)[k]
    /\ Complete(k, ev.deps, ScratchIn(w)) /\ AllAgree(M, v, ev.deps)
    /\ FromLatest(M, v, w, k, p) /\ ev.changed_at = ChangedFrom(p, v, w, k)

(* The evaluation it makes is later than what there was. *)
LEMMA MadeLater ==
    ASSUME NEW M \in Evaluations, NEW v \in Nat, NEW w, NEW Z, Kept(M, Z, v, w),
           NoneLater(M, v), NEW k \in Keys, NEW p, NEW ev \in Evaluated,
           Makes(M, v, w, k, p, ev)
    PROVE  /\ Later(M, [M EXCEPT ![k] = ev], v)
           /\ \A q : FromLatest(M, v, w, k, q) =>
                 FromLatest([M EXCEPT ![k] = ev], v, w, k, q)
<1> DEFINE M2 == [M EXCEPT ![k] = ev]
<1>1. M2[k] = ev /\ \A j \in Keys \ {k} : M2[j] = M[j]
    BY DEF Evaluations
<1>2. ev # None /\ ev.changed_at \in Nat
    BY EvaluationForms
<1>3. \A j \in Keys : M[j] # None => M[j].changed_at \in Nat /\ M[j].verified_at \in Nat
    BY EvaluationForms DEF Evaluations
<1> HIDE DEF M2
<1>4. CASE Current(M, v, k)
    <2>1. M[k].outcome = ev.outcome /\ M[k].changed_at = ev.changed_at /\ ev.verified_at = v
        BY <1>4 DEF Makes, FromLatest, Kept, UpNow, Current
    <2>2. Later(M, M2, v)
        BY <1>1, <1>2, <1>3, <2>1 DEF Later
    <2>3. \A q : FromLatest(M, v, w, k, q) => FromLatest(M2, v, w, k, q)
        BY <1>1, <1>2, <1>4, <2>1 DEF FromLatest, Current
    <2> QED
        BY <2>2, <2>3 DEF M2
<1>5. CASE ~Current(M, v, k)
    <2>1. p = M[k] /\ ev.verified_at = v /\ ev.outcome = ScratchIn(w)[k]
          /\ ev.changed_at = ChangedFrom(M[k], v, w, k)
        BY <1>5 DEF Makes, FromLatest
    <2>2. ASSUME M[k] # None
          PROVE  /\ M[k].changed_at <= ev.changed_at /\ M[k].verified_at # v
                 /\ ev.changed_at = M[k].changed_at => ev.outcome = M[k].outcome
        <3>1. M[k].verified_at # v /\ M[k].changed_at <= M[k].verified_at
              /\ M[k].verified_at <= v
            BY <1>5, <2>2 DEF Current, NoneLater
        <3>2. M[k].changed_at < v
            BY <1>3, <2>2, <3>1
        <3> QED
            BY <1>3, <2>1, <2>2, <3>1, <3>2 DEF ChangedFrom
    <2>3. Later(M, M2, v)
        BY <1>1, <1>2, <1>3, <2>2 DEF Later
    <2>4. \A q : FromLatest(M, v, w, k, q) => FromLatest(M2, v, w, k, q)
        BY <1>1, <1>2, <1>5, <2>1 DEF FromLatest, Current
    <2> QED
        BY <2>3, <2>4 DEF M2
<1> QED
    BY <1>4, <1>5

(* ... and is the value of its key, for the reasons there are. *)
LEMMA MadeKept ==
    ASSUME Acyclic, NEW w \in [Leaves -> Values],
           NEW M \in Evaluations, NEW v \in Nat, NEW Z, Kept(M, Z, v, w),
           NoneLater(M, v), NEW k \in Keys, NEW p, NEW ev \in Evaluated,
           Makes(M, v, w, k, p, ev)
    PROVE  /\ Kept([M EXCEPT ![k] = ev], Z \ {k}, v, w)
           /\ GoodResult([M EXCEPT ![k] = ev], v, w, k, Good(ev))
<1> DEFINE M2 == [M EXCEPT ![k] = ev]
           val == ScratchIn(w)
<1>1. M2[k] = ev /\ (\A j \in Keys \ {k} : M2[j] = M[j]) /\ M2 \in Evaluations
    BY DEF Evaluations
<1>2. ev # None /\ ev.changed_at \in Nat /\ ev.deps \in Deps
    BY EvaluationForms
<1>3. Later(M, M2, v)
    BY MadeLater
<1> HIDE DEF M2
<1>4. ASSUME NEW j \in Keys, M2[j] # None PROVE UpNow(M2, v, w, j)
    <2>1. CASE j = k
        BY <1>1, <1>2, <1>3, <2>1, LaterAgrees DEF UpNow, Makes
    <2>2. CASE j # k
        <3>1. M2[j] = M[j] /\ M[j] \in Evaluated
            BY <1>1, <1>4, <2>2 DEF Evaluations
        <3>2. M[j].deps \in Deps
            BY <3>1, EvaluationForms
        <3> QED
            BY <1>3, <1>4, <3>1, <3>2, LaterAgrees DEF Kept, UpNow, Current
    <2> QED
        BY <2>1, <2>2
<1>5. Explained(M2, w, k, ev)
    <2> DEFINE got == Only(val, DepSet(ev.deps))
    <2>1. DepSet(ev.deps) \in SUBSET Keys /\ \A i : Before(ev.deps, i) \in SUBSET DepSet(ev.deps)
        BY <1>2, DepKeys
    <2>2. val \in [Keys -> AnyOutcome]
        BY ValuesAre
    <2>3. got \in [DepSet(ev.deps) -> AnyOutcome]
        BY <2>1, <2>2 DEF Only
    <2>4. Complete(k, ev.deps, val)
        BY DEF Makes
    <2>5. Complete(k, ev.deps, got)
        <3>1. \A i \in DOMAIN ev.deps : Only(got, Before(ev.deps, i)) = Only(val, Before(ev.deps, i))
            BY <2>1, OnlyTwice
        <3>2. Only(got, DepSet(ev.deps)) = got
            BY OnlyTwice
        <3> HIDE DEF got
        <3> QED
            BY <2>4, <3>1, <3>2 DEF Complete, Asked, got
    <2>6. ev.outcome = Outcome(k, got, w)
        BY <1>2, <2>4, CompleteValue DEF Makes
    <2>7. ASSUME NEW i \in DOMAIN ev.deps
          PROVE  Seen(M2, ev.deps[i], got[ev.deps[i].dep])
        <3> DEFINE e == ev.deps[i]
        <3>1. e.dep \in Keys /\ e.dep \in DepSet(ev.deps) /\ e.seen \in Nat
            BY <1>2, DepKeys DEF DepSet
        <3>2. AllAgree(M2, v, ev.deps)
            BY <1>2, <1>3, LaterAgrees DEF Makes
        <3>3. Agrees(M2, v, e)
            BY <3>2 DEF AllAgree
        <3>4. M2[e.dep].outcome = val[e.dep] /\ M2[e.dep] # None /\ M2[e.dep].changed_at = e.seen
            BY <1>4, <3>1, <3>3 DEF Agrees, Current, UpNow
        <3>5. got[e.dep] = val[e.dep]
            BY <3>1 DEF Only
        <3> HIDE DEF e, got
        <3>6. Seen(M2, e, got[e.dep])
            BY <3>1, <3>4, <3>5 DEF Seen
        <3> QED
            BY <3>6 DEF e
    <2> HIDE DEF got
    <2>8. ExplainedBy(M2, w, k, ev, got)
        BY <2>5, <2>6, <2>7 DEF ExplainedBy
    <2> QED
        BY <2>3, <2>8 DEF Explained
<1>6. ASSUME NEW j \in Keys, M2[j] # None, j \notin Z \ {k} PROVE Explained(M2, w, j, M2[j])
    <2>1. CASE j = k
        BY <1>1, <1>5, <2>1
    <2>2. CASE j # k
        <3>1. M2[j] = M[j] /\ M[j] \in Evaluated /\ Explained(M, w, j, M[j])
            BY <1>1, <1>6, <2>2 DEF Evaluations, Kept
        <3> QED
            BY <1>1, <1>3, <3>1, LaterExplained
    <2> QED
        BY <2>1, <2>2
<1>7. Kept(M2, Z \ {k}, v, w)
    BY <1>4, <1>6 DEF Kept
<1>8. GoodResult(M2, v, w, k, Good(ev))
    BY <1>1, <1>2 DEF GoodResult, Good, Current, Makes
<1> QED
    BY <1>7, <1>8 DEF M2

-----------------------------------------------------------------------------
(* A computation on its way *)

(* Dependencies that are as they were seen have the values that were seen. *)
LEMMA SeenValues ==
    ASSUME NEW w, NEW M, NEW Z, NEW v, Kept(M, Z, v, w),
           NEW k, NEW ev \in Evaluated, NEW got, ExplainedBy(M, w, k, ev, got),
           NEW i \in DOMAIN ev.deps, Agrees(M, v, ev.deps[i])
    PROVE  got[ev.deps[i].dep] = ScratchIn(w)[ev.deps[i].dep]
<1> DEFINE e == ev.deps[i]
<1>1. e.dep \in Keys
    BY DepKeys, EvaluationForms
<1>2. Seen(M, e, got[e.dep]) /\ Agrees(M, v, e)
    BY DEF ExplainedBy
<1> HIDE DEF e
<1>3. M[e.dep].outcome = got[e.dep] /\ M[e.dep].outcome = ScratchIn(w)[e.dep]
    BY <1>1, <1>2 DEF Seen, Agrees, Current, Kept, UpNow
<1> QED
    BY <1>3 DEF e

(* A dependency that is about to be verified is one the computation would   *)
(* ask for, and there is something of it.                                   *)
LEMMA NextIsWanted ==
    ASSUME Acyclic, NEW w \in [Leaves -> Values], NEW M, NEW Z, NEW v, Kept(M, Z, v, w),
           NEW k \in Keys, NEW ev \in Evaluated, Explained(M, w, k, ev),
           NEW n \in DOMAIN ev.deps, \A i \in DOMAIN ev.deps : i < n => Agrees(M, v, ev.deps[i])
    PROVE  ev.deps[n].dep \in Wants(k, ScratchIn(w)) /\ M[ev.deps[n].dep] # None
           /\ ev.deps[n].seen <= M[ev.deps[n].dep].changed_at
<1>1. PICK got \in [DepSet(ev.deps) -> AnyOutcome] : ExplainedBy(M, w, k, ev, got)
    BY DEF Explained
<1>2. Before(ev.deps, n) \in SUBSET Keys
    BY DepKeys, EvaluationForms
<1>3. \A d \in Before(ev.deps, n) : got[d] = ScratchIn(w)[d]
    <2>1. \A i \in DOMAIN ev.deps :
             i < n => got[ev.deps[i].dep] = ScratchIn(w)[ev.deps[i].dep]
        BY <1>1, SeenValues
    <2> QED
        BY <2>1 DEF Before
<1>4. Only(got, Before(ev.deps, n)) = Only(ScratchIn(w), Before(ev.deps, n))
    BY <1>3 DEF Only
<1>5. ev.deps[n].dep \in Wants(k, Only(got, Before(ev.deps, n)))
    BY <1>1 DEF ExplainedBy, Complete, Asked
<1>6. Seen(M, ev.deps[n], got[ev.deps[n].dep])
    BY <1>1 DEF ExplainedBy
<1> QED
    BY <1>2, <1>4, <1>5, <1>6, PartlyWanted DEF Seen

(* If none of the dependencies changed, neither did the value. *)
LEMMA NoneChanged ==
    ASSUME Acyclic, NEW w \in [Leaves -> Values], NEW M, NEW Z, NEW v, Kept(M, Z, v, w),
           NEW k \in Keys, NEW ev \in Evaluated, Explained(M, w, k, ev),
           AllAgree(M, v, ev.deps)
    PROVE  ev.outcome = ScratchIn(w)[k] /\ Complete(k, ev.deps, ScratchIn(w))
<1>1. PICK got \in [DepSet(ev.deps) -> AnyOutcome] : ExplainedBy(M, w, k, ev, got)
    BY DEF Explained
<1>2. ev.deps \in Deps
    BY EvaluationForms
<1>3. \A d \in DepSet(ev.deps) : got[d] = ScratchIn(w)[d]
    <2>1. \A i \in DOMAIN ev.deps : got[ev.deps[i].dep] = ScratchIn(w)[ev.deps[i].dep]
        BY <1>1, SeenValues DEF AllAgree
    <2> QED
        BY <2>1 DEF DepSet
<1>4. \A S \in SUBSET DepSet(ev.deps) : Only(got, S) = Only(ScratchIn(w), S)
    BY <1>3 DEF Only
<1>5. got = Only(ScratchIn(w), DepSet(ev.deps))
    BY <1>3 DEF Only
<1>6. \A i : Before(ev.deps, i) \in SUBSET DepSet(ev.deps)
    BY <1>2, DepKeys
<1>7. Complete(k, ev.deps, ScratchIn(w))
    BY <1>1, <1>4, <1>6 DEF ExplainedBy, Complete, Asked
<1> QED
    BY <1>1, <1>2, <1>5, <1>7, CompleteValue DEF ExplainedBy

(* A dependency is recorded after the others. *)
LEMMA AppendedDep ==
    ASSUME NEW deps \in Deps, NEW e \in [dep : Keys, seen : Versions]
    PROVE  /\ Append(deps, e) \in Deps /\ DepSet(Append(deps, e)) = DepSet(deps) \cup {e.dep}
           /\ DOMAIN Append(deps, e) = DOMAIN deps \cup {Len(deps) + 1}
           /\ Append(deps, e)[Len(deps) + 1] = e
           /\ Before(Append(deps, e), Len(deps) + 1) = DepSet(deps)
           /\ \A i \in DOMAIN deps : /\ Append(deps, e)[i] = deps[i]
                                     /\ Before(Append(deps, e), i) = Before(deps, i)
<1> DEFINE ds == Append(deps, e)
           n == Len(deps)
<1>0. deps \in Seq([dep : Keys, seen : Versions])
    BY DEF Deps
<1>1. n \in Nat /\ DOMAIN deps = 1..n /\ DOMAIN ds = 1..(n + 1) /\ ds \in Deps
    BY <1>0 DEF Deps
<1>2. ds[n + 1] = e /\ \A i \in 1..n : ds[i] = deps[i]
    BY <1>0
<1> HIDE DEF ds, n
<1>3. 1..(n + 1) = 1..n \cup {n + 1}
    BY <1>1
<1>4. DepSet(ds) = DepSet(deps) \cup {e.dep}
    BY <1>1, <1>2, <1>3 DEF DepSet
<1>5. {j \in 1..(n + 1) : j < n + 1} = 1..n
    BY <1>1
<1>6. Before(ds, n + 1) = DepSet(deps)
    BY <1>1, <1>2, <1>5 DEF Before, DepSet
<1>7. ASSUME NEW i \in 1..n PROVE Before(ds, i) = Before(deps, i)
    <2>1. {j \in 1..(n + 1) : j < i} = {j \in 1..n : j < i}
        BY <1>1
    <2> QED
        BY <1>1, <1>2, <2>1 DEF Before
<1> QED
    BY <1>1, <1>2, <1>3, <1>4, <1>6, <1>7 DEF ds, n

(* A computation that has read nothing is on its way. *)
LEMMA NothingRead ==
    ASSUME NEW M, NEW v, NEW w, NEW k
    PROVE  /\ NoneGot = Only(ScratchIn(w), DepSet(<<>>))
           /\ Asked(k, <<>>, ScratchIn(w)) /\ AllAgree(M, v, <<>>)
<1>1. DOMAIN <<>> = {}
    OBVIOUS
<1> QED
    BY <1>1 DEF NoneGot, Only, DepSet, Asked, AllAgree

(* A good answer keeps verify and compute on their way. *)
LEMMA ResumedRight ==
    ASSUME Acyclic, NEW w \in [Leaves -> Values], NEW M \in Evaluations, NEW Z,
           NEW v \in Nat, Kept(M, Z, v, w),
           NEW X \in TaskRecord, X.pc = "verify" => X.previous # None,
           TaskRight(M, v, w, X), NEW d \in Keys, PendingRight(w, X, d),
           NEW res \in Results, GoodResult(M, v, w, d, res)
    PROVE  /\ TaskRight(M, v, w, Resumed(X, d, res))
           /\ \A e \in Keys : e # d /\ PendingRight(w, X, e) =>
                 PendingRight(w, Resumed(X, d, res), e)
<1> DEFINE Y == Resumed(X, d, res)
           val == ScratchIn(w)
<1>0. /\ X.key \in Keys /\ X.previous \in Evaluated \cup {None} /\ X.at \in Nat \ {0}
      /\ X.got \in Gots /\ X.deps \in Deps /\ X.pc \in {"verify", "compute", "write", "done"}
    BY DEF TaskRecord, Active
<1>1. /\ res.is = "ok" /\ res.ev \in Evaluated /\ res # Nothing
      /\ res.ev.changed_at = M[d].changed_at /\ res.ev.outcome = val[d]
      /\ M[d] # None /\ M[d].verified_at = v
    BY ResultForms DEF GoodResult, Current, Nothing
<1>2. M[d].changed_at \in Nat
    BY <1>1, EvaluationForms DEF Evaluations
<1>3. /\ Y.key = X.key /\ Y.previous = X.previous /\ Y.abort = X.abort /\ Y.result = X.result
    BY <1>1, ResumedHeld
<1>4. CASE X.pc = "verify"
    <2> DEFINE n == X.at
               e == X.previous.deps[n]
    <2>1. X.previous \in Evaluated /\ X.previous.deps \in Deps /\ ~X.dirty
        BY <1>0, <1>4, EvaluationForms DEF TaskRight
    <2>2. n \in DOMAIN X.previous.deps /\ d = e.dep
        BY <1>4 DEF PendingRight
    <2>3. e.seen \in Nat
        BY <2>1, <2>2, DepKeys
    <2>4. /\ Explained(M, w, X.key, X.previous)
          /\ \A i \in DOMAIN X.previous.deps : i < n => Agrees(M, v, X.previous.deps[i])
          /\ FromLatest(M, v, w, X.key, X.previous) /\ X.got = NoneGot /\ X.deps = <<>>
        BY <1>4, <2>1 DEF TaskRight, Active
    <2>5. e.seen <= M[d].changed_at
        BY <1>0, <2>1, <2>2, <2>4, NextIsWanted
    <2>6. CASE res.ev.changed_at <= e.seen
        <3>1. Y = [X EXCEPT !.at = @ + 1]
            BY <1>1, <1>4, <2>6 DEF Resumed, Verified
        <3>2. /\ Y.pc = "verify" /\ Y.at = n + 1 /\ Y.dirty = X.dirty /\ Y.got = X.got
              /\ Y.deps = X.deps
            BY <1>4, <3>1 DEF TaskRecord
        <3>3. Agrees(M, v, e)
            <4> DEFINE c == M[d].changed_at
            <4>1. c <= e.seen /\ e.seen <= c
                BY <1>1, <2>5, <2>6
            <4>2. c \in Nat /\ e.seen \in Nat
                BY <1>2, <2>3
            <4>3. c = e.seen
                <5> HIDE DEF c, e
                <5> QED
                    BY <4>1, <4>2
            <4> HIDE DEF e
            <4> QED
                BY <1>1, <2>2, <4>3 DEF Agrees, Current
        <3>4. ASSUME NEW i \in DOMAIN X.previous.deps, i < n + 1
              PROVE  Agrees(M, v, X.previous.deps[i])
            <4>1. i < n \/ i = n
                BY <1>0, <2>1, <3>4, DepKeys
            <4> QED
                BY <2>4, <3>3, <4>1
        <3> HIDE DEF Y, e
        <3>5. TaskRight(M, v, w, Y)
            BY <1>3, <2>1, <2>4, <3>2, <3>4 DEF TaskRight
        <3> QED
            BY <1>4, <2>2, <3>5 DEF PendingRight, Y, e
    <2>7. CASE ~(res.ev.changed_at <= e.seen)
        <3>1. Y = [X EXCEPT !.pc = "compute", !.at = 1]
            BY <1>4, <2>7 DEF Resumed, Verified
        <3>2. Y.pc = "compute" /\ Y.dirty = X.dirty /\ Y.got = NoneGot /\ Y.deps = <<>>
            BY <2>4, <3>1 DEF TaskRecord
        <3> HIDE DEF Y, e
        <3>3. TaskRight(M, v, w, Y)
            BY <1>3, <2>4, <3>2, NothingRead DEF TaskRight
        <3> QED
            BY <1>4, <2>2, <3>3 DEF PendingRight, Y, e
    <2> QED
        BY <2>6, <2>7
<1>5. CASE X.pc = "compute"
    <2> DEFINE e == [dep |-> d, seen |-> res.ev.changed_at]
    <2>1. /\ X.got = Only(val, DepSet(X.deps)) /\ Asked(X.key, X.deps, val)
          /\ AllAgree(M, v, X.deps) /\ FromLatest(M, v, w, X.key, X.previous)
          /\ X.previous # None /\ ~X.dirty => Explained(M, w, X.key, X.previous)
        BY <1>5 DEF TaskRight, Active
    <2>2. e \in [dep : Keys, seen : Versions] /\ e.dep = d /\ e.seen = M[d].changed_at
        BY <1>1, <1>2 DEF Versions
    <2>3. Y = [X EXCEPT !.got = [x \in DOMAIN @ \cup {d} |-> IF x = d THEN val[d] ELSE @[x]],
                        !.deps = Append(@, e)]
        BY <1>1, <1>5 DEF Resumed, ReadBy
    <2> HIDE DEF e
    <2>4. /\ Y.pc = "compute" /\ Y.dirty = X.dirty /\ Y.deps = Append(X.deps, e)
          /\ Y.got = [x \in DOMAIN X.got \cup {d} |-> IF x = d THEN val[d] ELSE X.got[x]]
        BY <1>5, <2>3 DEF TaskRecord
    <2> HIDE DEF Y
    <2>5. /\ DepSet(Y.deps) = DepSet(X.deps) \cup {d} /\ DepSet(X.deps) \in SUBSET Keys
          /\ DOMAIN Y.deps = DOMAIN X.deps \cup {Len(X.deps) + 1}
        BY <1>0, <2>2, <2>4, AppendedDep, DepKeys
    <2>6. Y.got = Only(val, DepSet(Y.deps))
        BY <2>1, <2>4, <2>5 DEF Only
    <2>7. d \in Wants(X.key, Only(val, DepSet(X.deps)))
        BY <1>5, <2>1 DEF PendingRight
    <2>8. Asked(Y.key, Y.deps, val)
        BY <1>0, <1>3, <2>1, <2>2, <2>4, <2>5, <2>7, AppendedDep DEF Asked
    <2>9. Agrees(M, v, e)
        BY <1>1, <2>2 DEF Agrees, Current
    <2>10. AllAgree(M, v, Y.deps)
        BY <1>0, <2>1, <2>2, <2>4, <2>5, <2>9, AppendedDep DEF AllAgree
    <2>11. TaskRight(M, v, w, Y)
        BY <1>3, <2>1, <2>4, <2>6, <2>8, <2>10 DEF TaskRight
    <2>12. X.got \in Gots /\ Y.got \in Gots /\ PartOf(X.got, Y.got)
        BY <1>0, <2>1, <2>5, <2>6, PartlyWanted DEF PartOf, Only
    <2>13. Wants(X.key, X.got) \subseteq Wants(X.key, Y.got)
        BY <1>0, <2>12, WantsGrow
    <2> QED
        BY <1>3, <1>5, <2>4, <2>11, <2>13 DEF PendingRight, Y
<1>6. CASE X.pc = "done"
    <2>1. Y.pc = "done"
        BY <1>1, <1>6, ResumedType
    <2> HIDE DEF Y
    <2>2. TaskRight(M, v, w, Y)
        BY <1>3, <1>6, <2>1 DEF TaskRight, Active
    <2> QED
        BY <1>3, <1>6, <2>1, <2>2 DEF PendingRight, Y
<1> QED
    BY <1>0, <1>4, <1>5, <1>6 DEF PendingRight

-----------------------------------------------------------------------------
(* The evaluations there are: changes to one entry *)

(* What a node holds, or goes back to, is an evaluation. *)
LEMMA LatestType ==
    ASSUME NEW N, NEW R, NEW T, Sound(N, R, T)
    PROVE  /\ Latest(N, T) \in Evaluations
           /\ \A k \in Keys : Latest(N, T)[k] = LatestOf(N[k], T)
           /\ \A k \in Keys : N[k].st = "running" =>
                 N[k].task \in Tasks /\ T[N[k].task] \in TaskRecord /\ N[k] = Running(N[k].task)
<1>1. ASSUME NEW k \in Keys, N[k].st = "running"
      PROVE  N[k].task \in Tasks /\ T[N[k].task] \in TaskRecord /\ N[k] = Running(N[k].task)
    <2>1. N[k].task \in Tasks /\ N[k] = Running(N[k].task)
        BY <1>1, NodeForms DEF Sound, Nodes
    <2> QED
        BY <1>1, <2>1, FreeOrRecord DEF Sound, TaskMap, RunningHasTask
<1>2. ASSUME NEW k \in Keys PROVE LatestOf(N[k], T) \in Evaluated \cup {None}
    <2>1. N[k].st = "done" => N[k].ev \in Evaluated
        BY NodeForms DEF Sound, Nodes
    <2>2. N[k].st = "running" => T[N[k].task].previous \in Evaluated \cup {None}
        BY <1>1 DEF TaskRecord
    <2> QED
        BY <2>1, <2>2 DEF LatestOf
<1> QED
    BY <1>1, <1>2 DEF Latest, Evaluations

(* Two states in which a node holds the same, for the same reason. *)
LEMMA SameLatest ==
    ASSUME NEW N, NEW T, NEW U,
           \A k \in Keys : N[k].st = "running" =>
              /\ U[N[k].task].previous = T[N[k].task].previous
              /\ U[N[k].task].dirty = T[N[k].task].dirty
    PROVE  Latest(N, U) = Latest(N, T) /\ \A D : Marked(N, U, D) = Marked(N, T, D)
<1>1. \A k \in Keys : LatestOf(N[k], U) = LatestOf(N[k], T)
    BY DEF LatestOf
<1> QED
    BY <1>1 DEF Latest, Marked

(* Commit frees nothing that a node or a request refers to. *)
LEMMA CommitRight ==
    ASSUME NEW N, NEW R, NEW T, NEW D, NEW v, NEW w, Sound(N, R, T),
           Right(N, R, T, D, v, w), Commit(N, R, T)
    PROVE  Right(node', req', task', D, v, w)
<1>0. node' = N /\ req' = R /\ R \in Reqs
    BY DEF Commit, Sound
<1>1. \A t \in Tasks : task'[t] = T[t] \/ (task'[t] = Free /\ Garbage(t, N, R, T))
    BY DEF Commit
<1>2. ASSUME NEW k \in Keys, N[k].st = "running" PROVE task'[N[k].task] = T[N[k].task]
    <2>1. N[k].task \in Tasks /\ N[k] = Running(N[k].task)
        BY <1>2, LatestType
    <2> QED
        BY <1>1, <2>1 DEF Garbage
<1>3. Latest(N, task') = Latest(N, T) /\ Marked(N, task', D) = Marked(N, T, D)
    BY <1>2, SameLatest
<1>4. \A t \in Tasks : task'[t].pc # "free" => task'[t] = T[t]
    BY <1>1 DEF Free
<1>5. ASSUME NEW r \in Requesters, NEW k \in Keys, R[r][k].mode = "await"
      PROVE  task'[R[r][k].task] = T[R[r][k].task]
    <2>1. R[r][k].task \in Tasks
        BY <1>0, <1>5, RequestForms DEF Reqs
    <2> QED
        BY <1>1, <1>5, <2>1 DEF Garbage
<1>6. FlightRight(Latest(N, T), R, task', v, w)
    BY <1>4, <1>5 DEF Right, FlightRight, RequestRight
<1> QED
    BY <1>0, <1>3, <1>6 DEF Right

(* `run' moves on, on its way, and nobody awaits it once it is aborted. *)
LEMMA PutTaskRight ==
    ASSUME NEW N, NEW R, NEW T, NEW D, NEW v, NEW w, Sound(N, R, T),
           Right(N, R, T, D, v, w), NEW t \in Tasks, NEW X,
           X.previous = T[t].previous, X.dirty = T[t].dirty,
           TaskRight(Latest(N, T), v, w, X),
           \A d \in Keys : R[t][d].mode # "none" => PendingRight(w, X, d),
           \A r \in Requesters, k \in Keys :
              R[r][k].mode = "await" /\ R[r][k].task = t => X.abort = "no"
    PROVE  Right(N, R, [T EXCEPT ![t] = X], D, v, w)
<1> DEFINE U == [T EXCEPT ![t] = X]
<1>1. U[t] = X /\ \A u \in Tasks \ {t} : U[u] = T[u]
    BY DEF Sound, TaskMap
<1> HIDE DEF U
<1>2. \A k \in Keys : N[k].st = "running" => N[k].task \in Tasks
    BY LatestType
<1>3. Latest(N, U) = Latest(N, T) /\ Marked(N, U, D) = Marked(N, T, D)
    BY <1>1, <1>2, SameLatest
<1>4. \A r \in Requesters, k \in Keys : R[r][k].mode = "await" => R[r][k].task \in Tasks
    BY RequestForms DEF Sound, Reqs
<1>5. \A r \in Requesters, k \in Keys :
         RequestRight(Latest(N, T), v, w, U, k, R[r][k])
    BY <1>1, <1>4 DEF Right, FlightRight, RequestRight
<1>6. FlightRight(Latest(N, T), R, U, v, w)
    BY <1>1, <1>5 DEF Right, FlightRight
<1> QED
    BY <1>3, <1>6 DEF Right, U

(* The requests of r become those of row. *)
LEMMA PutRowRight ==
    ASSUME NEW N, NEW R, NEW T, NEW D, NEW v, NEW w, Sound(N, R, T),
           Right(N, R, T, D, v, w), NEW r \in Requesters, NEW row,
           \A k \in Keys : RequestRight(Latest(N, T), v, w, T, k, row[k]),
           \A k \in Keys : r \in Tasks /\ row[k].mode # "none" => PendingRight(w, T[r], k)
    PROVE  Right(N, [R EXCEPT ![r] = row], T, D, v, w)
<1> DEFINE S == [R EXCEPT ![r] = row]
<1>1. S[r] = row /\ \A q \in Requesters \ {r} : S[q] = R[q]
    BY DEF Sound, Reqs
<1> HIDE DEF S
<1>2. FlightRight(Latest(N, T), S, T, v, w)
    <2>1. \A t \in Tasks, d \in Keys :
             T[t].pc # "free" /\ S[t][d].mode # "none" => PendingRight(w, T[t], d)
        BY <1>1 DEF Right, FlightRight, Requesters
    <2>2. \A q \in Requesters, k \in Keys : RequestRight(Latest(N, T), v, w, T, k, S[q][k])
        BY <1>1 DEF Right, FlightRight
    <2> QED
        BY <2>1, <2>2 DEF Right, FlightRight
<1> QED
    BY <1>2 DEF Right, S

(* The same for one request. *)
LEMMA PutReqRight ==
    ASSUME NEW N, NEW R, NEW T, NEW D, NEW v, NEW w, Sound(N, R, T),
           Right(N, R, T, D, v, w), NEW r \in Requesters, NEW k \in Keys, NEW q,
           RequestRight(Latest(N, T), v, w, T, k, q),
           r \in Tasks /\ q.mode # "none" => PendingRight(w, T[r], k),
           r \in Tasks => T[r].pc # "free"
    PROVE  Right(N, [R EXCEPT ![r][k] = q], T, D, v, w)
<1> DEFINE row == [R[r] EXCEPT ![k] = q]
<1>1. R \in Reqs /\ R[r] \in [Keys -> Request]
    BY DEF Sound, Reqs
<1>2. \A j \in Keys : row[j] = IF j = k THEN q ELSE R[r][j]
    BY <1>1
<1>3. [R EXCEPT ![r][k] = q] = [R EXCEPT ![r] = row]
    OBVIOUS
<1> HIDE DEF row
<1>4. \A j \in Keys : RequestRight(Latest(N, T), v, w, T, j, row[j])
    BY <1>2 DEF Right, FlightRight
<1>5. \A j \in Keys : r \in Tasks /\ row[j].mode # "none" => PendingRight(w, T[r], j)
    BY <1>2 DEF Right, FlightRight
<1> QED
    BY <1>3, <1>4, <1>5, PutRowRight

(* What waits for nothing is right. *)
LEMMA NoRequestRight ==
    /\ NoReq.mode = "none" /\ Look.mode = "look"
    /\ \A M, v, w, T, k : /\ RequestRight(M, v, w, T, k, NoReq)
                          /\ RequestRight(M, v, w, T, k, Look)
                          /\ \A t : RequestRight(M, v, w, T, k, Other(t))
                          /\ \A t : RequestRight(M, v, w, T, k, Drop(t, Nothing))
    BY DEF NoReq, Look, Other, Drop, RequestRight

(* A request is answered, with a good evaluation if at all. *)
LEMMA AnswerRight ==
    ASSUME Acyclic, NEW w \in [Leaves -> Values], NEW v \in Nat,
           NEW N, NEW T, NEW D, Sound(N, req, T), Right(N, req, T, D, v, w),
           NEW r \in Requesters, NEW k \in Keys, NEW res \in Results,
           req[r][k].mode # "none", r \in Tasks => T[r].pc # "free",
           res = Nothing \/ GoodResult(Latest(N, T), v, w, k, res),
           Answer(r, k, res, N, req, T)
    PROVE  Right(node', req', task', D, v, w)
<1> DEFINE R == [req EXCEPT ![r][k] = NoReq]
<1>1. NoReq \in Request /\ NoReq.mode = "none"
    BY NoReqType
<1>2. Sound(N, R, T)
    BY <1>1, PutReq
<1>3. Right(N, R, T, D, v, w)
    BY <1>1, NoRequestRight, PutReqRight
<1>4. R[r][k] = NoReq /\ \A j \in Keys : j # k => R[r][j] = req[r][j]
    BY DEF Sound, Reqs
<1> HIDE DEF R
<1>5. CASE Commit(N, R, T)
    BY <1>2, <1>3, <1>5, CommitRight
<1>6. CASE /\ r \in Tasks /\ res # Nothing
           /\ Commit(N, R, [T EXCEPT ![r] = Resumed(@, k, res)])
    <2> DEFINE X == Resumed(T[r], k, res)
               M == Latest(N, T)
    <2>1. T[r] \in TaskRecord /\ T[r].pc # "free"
        BY <1>6, FreeOrRecord DEF Sound, TaskMap
    <2>2. /\ X \in TaskRecord /\ X.key = T[r].key /\ X.abort = T[r].abort
          /\ X.previous = T[r].previous /\ X.pc # "free"
        BY <1>6, <2>1, ResumedHeld
    <2>3. X.pc = "verify" => X.previous # None
        BY <1>6, <2>1, ResumedType DEF Sound, HasPrevious
    <2>4. X.dirty = T[r].dirty
        BY <2>1 DEF Resumed, Verified, ReadBy, TaskRecord
    <2>5. Commit(N, R, [T EXCEPT ![r] = X])
        BY <1>6
    <2>6. /\ TaskRight(M, v, w, T[r]) /\ PendingRight(w, T[r], k)
          /\ \A j \in Keys : req[r][j].mode # "none" => PendingRight(w, T[r], j)
        BY <1>6, <2>1 DEF Right, FlightRight
    <2>7. M \in Evaluations /\ Kept(M, Marked(N, T, D), v, w)
          /\ GoodResult(M, v, w, k, res) /\ (T[r].pc = "verify" => T[r].previous # None)
        BY <1>6, LatestType DEF Right, Sound, HasPrevious
    <2> HIDE DEF M
    <2>8. /\ TaskRight(M, v, w, X)
          /\ \A j \in Keys : j # k /\ PendingRight(w, T[r], j) => PendingRight(w, X, j)
        BY <2>1, <2>6, <2>7, ResumedRight
    <2> HIDE DEF X
    <2>9. \A j \in Keys : R[r][j].mode # "none" => PendingRight(w, X, j)
        BY <1>1, <1>4, <2>6, <2>8
    <2>10. \A q \in Requesters, j \in Keys :
              R[q][j].mode = "await" /\ R[q][j].task = r => X.abort = "no"
        BY <1>3, <2>2 DEF Right, FlightRight, RequestRight
    <2>11. Right(N, R, [T EXCEPT ![r] = X], D, v, w)
        BY <1>2, <1>3, <1>6, <2>2, <2>4, <2>8, <2>9, <2>10, PutTaskRight DEF M
    <2>12. Sound(N, R, [T EXCEPT ![r] = X])
        BY <1>2, <1>6, <2>1, <2>2, <2>3, PutTask
    <2> QED
        BY <2>5, <2>11, <2>12, CommitRight
<1> QED
    BY <1>5, <1>6 DEF Answer, R, Requesters

-----------------------------------------------------------------------------
(* Steps of what is in flight *)

FreshStep ==
    /\ Right(node', req', task', dirty', version', world')
    /\ Known(node', req', nodes')
    /\ ClientsRight'

(* While nothing is announced, what is in flight is right. *)
LEMMA InFlightRight ==
    ASSUME FreshInv, inv = Still
    PROVE  /\ EngineInv /\ Sound(node, req, task) /\ Held(node, req, task)
           /\ Right(node, req, task, dirty, version, world)
           /\ version \in Nat /\ world \in [Leaves -> Values]
           /\ client \in [Clients -> ClientState] /\ dirty \in [Keys -> BOOLEAN]
           /\ Latest(node, task) \in Evaluations /\ NoneLater(Latest(node, task), version)
<1>1. EngineInv /\ Sound(node, req, task) /\ Held(node, req, task)
    BY DEF FreshInv, QuietInv, HeldInv, EngineInv
<1>2. /\ version \in Nat /\ world \in [Leaves -> Values]
      /\ client \in [Clients -> ClientState] /\ dirty \in [Keys -> BOOLEAN]
    BY <1>1 DEF EngineInv, RestOK, Versions
<1>3. AnnouncedKeys = {} /\ AnnouncedVersion = version
    BY DEF AnnouncedKeys, AnnouncedVersion, Still
<1>4. Kept(Latest(node, task), Marked(node, task, dirty), version, world)
    <2>1. Marked(node, task, dirty) \cup AnnouncedKeys = Marked(node, task, dirty)
        BY <1>3
    <2> QED
        BY <1>3, <2>1 DEF FreshInv
<1>5. Right(node, req, task, dirty, version, world)
    BY <1>4 DEF Right, FreshInv
<1>6. /\ Latest(node, task) \in Evaluations
      /\ \A k \in Keys : Latest(node, task)[k] = LatestOf(node[k], task)
      /\ \A k \in Keys : node[k].st = "running" => node[k].task \in Tasks
    BY <1>1, LatestType
<1>7. ASSUME NEW k \in Keys, LatestOf(node[k], task) # None
      PROVE  InDate(LatestOf(node[k], task), version)
    <2>1. CASE node[k].st = "done"
        BY <2>1 DEF LatestOf, FreshInv, QuietInv, Dated
    <2>2. CASE node[k].st = "running"
        <3>1. task[node[k].task].pc # "free"
            BY <1>1, <2>2 DEF Sound, RunningHasTask
        <3> QED
            BY <1>6, <1>7, <2>2, <3>1 DEF LatestOf, FreshInv, QuietInv, Dated, TaskInDate
    <2> QED
        BY <1>7, <2>1, <2>2 DEF LatestOf
<1>8. NoneLater(Latest(node, task), version)
    BY <1>6, <1>7 DEF NoneLater, InDate
<1> QED
    BY <1>1, <1>2, <1>5, <1>6, <1>8

(* A request that is answered, and a client that gets the value. *)
LEMMA AnswerFresh ==
    ASSUME FreshInv, Acyclic, NEW r \in Requesters, NEW k \in Keys, req[r][k].mode # "none",
           NEW N, NEW T, Sound(N, req, T), Right(N, req, T, dirty', version, world),
           Known(N, req, nodes), NEW res \in Results, r \in Tasks => T[r].pc # "free",
           res = Nothing \/ GoodResult(Latest(N, T), version, world, k, res),
           Answer(r, k, res, N, req, T), UNCHANGED <<version, nodes, world>>
    PROVE  FreshStep
<1>0. inv = Still
    BY InFlight DEF FreshInv
<1>1. /\ version \in Nat /\ world \in [Leaves -> Values]
      /\ client \in [Clients -> ClientState] /\ req \in Reqs
    BY <1>0, InFlightRight DEF Sound
<1>2. Right(node', req', task', dirty', version, world)
    BY <1>1, AnswerRight
<1>3. node' = N /\ req' = [req EXCEPT ![r][k] = NoReq]
    BY DEF Answer, Commit
<1>4. Known(node', req', nodes')
    BY <1>1, <1>3 DEF Known, Reqs
<1>5. ClientsRight'
    <2>1. CASE client' = client
        BY <2>1 DEF ClientsRight, FreshInv
    <2>2. CASE /\ r \in Clients /\ res # Nothing
               /\ client' = [client EXCEPT ![r] =
                     [pc |-> "got", key |-> k, version |-> client[r].version,
                      settled |-> client[r].settled, value |-> ValueOf(res)]]
        <3>1. ValueOf(res) = ScratchIn(world)[k]
            BY <2>2 DEF ValueOf, GoodResult
        <3>2. client'[r].key = k /\ client'[r].value = ValueOf(res)
              /\ \A c \in Clients \ {r} : client'[c] = client[c]
            BY <1>1, <2>2
        <3> QED
            BY <3>1, <3>2 DEF ClientsRight, FreshInv
    <2> QED
        BY <2>1, <2>2 DEF Answer
<1> QED
    BY <1>2, <1>4, <1>5 DEF FreshStep

(* A step that leaves the clients and the graph alone. *)
LEMMA CommitFresh ==
    ASSUME FreshInv, NEW N, NEW R, NEW T, Sound(N, R, T),
           Right(N, R, T, dirty, version, world), Known(N, R, nodes'), Commit(N, R, T),
           UNCHANGED <<version, dirty, world>>,
           \A c \in Clients : client'[c] = client[c] \/ client'[c].pc # "got"
    PROVE  FreshStep
<1>1. Right(node', req', task', dirty', version', world')
    BY CommitRight
<1>2. node' = N /\ req' = R
    BY DEF Commit
<1>3. ClientsRight'
    BY DEF ClientsRight, FreshInv
<1> QED
    BY <1>1, <1>2, <1>3 DEF FreshStep

(* Engine::get. *)
LEMMA GetFresh ==
    ASSUME FreshInv, Quiet, NEW c \in Clients, NEW k \in Keys, Get(c, k)
    PROVE  FreshStep
<1>0. inv = Still /\ c \in Requesters /\ c \notin Tasks
    BY EngineAssumption DEF Get, Requesters
<1>1. /\ Sound(node, req, task) /\ Right(node, req, task, dirty, version, world)
      /\ client \in [Clients -> ClientState] /\ req \in Reqs
    BY <1>0, InFlightRight DEF Sound
<1>2. Right(node, req', task, dirty, version, world)
    BY <1>0, <1>1, NoRequestRight, PutReqRight DEF Get
<1>3. Known(node, req', nodes')
    BY <1>0, <1>1 DEF Get, Known, Reqs, FreshInv
<1>4. ClientsRight'
    BY <1>1 DEF Get, ClientsRight, FreshInv
<1> QED
    BY <1>2, <1>3, <1>4 DEF FreshStep, Get

(* A request that moves on with q. *)
LEMMA PutReqFresh ==
    ASSUME FreshInv, NEW r \in Requesters, NEW k \in Keys, req[r][k].mode # "none",
           NEW q \in Request, RequestRight(Latest(node, task), version, world, task, k, q),
           UNCHANGED <<version, nodes, dirty, client, world>>,
           \/ req' = [req EXCEPT ![r][k] = q] /\ UNCHANGED <<node, task>>
           \/ Commit(node, [req EXCEPT ![r][k] = q], task)
    PROVE  FreshStep
<1> DEFINE R == [req EXCEPT ![r][k] = q]
<1>0. inv = Still
    BY InFlight DEF FreshInv
<1>1. /\ EngineInv /\ Sound(node, req, task) /\ req \in Reqs
      /\ Right(node, req, task, dirty, version, world)
    BY <1>0, InFlightRight DEF Sound
<1>2. r \in Tasks => task[r].pc # "free"
    BY <1>1, Asker
<1>3. r \in Tasks => PendingRight(world, task[r], k)
    BY <1>1, <1>2 DEF Right, FlightRight
<1>4. Right(node, R, task, dirty, version, world)
    BY <1>1, <1>2, <1>3, PutReqRight
<1>5. Sound(node, R, task)
    BY <1>1, <1>2, PutReq
<1>6. Known(node, R, nodes)
    BY <1>1 DEF Known, Reqs, FreshInv
<1> HIDE DEF R
<1>7. CASE Commit(node, R, task)
    BY <1>4, <1>5, <1>6, <1>7, CommitFresh
<1>8. CASE req' = R /\ UNCHANGED <<node, task>>
    <2>1. Right(node', req', task', dirty', version', world') /\ Known(node', req', nodes')
        BY <1>4, <1>6, <1>8
    <2>2. ClientsRight'
        BY DEF ClientsRight, FreshInv
    <2> QED
        BY <2>1, <2>2 DEF FreshStep
<1> QED
    BY <1>7, <1>8 DEF R

(* evaluate_now finds the node up to date. *)
LEMMA LookDoneFresh ==
    ASSUME FreshInv, Acyclic, NEW r \in Requesters, NEW k \in Keys, LookDone(r, k)
    PROVE  FreshStep
<1> DEFINE ev == node[k].ev
           M == Latest(node, task)
<1>1. req[r][k] = Look /\ req[r][k].mode # "none" /\ Awaits(req[r][k])
    BY DEF LookDone, Look, Awaits
<1>2. inv = Still /\ VersionOf(r) = version
    BY <1>1, InFlight DEF FreshInv
<1>3. /\ EngineInv /\ Sound(node, req, task) /\ Right(node, req, task, dirty, version, world)
      /\ version \in Nat /\ NoneLater(M, version) /\ M \in Evaluations
    BY <1>2, InFlightRight
<1>4. node[k].st = "done" /\ ev.verified_at >= version /\ M[k] = ev
    BY <1>2 DEF LookDone, UpToDate, Latest, LatestOf
<1>5. ev \in Evaluated
    BY <1>3, <1>4, NodeForms DEF Sound, Nodes
<1>6. ev # None /\ ev.verified_at \in Nat
    BY <1>5, EvaluationForms
<1>7. ev.verified_at = version
    BY <1>3, <1>4, <1>6 DEF NoneLater
<1>8. Current(M, version, k)
    BY <1>4, <1>6, <1>7 DEF Current
<1>9. ev.outcome = ScratchIn(world)[k]
    BY <1>3, <1>4, <1>6, <1>8 DEF Right, Kept, UpNow
<1>10. Good(ev) \in Results /\ GoodResult(M, version, world, k, Good(ev))
    BY <1>4, <1>5, <1>8, <1>9 DEF GoodResult, Good, Results
<1>11. r \in Tasks => task[r].pc # "free"
    BY <1>1, <1>3, Asker
<1>12. /\ Answer(r, k, Good(ev), node, req, task)
       /\ UNCHANGED <<version, nodes, world>> /\ dirty' = dirty
    BY DEF LookDone
<1>13. Known(node, req, nodes)
    BY DEF FreshInv
<1>14. Right(node, req, task, dirty', version, world)
    BY <1>3, <1>12
<1> QED
    BY <1>1, <1>3, <1>10, <1>11, <1>12, <1>13, <1>14, AnswerFresh

(* evaluate_now joins a computation, which was not aborted, or looks again. *)
LEMMA LookOnFresh ==
    ASSUME FreshInv, NEW r \in Requesters, NEW k \in Keys,
           LookRunning(r, k) \/ OtherDone(r, k)
    PROVE  FreshStep
<1>0. req[r][k].mode # "none"
    BY DEF LookRunning, OtherDone, Look
<1>1. inv = Still
    BY <1>0, InFlight DEF FreshInv
<1>2. Sound(node, req, task) /\ Held(node, req, task)
    BY <1>1, InFlightRight
<1>3. CASE LookRunning(r, k)
    <2> DEFINE t == node[k].task
               q == IF task[t].version = VersionOf(r) THEN Await(t) ELSE Other(t)
    <2>1. node[k].st = "running" /\ req' = [req EXCEPT ![r][k] = q] /\ UNCHANGED <<node, task>>
          /\ UNCHANGED <<version, nodes, dirty, client, world>>
        BY <1>3 DEF LookRunning
    <2>2. t \in Tasks /\ task[t].abort = "no"
        BY <1>2, <2>1, NodeForms DEF Sound, Nodes, Held, RunningHeld
    <2>3. q \in Request /\ RequestRight(Latest(node, task), version, world, task, k, q)
        BY <2>2 DEF Request, RequestRight, Await, Other
    <2> HIDE DEF q
    <2> QED
        BY <1>0, <2>1, <2>3, PutReqFresh
<1>4. CASE OtherDone(r, k)
    <2>1. Look \in Request /\ RequestRight(Latest(node, task), version, world, task, k, Look)
        BY NoRequestRight DEF Look, Request
    <2>2. Commit(node, [req EXCEPT ![r][k] = Look], task)
          /\ UNCHANGED <<version, nodes, dirty, client, world>>
        BY <1>4 DEF OtherDone
    <2> QED
        BY <1>0, <2>1, <2>2, PutReqFresh
<1> QED
    BY <1>3, <1>4

(* The awaited computation was not aborted, and ended with the value. *)
LEMMA AwaitDoneFresh ==
    ASSUME FreshInv, Acyclic, NEW r \in Requesters, NEW k \in Keys, AwaitDone(r, k)
    PROVE  FreshStep
<1> DEFINE t == req[r][k].task
           res == task[t].result
           M == Latest(node, task)
<1>1. req[r][k].mode = "await" /\ req[r][k].mode # "none" /\ Refers(req[r][k])
    BY DEF AwaitDone, Refers
<1>2. inv = Still
    BY <1>1, InFlight DEF FreshInv
<1>3. /\ EngineInv /\ Sound(node, req, task) /\ Held(node, req, task)
      /\ Right(node, req, task, dirty, version, world)
    BY <1>2, InFlightRight
<1>4. t \in Tasks /\ (r \in Tasks => task[r].pc # "free")
    BY <1>1, <1>3, Asker, RequestForms
<1>5. task[t].pc = "done" /\ task[t].key = k
    BY <1>1, <1>3 DEF AwaitDone, Finished, Held, RefersToKey
<1>6. task[t].abort = "no"
    BY <1>1, <1>3 DEF Right, FlightRight, RequestRight
<1>7. GoodResult(M, version, world, k, res)
    BY <1>3, <1>4, <1>5, <1>6 DEF Right, FlightRight, TaskRight
<1>8. res \in Results
    <2>1. task[t] \in TaskRecord
        BY <1>3, <1>4, <1>5, FreeOrRecord DEF Sound, TaskMap
    <2> QED
        BY <2>1 DEF TaskRecord
<1>9. UNCHANGED <<version, nodes, dirty, world>>
    BY DEF AwaitDone
<1>10. CASE req' = [req EXCEPT ![r][k] = Drop(t, res)] /\ UNCHANGED <<node, task, client>>
    <2> DEFINE q == Drop(t, res)
    <2>1. q \in Request /\ RequestRight(M, version, world, task, k, q)
        BY <1>4, <1>7, <1>8 DEF Request, RequestRight, Drop
    <2>2. req' = [req EXCEPT ![r][k] = q]
        BY <1>10
    <2> HIDE DEF q, t, res
    <2> QED
        BY <1>1, <1>9, <1>10, <2>1, <2>2, PutReqFresh
<1>11. CASE Answer(r, k, res, node, req, task)
    <2>1. Known(node, req, nodes) /\ Right(node, req, task, dirty', version, world)
        BY <1>3, <1>9 DEF FreshInv
    <2> QED
        BY <1>1, <1>3, <1>4, <1>7, <1>8, <1>9, <1>11, <2>1, AnswerFresh
<1> QED
    BY <1>10, <1>11 DEF AwaitDone

(* A computation begins from what the node held, and is marked as it was. *)
LEMMA SpawnFresh ==
    ASSUME FreshInv, NEW r \in Requesters, NEW k \in Keys, LookSpawn(r, k)
    PROVE  FreshStep
<1> DEFINE t == CHOOSE u \in Tasks : task[u] = Free
           X == NewTask(r, k)
           M == Latest(node, task)
           Z == Marked(node, task, dirty)
<1>1. t \in Tasks /\ task[t] = Free /\ task[t].pc = "free"
    BY DEF LookSpawn, Free
<1>2. req[r][k] = Look /\ req[r][k].mode # "none" /\ Awaits(req[r][k])
    BY DEF LookSpawn, Look, Awaits
<1>3. inv = Still
    BY <1>2, InFlight DEF FreshInv
<1>4. /\ EngineInv /\ Sound(node, req, task) /\ Held(node, req, task)
      /\ Right(node, req, task, dirty, version, world) /\ dirty \in [Keys -> BOOLEAN]
      /\ node \in Nodes /\ req \in Reqs /\ task \in TaskMap
      /\ M \in Evaluations /\ \A j \in Keys : M[j] = LatestOf(node[j], task)
    BY <1>3, InFlightRight, LatestType DEF Sound
<1>5. /\ task' = [task EXCEPT ![t] = X] /\ node' = [node EXCEPT ![k] = Running(t)]
      /\ req' = [req EXCEPT ![r][k] = Await(t)] /\ dirty' = [dirty EXCEPT ![k] = FALSE]
      /\ node[k].st # "running" /\ UNCHANGED <<version, nodes, client, world>>
    BY DEF LookSpawn, NewTask
<1>6. /\ X.key = k /\ X.abort = "no" /\ X.dirty = dirty[k] /\ X.at = 1 /\ X.got = NoneGot
      /\ X.deps = <<>> /\ X.pc = Begin(X.previous, dirty[k])
      /\ X.previous = IF node[k].st = "done" THEN node[k].ev ELSE None
    BY DEF NewTask
<1>7. X.previous = M[k]
    BY <1>4, <1>5, <1>6 DEF LatestOf
<1> HIDE DEF t, X
<1>8. /\ task'[t] = X /\ \A u \in Tasks \ {t} : task'[u] = task[u]
      /\ node'[k] = Running(t) /\ \A j \in Keys \ {k} : node'[j] = node[j]
      /\ dirty'[k] = FALSE /\ \A j \in Keys \ {k} : dirty'[j] = dirty[j]
      /\ req'[r][k] = Await(t)
      /\ \A q \in Requesters, j \in Keys : q # r \/ j # k => req'[q][j] = req[q][j]
    BY <1>1, <1>4, <1>5 DEF Nodes, Reqs, TaskMap
<1>9. ASSUME NEW j \in Keys \ {k}, node[j].st = "running"
      PROVE  task'[node[j].task] = task[node[j].task]
    <2>1. node[j].task \in Tasks /\ task[node[j].task].pc # "free"
        BY <1>4, <1>9, NodeForms DEF Nodes, Sound, RunningHasTask
    <2> QED
        BY <1>1, <1>8, <2>1
<1>10. Latest(node', task') = M
    <2>1. \A j \in Keys : LatestOf(node'[j], task') = LatestOf(node[j], task)
        <3>1. LatestOf(node'[k], task') = X.previous
            BY <1>8 DEF LatestOf, Running
        <3>2. \A j \in Keys \ {k} : LatestOf(node'[j], task') = LatestOf(node[j], task)
            BY <1>8, <1>9 DEF LatestOf
        <3> QED
            BY <1>4, <1>7, <3>1, <3>2
    <2> QED
        BY <2>1 DEF Latest
<1>11. Marked(node', task', dirty') = Z
    <2>1. k \in Marked(node', task', dirty') <=> k \in Z
        BY <1>5, <1>6, <1>8 DEF Marked, Running
    <2>2. \A j \in Keys \ {k} : j \in Marked(node', task', dirty') <=> j \in Z
        BY <1>8, <1>9 DEF Marked
    <2> QED
        BY <2>1, <2>2 DEF Marked
<1>12. TaskRight(M, version, world, X)
    <2>1. ASSUME X.previous # None, ~X.dirty PROVE Explained(M, world, k, X.previous)
        <3>1. k \notin Z
            BY <1>5, <1>6, <2>1 DEF Marked
        <3> QED
            BY <1>4, <1>7, <2>1, <3>1 DEF Right, Kept
    <2>2. FromLatest(M, version, world, k, X.previous)
        <3>1. CASE Current(M, version, k)
            <4>1. M[k] # None /\ M[k].outcome = ScratchIn(world)[k]
                BY <1>4, <3>1 DEF Right, Kept, UpNow, Current
            <4> QED
                BY <1>7, <3>1, <4>1 DEF FromLatest, ChangedFrom
        <3>2. CASE ~Current(M, version, k)
            BY <1>7, <3>2 DEF FromLatest
        <3> QED
            BY <3>1, <3>2
    <2>3. CASE X.previous # None /\ ~dirty[k]
        <3>1. X.pc = "verify"
            BY <1>6, <2>3 DEF Begin
        <3>2. \A i \in DOMAIN X.previous.deps : ~(i < 1)
            <4>1. X.previous.deps \in Deps
                BY <1>4, <1>7, <2>3, EvaluationForms DEF Evaluations
            <4> QED
                BY <4>1, DepKeys
        <3> QED
            BY <1>6, <2>1, <2>2, <2>3, <3>1, <3>2 DEF TaskRight
    <2>4. CASE ~(X.previous # None /\ ~dirty[k])
        <3>1. X.pc = "compute"
            BY <1>6, <2>4 DEF Begin
        <3> QED
            BY <1>6, <2>1, <2>2, <2>4, <3>1, NothingRead DEF TaskRight
    <2> QED
        BY <2>3, <2>4
<1>13. FlightRight(M, req', task', version, world)
    <2>1. \A u \in Tasks : task'[u].pc # "free" => TaskRight(M, version, world, task'[u])
        BY <1>4, <1>8, <1>12 DEF Right, FlightRight
    <2>2. ASSUME NEW u \in Tasks, NEW d \in Keys, task'[u].pc # "free", req'[u][d].mode # "none"
          PROVE  PendingRight(world, task'[u], d)
        <3>1. req[u][d].mode # "none" /\ u \in Requesters
            BY <1>2, <1>8, <2>2 DEF Requesters
        <3>2. task[u].pc # "free"
            BY <1>4, <3>1, Asker
        <3> QED
            BY <1>1, <1>4, <1>8, <3>1, <3>2 DEF Right, FlightRight
    <2>3. ASSUME NEW q \in Requesters, NEW j \in Keys
          PROVE  RequestRight(M, version, world, task', j, req'[q][j])
        <3>1. CASE q = r /\ j = k
            BY <1>6, <1>8, <3>1 DEF RequestRight, Await
        <3>2. CASE q # r \/ j # k
            <4>1. req'[q][j] = req[q][j] /\ RequestRight(M, version, world, task, j, req[q][j])
                BY <1>4, <1>8, <3>2 DEF Right, FlightRight
            <4>2. ASSUME req[q][j].mode = "await"
                  PROVE  task'[req[q][j].task] = task[req[q][j].task]
                <5>1. req[q][j].task \in Tasks /\ task[req[q][j].task].pc # "free"
                    BY <1>4, <4>2, RequestForms DEF Reqs, Held, RefersToKey, Refers
                <5> QED
                    BY <1>1, <1>8, <5>1
            <4> QED
                BY <4>1, <4>2 DEF RequestRight
        <3> QED
            BY <3>1, <3>2
    <2> QED
        BY <2>1, <2>2, <2>3 DEF FlightRight
<1>14. Right(node', req', task', dirty', version', world')
    BY <1>4, <1>5, <1>10, <1>11, <1>13 DEF Right
<1>15. Known(node', req', nodes')
    BY <1>2, <1>5, <1>8 DEF Known, FreshInv
<1>16. ClientsRight'
    BY <1>5 DEF ClientsRight, FreshInv
<1> QED
    BY <1>14, <1>15, <1>16 DEF FreshStep

(* Drop for Waiter: a node that is put back holds what it held, marked as    *)
(* its computation found it, and nobody awaits a computation it aborts.     *)
LEMMA DropWaiterFresh ==
    ASSUME FreshInv, Acyclic, NEW r \in Requesters, NEW k \in Keys, DropWaiter(r, k)
    PROVE  FreshStep
<1> DEFINE t == req[r][k].task
           res == req[r][k].result
           back == [node EXCEPT ![k] = Back(task[t])]
           M == Latest(node, task)
<1>1. req[r][k].mode = "drop" /\ req[r][k].mode # "none" /\ Refers(req[r][k])
    BY DEF DropWaiter, Refers
<1>2. inv = Still
    BY <1>1, InFlight DEF FreshInv
<1>3. /\ EngineInv /\ Sound(node, req, task) /\ Held(node, req, task)
      /\ Right(node, req, task, dirty, version, world) /\ dirty \in [Keys -> BOOLEAN]
    BY <1>2, InFlightRight
<1>4. t \in Tasks /\ res \in Results /\ (r \in Tasks => task[r].pc # "free")
    BY <1>1, <1>3, Asker, RequestForms
<1>5. task[t].pc # "free" /\ task[t].key = k /\ task[t] \in TaskRecord
    BY <1>1, <1>3, <1>4, FreeOrRecord DEF Held, RefersToKey, Sound, TaskMap
<1>6. res = Nothing \/ GoodResult(M, version, world, k, res)
    BY <1>1, <1>3 DEF Right, FlightRight, RequestRight
<1>7. UNCHANGED <<version, nodes, world>>
    BY DEF DropWaiter
<1>8. CASE Answer(r, k, res, node, req, task) /\ UNCHANGED dirty
    <2>1. Known(node, req, nodes) /\ Right(node, req, task, dirty', version, world)
        BY <1>3, <1>8 DEF FreshInv
    <2> QED
        BY <1>1, <1>3, <1>4, <1>6, <1>7, <1>8, <2>1, AnswerFresh
<1>9. CASE /\ node[k] = Running(t) /\ Waiters(t) = {}
           /\ dirty' = [dirty EXCEPT ![k] = StillDirty(@, task[t])]
    <2>1. /\ Back(task[t]) \in NodeState /\ Back(task[t]).st # "running"
          /\ LatestOf(Back(task[t]), task) = task[t].previous
        <3>1. task[t].previous \in Evaluated \cup {None}
            BY <1>5 DEF TaskRecord
        <3> QED
            BY <3>1 DEF Back, Empty, Done, NodeState, LatestOf
    <2>2. Sound(back, req, task)
        BY <1>3, <2>1, PutNode
    <2>3. /\ back[k] = Back(task[t]) /\ \A j \in Keys \ {k} : back[j] = node[j]
          /\ dirty'[k] <=> dirty[k] \/ task[t].dirty
          /\ \A j \in Keys \ {k} : dirty'[j] = dirty[j]
        BY <1>3, <1>9 DEF Sound, Nodes, StillDirty
    <2> HIDE DEF back
    <2>4. Latest(back, task) = M
        <3>1. LatestOf(node[k], task) = task[t].previous
            BY <1>9 DEF LatestOf, Running
        <3> QED
            BY <2>1, <2>3, <3>1 DEF Latest
    <2>5. Marked(back, task, dirty') = Marked(node, task, dirty)
        <3>1. k \in Marked(back, task, dirty') <=> k \in Marked(node, task, dirty)
            <4>1. node[k].st = "running" /\ node[k].task = t /\ back[k].st # "running"
                BY <1>9, <2>1, <2>3 DEF Running
            <4> QED
                BY <2>3, <4>1 DEF Marked
        <3>2. \A j \in Keys \ {k} :
                 j \in Marked(back, task, dirty') <=> j \in Marked(node, task, dirty)
            BY <2>3 DEF Marked
        <3> QED
            BY <3>1, <3>2 DEF Marked
    <2>6. Right(back, req, task, dirty', version, world)
        BY <1>3, <2>4, <2>5 DEF Right
    <2>7. Known(back, req, nodes)
        BY <1>9, <2>3 DEF Known, FreshInv, Running
    <2>8. CASE Answer(r, k, res, back, req, task)
        BY <1>1, <1>4, <1>6, <1>7, <2>2, <2>4, <2>6, <2>7, <2>8, AnswerFresh
    <2>9. ASSUME NEW a \in AbortOf(t), task[t].pc # "done",
                 Answer(r, k, res, back, req, [task EXCEPT ![t].abort = a])
          PROVE  FreshStep
        <3> DEFINE X == [task[t] EXCEPT !.abort = a]
                   T == [task EXCEPT ![t] = X]
        <3>1. a \in {"mid", "yes"}
            BY DEF AbortOf
        <3>2. /\ X \in TaskRecord /\ X.key = task[t].key /\ X.pc = task[t].pc
              /\ X.previous = task[t].previous /\ X.dirty = task[t].dirty /\ X.at = task[t].at
              /\ X.got = task[t].got /\ X.deps = task[t].deps /\ X.outcome = task[t].outcome
            BY <1>5, <3>1 DEF TaskRecord
        <3>3. X.pc = "verify" => X.previous # None
            BY <1>3, <1>4, <3>2 DEF Sound, HasPrevious
        <3>4. [task EXCEPT ![t].abort = a] = T
            OBVIOUS
        <3> HIDE DEF X
        <3>5. TaskRight(M, version, world, X)
            <4>1. TaskRight(M, version, world, task[t])
                BY <1>3, <1>4, <1>5 DEF Right, FlightRight
            <4> QED
                BY <2>9, <3>2, <4>1 DEF TaskRight
        <3>6. \A d \in Keys : req[t][d].mode # "none" => PendingRight(world, X, d)
            <4>1. \A d \in Keys : req[t][d].mode # "none" => PendingRight(world, task[t], d)
                BY <1>3, <1>4, <1>5 DEF Right, FlightRight
            <4> QED
                BY <3>2, <4>1 DEF PendingRight
        <3>7. \A q \in Requesters, j \in Keys : ~(req[q][j].mode = "await" /\ req[q][j].task = t)
            <4>1. \A q \in Requesters, j \in Keys : req[q][j] \in Request
                BY <1>3 DEF Sound, Reqs
            <4> QED
                BY <1>9, <4>1, AwaitForm DEF Waiters
        <3>8. Right(back, req, T, dirty', version, world)
            BY <1>4, <2>2, <2>4, <2>6, <3>2, <3>5, <3>6, <3>7, PutTaskRight
        <3>9. Sound(back, req, T)
            BY <1>4, <1>5, <2>2, <3>2, <3>3, PutTask
        <3>10. r \in Tasks => T[r].pc # "free"
            BY <1>3, <1>4, <1>5, <3>2 DEF Sound, TaskMap
        <3>11. Latest(back, T) = M
            <4>1. T[t] = X /\ \A u \in Tasks \ {t} : T[u] = task[u]
                BY <1>3, <1>4 DEF Sound, TaskMap
            <4>2. \A j \in Keys : back[j].st = "running" => back[j].task \in Tasks
                BY <2>2, LatestType
            <4> HIDE DEF T
            <4> QED
                BY <2>4, <3>2, <4>1, <4>2, SameLatest
        <3> HIDE DEF T
        <3> QED
            BY <1>1, <1>4, <1>6, <1>7, <2>7, <2>9, <3>4, <3>8, <3>9, <3>10, <3>11, AnswerFresh
    <2> QED
        BY <1>8, <1>9, <2>8, <2>9 DEF DropWaiter, back
<1> QED
    BY <1>8, <1>9 DEF DropWaiter

(* What a dropped request leaves carries no answer, and asked before. *)
LEMMA DroppedRight ==
    ASSUME NEW r \in Requesters, NEW k \in Keys, NEW M, NEW v, NEW w, NEW T
    PROVE  /\ RequestRight(M, v, w, T, k, Dropped(r, k))
           /\ Dropped(r, k).mode # "none" => req[r][k].mode # "none"
<1>1. Dropped(r, k) = NoReq \/
        (Dropped(r, k) = Drop(req[r][k].task, Nothing) /\ req[r][k].mode = "await")
    BY DEF Dropped
<1> QED
    BY <1>1, NoRequestRight

(* The future of Engine::get is dropped. *)
LEMMA CancelFresh ==
    ASSUME FreshInv, NEW c \in Clients, Cancel(c)
    PROVE  FreshStep
<1> DEFINE row == [k \in Keys |-> Dropped(c, k)]
           R == [req EXCEPT ![c] = row]
<1>1. c \in Requesters /\ c \notin Tasks /\ client[c].pc = "busy"
    BY EngineAssumption DEF Requesters, Cancel
<1>2. inv = Still
    BY <1>1 DEF FreshInv, QuietInv, Calm
<1>3. /\ EngineInv /\ Sound(node, req, task) /\ Right(node, req, task, dirty, version, world)
      /\ client \in [Clients -> ClientState] /\ req \in Reqs
    BY <1>2, InFlightRight DEF Sound
<1>4. row \in [Keys -> Request]
    BY <1>1, <1>3, DroppedForms
<1>5. /\ \A k \in Keys : RequestRight(Latest(node, task), version, world, task, k, row[k])
      /\ \A k \in Keys : row[k].mode # "none" => req[c][k].mode # "none"
    BY <1>1, DroppedRight
<1>6. /\ Commit(node, R, task) /\ UNCHANGED <<version, nodes, dirty, world>>
      /\ \A b \in Clients : client'[b] = client[b] \/ client'[b].pc # "got"
    BY <1>3 DEF Cancel, Idle
<1> HIDE DEF row
<1>7. Sound(node, R, task)
    BY <1>1, <1>3, <1>4, PutRow
<1>8. Right(node, R, task, dirty, version, world)
    BY <1>1, <1>3, <1>5, PutRowRight
<1>9. Known(node, R, nodes')
    BY <1>1, <1>3, <1>5, <1>6 DEF Known, FreshInv, Reqs
<1> QED
    BY <1>6, <1>7, <1>8, <1>9, CommitFresh

(* A task goes on, or ends, with nothing else changed. *)
LEMMA OnlyTaskFresh ==
    ASSUME FreshInv, NEW t \in Tasks, task[t].pc \in Active, NEW X \in TaskRecord,
           X.previous = task[t].previous, X.dirty = task[t].dirty, X.abort = task[t].abort,
           X.pc = "verify" => X.previous # None,
           TaskRight(Latest(node, task), version, world, X),
           \A d \in Keys : req[t][d].mode # "none" => PendingRight(world, X, d),
           Commit(node, req, [task EXCEPT ![t] = X]),
           UNCHANGED <<version, nodes, dirty, client, world>>
    PROVE  FreshStep
<1>0. task[t].pc # "free"
    BY DEF Active
<1>1. inv = Still
    BY <1>0, InFlight DEF FreshInv
<1>2. Sound(node, req, task) /\ Right(node, req, task, dirty, version, world)
    BY <1>1, InFlightRight
<1>3. \A r \in Requesters, k \in Keys :
         req[r][k].mode = "await" /\ req[r][k].task = t => X.abort = "no"
    BY <1>2 DEF Right, FlightRight, RequestRight
<1>4. Right(node, req, [task EXCEPT ![t] = X], dirty, version, world)
    BY <1>2, <1>3, PutTaskRight
<1>5. Sound(node, req, [task EXCEPT ![t] = X])
    BY <1>0, <1>2, PutTask
<1>6. Known(node, req, nodes')
    BY DEF FreshInv
<1> QED
    BY <1>4, <1>5, <1>6, CommitFresh

(* wait_on lets t wait on d, which it wants. *)
LEMMA WaitFresh ==
    ASSUME FreshInv, NEW t \in Tasks, task[t].pc \in Active, NEW d \in Keys,
           PendingRight(world, task[t], d), d \in nodes', nodes \subseteq nodes',
           Commit(node, [req EXCEPT ![t][d] = Look], task),
           UNCHANGED <<version, dirty, client, world>>
    PROVE  FreshStep
<1> DEFINE R == [req EXCEPT ![t][d] = Look]
<1>0. task[t].pc # "free" /\ t \in Requesters /\ Look \in Request
    BY DEF Active, Requesters, Look, Request
<1>1. inv = Still
    BY <1>0, InFlight DEF FreshInv
<1>2. Sound(node, req, task) /\ Right(node, req, task, dirty, version, world) /\ req \in Reqs
    BY <1>1, InFlightRight DEF Sound
<1>3. Sound(node, R, task)
    BY <1>0, <1>2, PutReq
<1>4. Right(node, R, task, dirty, version, world)
    BY <1>0, <1>2, NoRequestRight, PutReqRight
<1>5. Known(node, R, nodes')
    BY <1>0, <1>2 DEF Known, FreshInv, Reqs
<1> QED
    BY <1>3, <1>4, <1>5, CommitFresh

(* A task that was aborted ends, and nobody awaits it. *)
LEMMA TaskDroppedFresh ==
    ASSUME FreshInv, NEW t \in Tasks, TaskDropped(t)
    PROVE  FreshStep
<1> DEFINE row == [k \in Keys |-> Dropped(t, k)]
           X == Ended(task[t], Bad(Broken))
           R == [req EXCEPT ![t] = row]
           T == [task EXCEPT ![t] = X]
           M == Latest(node, task)
<1>1. /\ task[t].pc \in Active /\ Commit(node, R, T) /\ task[t].abort # "no"
      /\ UNCHANGED <<version, nodes, dirty, client, world>>
    BY DEF TaskDropped
<1>2. task[t].pc # "free" /\ t \in Requesters
    BY <1>1 DEF Active, Requesters
<1>3. inv = Still
    BY <1>2, InFlight DEF FreshInv
<1>4. /\ EngineInv /\ Sound(node, req, task) /\ req \in Reqs
      /\ Right(node, req, task, dirty, version, world)
    BY <1>3, InFlightRight DEF Sound
<1>5. task[t] \in TaskRecord
    BY <1>1, <1>4, ActiveTask
<1>6. Bad(Broken) \in Results
    BY DEF Bad, Results, AnyOutcome
<1>7. /\ X \in TaskRecord /\ X.key = task[t].key /\ X.pc = "done" /\ X.abort = task[t].abort
      /\ X.previous = task[t].previous /\ X.dirty = task[t].dirty
    BY <1>5, <1>6, EndedType DEF Ended, TaskRecord
<1>8. row \in [Keys -> Request]
    BY <1>2, <1>4, DroppedForms
<1>9. /\ \A k \in Keys : RequestRight(M, version, world, task, k, row[k])
      /\ \A k \in Keys : row[k].mode # "none" => req[t][k].mode # "none"
    BY <1>2, DroppedRight
<1> HIDE DEF row, X
<1>10. \A d \in Keys : req[t][d].mode # "none" => PendingRight(world, task[t], d)
    BY <1>2, <1>4 DEF Right, FlightRight
<1>11. Sound(node, R, task) /\ Right(node, R, task, dirty, version, world)
    BY <1>2, <1>4, <1>8, <1>9, <1>10, PutRow, PutRowRight
<1>12. R[t] = row
    BY <1>2, <1>4 DEF Reqs
<1>13. TaskRight(M, version, world, X)
    BY <1>1, <1>7 DEF TaskRight, Active
<1>14. \A d \in Keys : R[t][d].mode # "none" => PendingRight(world, X, d)
    BY <1>7, <1>9, <1>10, <1>12 DEF PendingRight
<1>15. \A r \in Requesters, k \in Keys :
          R[r][k].mode = "await" /\ R[r][k].task = t => X.abort = "no"
    BY <1>7, <1>11 DEF Right, FlightRight, RequestRight
<1>16. Known(node, R, nodes')
    BY <1>1, <1>4, <1>9 DEF Known, FreshInv, Reqs
<1> HIDE DEF R
<1>17. Right(node, R, T, dirty, version, world)
    BY <1>7, <1>11, <1>13, <1>14, <1>15, PutTaskRight
<1>18. Sound(node, R, T)
    BY <1>2, <1>7, <1>11, PutTask
<1> QED
    BY <1>1, <1>16, <1>17, <1>18, CommitFresh

(* The evaluation that a computation makes is written, over whatever the    *)
(* node holds.                                                              *)
LEMMA PublishFresh ==
    ASSUME FreshInv, Acyclic, NEW t \in Tasks, task[t].pc \in Active, NEW ev \in Evaluated,
           Makes(Latest(node, task), version, world, task[t].key, task[t].previous, ev),
           Publish(t, ev)
    PROVE  FreshStep
<1> DEFINE k == task[t].key
           X == Ended(task[t], Good(ev))
           T == [task EXCEPT ![t] = X]
           N == [node EXCEPT ![k] = Done(ev)]
           M == Latest(node, task)
           M2 == [M EXCEPT ![k] = ev]
           Z == Marked(node, task, dirty)
<1>0. task[t].pc # "free"
    BY DEF Active
<1>1. inv = Still
    BY <1>0, InFlight DEF FreshInv
<1>2. /\ EngineInv /\ Sound(node, req, task) /\ Held(node, req, task)
      /\ Right(node, req, task, dirty, version, world)
      /\ version \in Nat /\ world \in [Leaves -> Values]
      /\ M \in Evaluations /\ NoneLater(M, version)
    BY <1>1, InFlightRight
<1>3. task[t] \in TaskRecord /\ k \in Keys
    BY <1>2, ActiveTask DEF TaskRecord
<1>4. Good(ev) \in Results /\ Done(ev) \in NodeState /\ Done(ev).st = "done" /\ Done(ev).ev = ev
    BY DEF Good, Results, Done, NodeState
<1>5. /\ X \in TaskRecord /\ X.key = k /\ X.pc = "done" /\ X.abort = task[t].abort
      /\ X.previous = task[t].previous /\ X.dirty = task[t].dirty /\ X.result = Good(ev)
    BY <1>3, <1>4, EndedType DEF Ended, TaskRecord
<1>6. /\ Commit(N, req, T) /\ UNCHANGED <<version, nodes, dirty, client, world>>
    BY DEF Publish
<1> HIDE DEF X, M
<1>7. Kept(M, Z, version, world) /\ FlightRight(M, req, task, version, world)
    BY <1>2 DEF Right, M
<1>8. Makes(M, version, world, k, task[t].previous, ev)
    BY DEF M
<1> HIDE DEF k
<1>9. /\ Later(M, M2, version)
      /\ \A q : FromLatest(M, version, world, k, q) => FromLatest(M2, version, world, k, q)
    BY <1>2, <1>3, <1>7, <1>8, MadeLater
<1>10. /\ Kept(M2, Z \ {k}, version, world)
       /\ GoodResult(M2, version, world, k, Good(ev))
    BY <1>2, <1>3, <1>7, <1>8, MadeKept
<1>11. Sound(node, req, T)
    BY <1>0, <1>2, <1>5, PutTask
<1>12. Sound(N, req, T)
    BY <1>3, <1>4, <1>11, PutNode
<1>13. /\ T[t] = X /\ \A u \in Tasks \ {t} : T[u] = task[u]
       /\ N[k] = Done(ev) /\ \A j \in Keys \ {k} : N[j] = node[j]
       /\ M2[k] = ev /\ \A j \in Keys \ {k} : M2[j] = M[j]
       /\ M2 \in Evaluations
    BY <1>2, <1>3 DEF Sound, TaskMap, Nodes, Evaluations
<1> HIDE DEF T, N
<1>14. Latest(N, T) = M2
    <2>1. \A j \in Keys : node[j].st = "running" => node[j].task \in Tasks
        BY <1>2, LatestType
    <2>2. \A j \in Keys : M[j] = LatestOf(node[j], task)
        BY DEF M, Latest
    <2>3. LatestOf(N[k], T) = M2[k]
        BY <1>4, <1>13 DEF LatestOf
    <2>4. \A j \in Keys \ {k} : LatestOf(N[j], T) = M2[j]
        BY <1>5, <1>13, <2>1, <2>2 DEF LatestOf
    <2>5. Latest(N, T) \in [Keys -> Evaluated \cup {None}] /\ M2 \in [Keys -> Evaluated \cup {None}]
        BY <1>12, <1>13, LatestType DEF Evaluations
    <2>6. \A j \in Keys : Latest(N, T)[j] = M2[j]
        BY <2>3, <2>4 DEF Latest
    <2> HIDE DEF M2
    <2> QED
        BY <2>5, <2>6
<1> HIDE DEF M2
<1>15. Z \ {k} \subseteq Marked(N, T, dirty)
    <2>1. \A j \in Keys : node[j].st = "running" => node[j].task \in Tasks
        BY <1>2, LatestType
    <2> QED
        BY <1>5, <1>13, <2>1 DEF Marked
<1>16. Kept(M2, Marked(N, T, dirty), version, world)
    BY <1>10, <1>15, KeptMore
<1>17. FlightRight(M2, req, T, version, world)
    <2>1. ASSUME NEW u \in Tasks, T[u].pc # "free" PROVE TaskRight(M2, version, world, T[u])
        <3>1. CASE u = t
            BY <1>5, <1>10, <1>13, <3>1 DEF TaskRight, Active
        <3>2. CASE u # t
            <4>1. T[u] = task[u] /\ TaskRight(M, version, world, task[u])
                BY <1>7, <1>13, <2>1, <3>2 DEF FlightRight
            <4>2. task[u] \in TaskRecord /\ (task[u].pc = "verify" => task[u].previous # None)
                BY <1>2, <2>1, <4>1, FreeOrRecord DEF Sound, TaskMap, HasPrevious
            <4>3. ASSUME task[u].pc \in Active
                  PROVE  FromLatest(M2, version, world, task[u].key, task[u].previous)
                <5>1. FromLatest(M, version, world, task[u].key, task[u].previous)
                    BY <4>1, <4>3 DEF TaskRight
                <5>2. task[u].key \in Keys
                    BY <4>2 DEF TaskRecord
                <5>3. CASE task[u].key = k
                    BY <1>9, <5>1, <5>3
                <5>4. CASE task[u].key # k
                    BY <1>13, <5>1, <5>2, <5>4 DEF FromLatest, Current
                <5> QED
                    BY <5>3, <5>4
            <4> QED
                BY <1>2, <1>9, <1>13, <4>1, <4>2, <4>3, LaterTask
        <3> QED
            BY <3>1, <3>2
    <2>2. ASSUME NEW u \in Tasks, NEW d \in Keys, T[u].pc # "free", req[u][d].mode # "none"
          PROVE  PendingRight(world, T[u], d)
        <3>1. CASE u = t
            <4>1. PendingRight(world, task[t], d)
                BY <1>0, <1>7, <2>2, <3>1 DEF FlightRight
            <4> QED
                BY <1>5, <1>13, <3>1, <4>1 DEF PendingRight, k
        <3>2. CASE u # t
            BY <1>7, <1>13, <2>2, <3>2 DEF FlightRight
        <3> QED
            BY <3>1, <3>2
    <2>3. ASSUME NEW r \in Requesters, NEW j \in Keys
          PROVE  RequestRight(M2, version, world, T, j, req[r][j])
        <3>1. RequestRight(M, version, world, task, j, req[r][j])
            BY <1>7 DEF FlightRight
        <3>2. req[r][j].mode = "await" => req[r][j].task \in Tasks
            BY <1>2, RequestForms DEF Sound, Reqs
        <3>3. GoodResult(M, version, world, j, req[r][j].result) =>
                 GoodResult(M2, version, world, j, req[r][j].result)
            BY <1>9, LaterGood
        <3> QED
            BY <1>5, <1>13, <3>1, <3>2, <3>3 DEF RequestRight
    <2> QED
        BY <2>1, <2>2, <2>3 DEF FlightRight
<1>18. Right(N, req, T, dirty, version, world)
    BY <1>14, <1>16, <1>17 DEF Right
<1>19. Known(N, req, nodes')
    <2>1. k \in nodes
        BY <1>0 DEF TasksKnown, FreshInv, k
    <2> QED
        BY <1>6, <1>13, <2>1 DEF Known, FreshInv
<1> QED
    BY <1>6, <1>12, <1>18, <1>19, CommitFresh

(* The computations of U are among those of T, of the same keys. *)
SameKeys(T, U) ==
    \A t \in Tasks : U[t].pc # "free" => T[t].pc # "free" /\ U[t].key = T[t].key

LEMMA CommitKeys ==
    ASSUME NEW N, NEW R, NEW T, Commit(N, R, T), SameKeys(task, T)
    PROVE  SameKeys(task, task')
    BY DEF Commit, SameKeys, Free

LEMMA PutTaskKeys ==
    ASSUME NEW T \in TaskMap, SameKeys(task, T), NEW t \in Tasks, T[t].pc # "free",
           NEW X, X.key = T[t].key
    PROVE  SameKeys(task, [T EXCEPT ![t] = X])
    BY DEF TaskMap, SameKeys

(* Only a request spawns a computation, of the key it is for. *)
LEMMA AnswerKeys ==
    ASSUME NEW r \in Requesters, NEW k \in Keys, NEW res \in Results, NEW N, NEW R,
           NEW T \in TaskMap, SameKeys(task, T), r \in Tasks => T[r].pc # "free",
           Answer(r, k, res, N, R, T)
    PROVE  SameKeys(task, task')
<1> DEFINE S == [R EXCEPT ![r][k] = NoReq]
<1>1. CASE Commit(N, S, T)
    BY <1>1, CommitKeys
<1>2. CASE /\ r \in Tasks /\ res # Nothing
           /\ Commit(N, S, [T EXCEPT ![r] = Resumed(@, k, res)])
    <2>1. T[r] \in TaskRecord
        BY <1>2, FreeOrRecord DEF TaskMap
    <2>2. Resumed(T[r], k, res).key = T[r].key
        BY <1>2, <2>1, ResumedHeld
    <2> DEFINE U == [T EXCEPT ![r] = Resumed(T[r], k, res)]
    <2>3. SameKeys(task, U)
        BY <1>2, <2>2, PutTaskKeys
    <2> HIDE DEF S
    <2> QED
        BY <1>2, <2>3, CommitKeys
<1> QED
    BY <1>1, <1>2 DEF Answer, Requesters

LEMMA EvaluateKeys ==
    ASSUME EngineInv, NEW r \in Requesters, NEW k \in Keys, req[r][k].mode # "none",
           \/ LookDone(r, k) \/ AwaitDone(r, k) \/ OtherDone(r, k) \/ DropWaiter(r, k)
    PROVE  SameKeys(task, task')
<1>1. task \in TaskMap /\ SameKeys(task, task) /\ req \in Reqs /\ Sound(node, req, task)
    BY DEF EngineInv, Sound, SameKeys
<1>2. r \in Tasks => task[r].pc # "free"
    BY <1>1 DEF Sound, FreeIsQuiet, NoReqs, NoReq
<1>3. CASE LookDone(r, k)
    <2>1. Good(node[k].ev) \in Results
        BY <1>1, <1>3, NodeForms DEF LookDone, UpToDate, Good, Results, Sound, Nodes
    <2> QED
        BY <1>1, <1>2, <1>3, <2>1, AnswerKeys DEF LookDone
<1>4. CASE AwaitDone(r, k)
    <2> DEFINE t == req[r][k].task
    <2>1. t \in Tasks /\ task[t].pc = "done"
        BY <1>1, <1>4, RequestForms DEF AwaitDone, Finished, Reqs
    <2>2. task[t].result \in Results
        <3>1. task[t] \in TaskRecord
            BY <1>1, <2>1, FreeOrRecord DEF TaskMap
        <3> QED
            BY <3>1 DEF TaskRecord
    <2>3. Answer(r, k, task[t].result, node, req, task) \/ task' = task
        BY <1>4 DEF AwaitDone
    <2> HIDE DEF t
    <2> QED
        BY <1>1, <1>2, <2>2, <2>3, AnswerKeys DEF SameKeys
<1>5. CASE OtherDone(r, k)
    BY <1>1, <1>5, CommitKeys DEF OtherDone
<1>6. CASE DropWaiter(r, k)
    <2> DEFINE t == req[r][k].task
               res == req[r][k].result
               back == [node EXCEPT ![k] = Back(task[t])]
    <2>1. t \in Tasks /\ res \in Results
        BY <1>1, <1>6, RequestForms DEF DropWaiter, Reqs
    <2>2. CASE \E N : Answer(r, k, res, N, req, task)
        BY <1>1, <1>2, <2>1, <2>2, AnswerKeys
    <2>3. CASE \E a \in AbortOf(t) : /\ node[k] = Running(t)
                                     /\ Answer(r, k, res, back, req, [task EXCEPT ![t].abort = a])
        <3>1. PICK a \in AbortOf(t) :
                 Answer(r, k, res, back, req, [task EXCEPT ![t].abort = a])
            BY <2>3
        <3> DEFINE X == [task[t] EXCEPT !.abort = a]
                   T == [task EXCEPT ![t] = X]
        <3>2. a \in {"no", "mid", "yes"}
            BY DEF AbortOf
        <3>3. task[t].pc # "free" /\ task[t] \in TaskRecord
            <4>1. node[k].st = "running" /\ node[k].task = t
                BY <2>3 DEF Running
            <4>2. task[t].pc # "free"
                BY <1>1, <4>1 DEF Sound, RunningHasTask
            <4> QED
                BY <1>1, <2>1, <4>2, FreeOrRecord DEF TaskMap
        <3>4. X \in TaskRecord /\ X.key = task[t].key /\ X.pc = task[t].pc
            BY <3>2, <3>3 DEF TaskRecord
        <3>5. [task EXCEPT ![t].abort = a] = T
            OBVIOUS
        <3> HIDE DEF X
        <3>6. T \in TaskMap /\ SameKeys(task, T)
            BY <1>1, <2>1, <3>3, <3>4, PutTaskKeys DEF TaskMap
        <3>7. r \in Tasks => T[r].pc # "free"
            BY <1>1, <1>2, <2>1, <3>3, <3>4 DEF TaskMap
        <3> HIDE DEF T, back
        <3> QED
            BY <2>1, <3>1, <3>5, <3>6, <3>7, AnswerKeys
    <2> QED
        BY <1>6, <2>2, <2>3 DEF DropWaiter
<1> QED
    BY <1>3, <1>4, <1>5, <1>6

LEMMA RunKeys ==
    ASSUME EngineInv, NEW t \in Tasks, Run(t) \/ Panic(t)
    PROVE  SameKeys(task, task')
<1>1. task[t].pc \in Active
    BY DEF Run, Panic, VerifyNext, Keep, Compute, Write, TaskDropped, Ask, Active
<1>2. task[t] \in TaskRecord /\ task[t].pc # "free" /\ task \in TaskMap /\ SameKeys(task, task)
    BY <1>1, ActiveTask DEF EngineInv, Sound, SameKeys
<1>3. CASE \E N, R : Commit(N, R, task)
    BY <1>2, <1>3, CommitKeys
<1>4. ASSUME NEW X, X.key = task[t].key, \E N, R : Commit(N, R, [task EXCEPT ![t] = X])
      PROVE  SameKeys(task, task')
    <2>1. SameKeys(task, [task EXCEPT ![t] = X])
        BY <1>2, <1>4, PutTaskKeys
    <2> QED
        BY <1>4, <2>1, CommitKeys
<1>5. ASSUME NEW res, \E N, R : Commit(N, R, [task EXCEPT ![t] = Ended(@, res)])
      PROVE  SameKeys(task, task')
    <2>1. Ended(task[t], res).key = task[t].key
        BY <1>2 DEF Ended, TaskRecord
    <2> QED
        BY <1>4, <1>5, <2>1
<1>6. ASSUME NEW ev, Publish(t, ev) PROVE SameKeys(task, task')
    BY <1>5, <1>6 DEF Publish
<1>7. CASE VerifyNext(t)
    BY <1>3, <1>5, <1>7 DEF VerifyNext
<1>8. CASE Keep(t)
    BY <1>6, <1>8 DEF Keep
<1>9. CASE Compute(t)
    <2> DEFINE X == [task[t] EXCEPT !.pc = "write", !.got = NoneGot,
                         !.outcome = Outcome(task[t].key, task[t].got, world)]
    <2>1. Commit(node, req, [task EXCEPT ![t] = X])
        BY <1>9 DEF Compute
    <2>2. X.key = task[t].key
        BY <1>2 DEF TaskRecord
    <2> HIDE DEF X
    <2> QED
        BY <1>4, <2>1, <2>2
<1>10. CASE Write(t)
    BY <1>6, <1>10 DEF Write
<1>11. CASE TaskDropped(t)
    BY <1>5, <1>11 DEF TaskDropped
<1>12. ASSUME NEW d \in Keys, Ask(t, d) PROVE SameKeys(task, task')
    <2>1. Bad(Cycle) \in Results /\ Bad(Cycle) # Nothing
        BY DEF Bad, Results, AnyOutcome, Nothing
    <2>2. Resumed(task[t], d, Bad(Cycle)).key = task[t].key
        BY <1>2, <2>1, ResumedHeld
    <2> QED
        BY <1>3, <1>4, <1>12, <2>2 DEF Ask
<1>13. CASE Panic(t)
    BY <1>5, <1>13 DEF Panic
<1> QED
    BY <1>7, <1>8, <1>9, <1>10, <1>11, <1>12, <1>13 DEF Run

LEMMA TasksKnownStep ==
    ASSUME FreshInv, EngineNext
    PROVE  TasksKnown(task', nodes')
<1>0. EngineInv /\ TasksKnown(task, nodes) /\ Known(node, req, nodes) /\ task \in TaskMap
      /\ req \in Reqs
    BY DEF FreshInv, QuietInv, HeldInv, EngineInv, Sound
<1>1. ASSUME SameKeys(task, task'), nodes \subseteq nodes' PROVE TasksKnown(task', nodes')
    BY <1>0, <1>1 DEF SameKeys, TasksKnown
<1>2. SameKeys(task, task)
    BY DEF SameKeys
<1>3. ASSUME NEW c \in Clients, NEW k \in Keys, Get(c, k) PROVE TasksKnown(task', nodes')
    BY <1>1, <1>2, <1>3 DEF Get
<1>4. ASSUME NEW c \in Clients, Cancel(c) PROVE TasksKnown(task', nodes')
    BY <1>1, <1>2, <1>4, CommitKeys DEF Cancel
<1>5. ASSUME NEW r \in Requesters, NEW k \in Keys, Evaluate(r, k)
      PROVE  TasksKnown(task', nodes')
    <2>1. req[r][k].mode # "none"
        BY <1>5 DEF Evaluate, LookDone, LookRunning, LookSpawn, AwaitDone, OtherDone,
                    DropWaiter, Look
    <2>2. CASE LookDone(r, k) \/ AwaitDone(r, k) \/ OtherDone(r, k) \/ DropWaiter(r, k)
        <3>1. nodes' = nodes
            BY <2>2 DEF LookDone, AwaitDone, OtherDone, DropWaiter
        <3> QED
            BY <1>0, <1>1, <2>1, <2>2, <3>1, EvaluateKeys
    <2>3. CASE LookRunning(r, k)
        BY <1>1, <1>2, <2>3 DEF LookRunning
    <2>4. CASE LookSpawn(r, k)
        <3>1. k \in nodes
            BY <1>0, <2>1 DEF Known
        <3> DEFINE t == CHOOSE u \in Tasks : task[u] = Free
        <3>2. /\ \A u \in Tasks : u # t => task'[u] = task[u]
              /\ t \in Tasks => task'[t].key = k
            BY <1>0, <2>4 DEF LookSpawn, TaskMap
        <3> HIDE DEF t
        <3>3. nodes' = nodes
            BY <2>4 DEF LookSpawn
        <3> QED
            BY <1>0, <3>1, <3>2, <3>3 DEF TasksKnown
    <2> QED
        BY <1>5, <2>2, <2>3, <2>4 DEF Evaluate
<1>6. ASSUME NEW t \in Tasks, Run(t) \/ Panic(t) PROVE TasksKnown(task', nodes')
    <2>1. nodes \subseteq nodes'
        BY <1>6 DEF Run, Panic, VerifyNext, Keep, Publish, Compute, Write, TaskDropped, Ask
    <2> QED
        BY <1>0, <1>1, <1>6, <2>1, RunKeys
<1>7. ASSUME UNCHANGED <<task, nodes>> PROVE TasksKnown(task', nodes')
    BY <1>0, <1>7
<1> QED
    BY <1>3, <1>4, <1>5, <1>6, <1>7 DEF EngineNext, Change, Bump, MarkDirty, NextVersion

-----------------------------------------------------------------------------
(* `run' *)

(* What is waited on is wanted, so that no wait is refused. *)
LEMMA WantedWaits ==
    ASSUME FreshInv, Acyclic, NEW t \in Tasks, task[t].pc \in Active,
           NEW d \in Wants(task[t].key, ScratchIn(world))
    PROVE  ~Reaches(d, task[t].key)
<1>1. task[t].pc # "free"
    BY DEF Active
<1>2. inv = Still
    BY <1>1, InFlight DEF FreshInv
<1>3. world \in [Leaves -> Values] /\ EngineInv
    BY <1>2, InFlightRight
<1>4. task[t].key \in Keys
    BY <1>3, ActiveTask DEF TaskRecord
<1>5. \A j, e \in Keys : WaitsOn(j, e) => e \in Wants(j, ScratchIn(world))
    BY DEF FreshInv, FlightRight, PendingRight, WaitsOn, Pending
<1> QED
    BY <1>3, <1>4, <1>5, NoRefusal

(* What a computation that goes on can rely on. *)
LEMMA RunFacts ==
    ASSUME FreshInv, NEW t \in Tasks, task[t].pc \in Active
    PROVE  /\ task[t] \in TaskRecord /\ task[t].key \in Keys /\ task[t].version = version
           /\ task[t].pc = "verify" => task[t].previous \in Evaluated /\ task[t].previous # None
           /\ version \in Nat /\ world \in [Leaves -> Values]
           /\ Latest(node, task) \in Evaluations
           /\ Kept(Latest(node, task), Marked(node, task, dirty), version, world)
           /\ TaskRight(Latest(node, task), version, world, task[t])
<1>1. task[t].pc # "free"
    BY DEF Active
<1>2. inv = Still /\ task[t].version = version
    BY <1>1, InFlight DEF FreshInv
<1>3. /\ EngineInv /\ version \in Nat /\ world \in [Leaves -> Values]
      /\ Right(node, req, task, dirty, version, world) /\ Latest(node, task) \in Evaluations
    BY <1>2, InFlightRight
<1>4. /\ task[t] \in TaskRecord
      /\ task[t].pc = "verify" => task[t].previous \in Evaluated /\ task[t].previous # None
    BY <1>3, ActiveTask
<1>5. task[t].key \in Keys
    BY <1>4 DEF TaskRecord
<1> QED
    BY <1>1, <1>2, <1>3, <1>4, <1>5 DEF Right, FlightRight

(* The next dependency to verify is one of the value to come. *)
LEMMA VerifyNextFresh ==
    ASSUME FreshInv, Acyclic, NEW t \in Tasks, VerifyNext(t)
    PROVE  FreshStep
<1> DEFINE p == task[t].previous
           n == task[t].at
           d == p.deps[n].dep
           M == Latest(node, task)
           Z == Marked(node, task, dirty)
<1>1. task[t].pc = "verify" /\ task[t].pc \in Active
    BY DEF VerifyNext, Active
<1>2. /\ task[t] \in TaskRecord /\ task[t].key \in Keys /\ p \in Evaluated /\ p # None
      /\ version \in Nat /\ world \in [Leaves -> Values]
      /\ M \in Evaluations /\ Kept(M, Z, version, world)
      /\ TaskRight(M, version, world, task[t])
    BY <1>1, RunFacts
<1>3. EngineInv
    BY DEF FreshInv, QuietInv, HeldInv
<1>4. d \in Keys
    BY <1>3, NextDep
<1>5. n \in DOMAIN p.deps
    <2>1. p.deps \in Deps /\ n \in Nat \ {0} /\ n <= Len(p.deps)
        BY <1>2 DEF TaskRecord, Evaluated, VerifyNext
    <2> QED
        BY <2>1, DepKeys
<1>6. /\ Explained(M, world, task[t].key, p)
      /\ \A i \in DOMAIN p.deps : i < n => Agrees(M, version, p.deps[i])
    BY <1>1, <1>2 DEF TaskRight
<1>7. d \in Wants(task[t].key, ScratchIn(world)) /\ M[d] # None
    BY <1>2, <1>5, <1>6, NextIsWanted
<1>8. ~Reaches(d, task[t].key)
    BY <1>1, <1>7, WantedWaits
<1>9. /\ Commit(node, [req EXCEPT ![t][d] = Look], task)
      /\ UNCHANGED <<version, nodes, dirty, client, world>>
    BY <1>8 DEF VerifyNext
<1>10. d \in nodes
    <2>1. LatestOf(node[d], task) # None
        BY <1>4, <1>7 DEF Latest
    <2>2. node[d].st # "empty"
        BY <2>1 DEF LatestOf
    <2> QED
        BY <1>4, <2>2 DEF Known, FreshInv
<1>11. PendingRight(world, task[t], d)
    BY <1>1, <1>5, <1>7 DEF PendingRight
<1> HIDE DEF d
<1> QED
    BY <1>1, <1>4, <1>9, <1>10, <1>11, WaitFresh

(* Nothing changed: what there was is the value. *)
LEMMA KeepFresh ==
    ASSUME FreshInv, Acyclic, NEW t \in Tasks, Keep(t)
    PROVE  FreshStep
<1> DEFINE p == task[t].previous
           k == task[t].key
           ev == [p EXCEPT !.verified_at = task[t].version]
           M == Latest(node, task)
           Z == Marked(node, task, dirty)
<1>1. task[t].pc = "verify" /\ task[t].pc \in Active
    BY DEF Keep, Active
<1>2. /\ task[t] \in TaskRecord /\ k \in Keys /\ p \in Evaluated /\ p # None
      /\ version \in Nat /\ world \in [Leaves -> Values] /\ task[t].version = version
      /\ M \in Evaluations /\ Kept(M, Z, version, world)
      /\ TaskRight(M, version, world, task[t])
    BY <1>1, RunFacts
<1>3. /\ ev \in Evaluated /\ ev.verified_at = version /\ ev.outcome = p.outcome
      /\ ev.changed_at = p.changed_at /\ ev.deps = p.deps
    BY <1>2 DEF Evaluated, Versions
<1>4. Publish(t, ev)
    BY DEF Keep
<1> HIDE DEF ev
<1>5. AllAgree(M, version, p.deps)
    <2>1. p.deps \in Deps /\ task[t].at \in Nat \ {0} /\ task[t].at > Len(p.deps)
        BY <1>2 DEF TaskRecord, Evaluated, Keep
    <2>2. \A i \in DOMAIN p.deps : i < task[t].at
        BY <2>1, DepKeys
    <2> QED
        BY <1>1, <1>2, <2>2 DEF TaskRight, AllAgree
<1>6. Explained(M, world, k, p) /\ FromLatest(M, version, world, k, p)
    BY <1>1, <1>2 DEF TaskRight
<1>7. p.outcome = ScratchIn(world)[k] /\ Complete(k, p.deps, ScratchIn(world))
    BY <1>2, <1>5, <1>6, NoneChanged
<1>8. Makes(M, version, world, k, p, ev)
    BY <1>2, <1>3, <1>5, <1>6, <1>7 DEF Makes, ChangedFrom
<1> QED
    BY <1>1, <1>3, <1>4, <1>8, PublishFresh

(* compute has read all it wants, and what it read are the values. *)
LEMMA ComputeFresh ==
    ASSUME FreshInv, Acyclic, NEW t \in Tasks, Compute(t)
    PROVE  FreshStep
<1> DEFINE k == task[t].key
           o == Outcome(k, task[t].got, world)
           X == [task[t] EXCEPT !.pc = "write", !.got = NoneGot, !.outcome = o]
           M == Latest(node, task)
           S == DepSet(task[t].deps)
<1>1. task[t].pc = "compute" /\ task[t].pc \in Active
    BY DEF Compute, Active
<1>2. /\ task[t] \in TaskRecord /\ k \in Keys /\ world \in [Leaves -> Values]
      /\ TaskRight(M, version, world, task[t])
    BY <1>1, RunFacts
<1>3. task[t].deps \in Deps /\ S \in SUBSET Keys
    BY <1>2, DepKeys DEF TaskRecord
<1>4. /\ task[t].got = Only(ScratchIn(world), S)
      /\ Asked(k, task[t].deps, ScratchIn(world)) /\ AllAgree(M, version, task[t].deps)
    BY <1>1, <1>2 DEF TaskRight
<1>5. DOMAIN task[t].got = S
    BY <1>4 DEF Only
<1>6. Wants(k, task[t].got) \subseteq S
    BY <1>5 DEF Compute, ToAsk
<1>7. Complete(k, task[t].deps, ScratchIn(world))
    BY <1>4, <1>6 DEF Complete
<1>8. o = ScratchIn(world)[k]
    BY <1>2, <1>3, <1>4, <1>7, CompleteValue
<1>9. o \in AnyOutcome
    BY <1>2, EngineAssumption DEF TaskRecord
<1>10. /\ X \in TaskRecord /\ X.key = k /\ X.pc = "write" /\ X.outcome = o
       /\ X.previous = task[t].previous /\ X.dirty = task[t].dirty
       /\ X.abort = task[t].abort /\ X.deps = task[t].deps
    BY <1>2, <1>9, NoneGotType DEF TaskRecord, Active
<1>11. /\ Commit(node, req, [task EXCEPT ![t] = X])
       /\ UNCHANGED <<version, nodes, dirty, client, world>>
    BY DEF Compute
<1>12. \A d \in Keys : req[t][d].mode = "none"
    BY DEF Compute, Pending
<1> HIDE DEF X, o
<1>13. TaskRight(M, version, world, X)
    BY <1>1, <1>2, <1>4, <1>7, <1>8, <1>10 DEF TaskRight
<1> QED
    BY <1>1, <1>10, <1>11, <1>12, <1>13, OnlyTaskFresh

(* The value is written, and changed if it was another before. *)
LEMMA WriteFresh ==
    ASSUME FreshInv, Acyclic, NEW t \in Tasks, Write(t)
    PROVE  FreshStep
<1> DEFINE p == task[t].previous
           k == task[t].key
           ev == [outcome |-> task[t].outcome, changed_at |-> ChangedAt(task[t]),
                  verified_at |-> task[t].version, deps |-> task[t].deps]
           M == Latest(node, task)
<1>1. task[t].pc = "write" /\ task[t].pc \in Active
    BY DEF Write, Active
<1>2. /\ task[t] \in TaskRecord /\ k \in Keys /\ version \in Nat
      /\ task[t].version = version /\ TaskRight(M, version, world, task[t])
    BY <1>1, RunFacts
<1>3. /\ task[t].outcome = ScratchIn(world)[k] /\ FromLatest(M, version, world, k, p)
      /\ Complete(k, task[t].deps, ScratchIn(world)) /\ AllAgree(M, version, task[t].deps)
    BY <1>1, <1>2 DEF TaskRight
<1>4. ChangedAt(task[t]) = ChangedFrom(p, version, world, k)
    BY <1>2, <1>3 DEF ChangedAt, ChangedFrom
<1>5. ChangedAt(task[t]) \in Nat
    <2>1. p # None => p.changed_at \in Nat
        BY <1>2 DEF TaskRecord, Evaluated, Versions
    <2> QED
        BY <1>2, <2>1 DEF ChangedAt
<1>6. ev \in Evaluated
    BY <1>2, <1>5 DEF TaskRecord, Evaluated, Versions
<1>7. Publish(t, ev)
    BY DEF Write
<1>8. Makes(M, version, world, k, p, ev)
    BY <1>2, <1>3, <1>4 DEF Makes
<1> HIDE DEF ev
<1> QED
    BY <1>1, <1>6, <1>7, <1>8, PublishFresh

(* Ctx::get of a key that the value depends on. *)
LEMMA AskFresh ==
    ASSUME FreshInv, Acyclic, NEW t \in Tasks, NEW d \in Keys, Ask(t, d)
    PROVE  FreshStep
<1> DEFINE k == task[t].key
           M == Latest(node, task)
           S == DepSet(task[t].deps)
<1>1. task[t].pc = "compute" /\ task[t].pc \in Active
    BY DEF Ask, Active
<1>2. /\ task[t] \in TaskRecord /\ k \in Keys /\ world \in [Leaves -> Values]
      /\ TaskRight(M, version, world, task[t])
    BY <1>1, RunFacts
<1>3. S \in SUBSET Keys
    BY <1>2, DepKeys DEF TaskRecord
<1>4. task[t].got = Only(ScratchIn(world), S)
    BY <1>1, <1>2 DEF TaskRight
<1>5. d \in Wants(k, task[t].got)
    BY DEF Ask, ToAsk
<1>6. d \in Wants(k, ScratchIn(world))
    BY <1>2, <1>3, <1>4, <1>5, PartlyWanted
<1>7. ~Reaches(d, k)
    BY <1>1, <1>6, WantedWaits
<1>8. /\ Commit(node, [req EXCEPT ![t][d] = Look], task) /\ nodes' = nodes \cup {d}
      /\ UNCHANGED <<version, dirty, client, world>>
    BY <1>7 DEF Ask
<1>9. PendingRight(world, task[t], d)
    BY <1>1, <1>5, <1>6 DEF PendingRight
<1> QED
    BY <1>1, <1>8, <1>9, WaitFresh

LEMMA RunFresh ==
    ASSUME FreshInv, Acyclic, NEW t \in Tasks, Run(t)
    PROVE  FreshStep
    BY VerifyNextFresh, KeepFresh, ComputeFresh, WriteFresh, TaskDroppedFresh, AskFresh DEF Run

-----------------------------------------------------------------------------
(* The world, at rest *)

(* Nothing is in flight. *)
Resting ==
    /\ \A t \in Tasks : task[t] = Free
    /\ \A r \in Requesters : req[r] = NoReqs
    /\ \A c \in Clients : client[c].pc # "busy"

LEMMA RestingFlight ==
    ASSUME Resting, NEW M, NEW v, NEW w
    PROVE  FlightRight(M, req, task, v, w)
<1>1. Free.pc = "free" /\ \A k \in Keys : NoReqs[k] = NoReq
    BY DEF Free, NoReqs
<1>2. \A k \in Keys : RequestRight(M, v, w, task, k, NoReq)
    BY NoRequestRight
<1> QED
    BY <1>1, <1>2 DEF Resting, FlightRight

(* Nothing was verified at a version to come. *)
LEMMA NoneCurrent ==
    ASSUME NEW M \in Evaluations, NEW v \in Nat, NoneLater(M, v), NEW k \in Keys
    PROVE  ~Current(M, v + 1, k)
<1> SUFFICES ASSUME M[k] # None PROVE M[k].verified_at # v + 1
    BY DEF Current
<1>1. M[k].verified_at \in Nat
    BY EvaluationForms DEF Evaluations
<1> QED
    BY <1>1 DEF NoneLater

(* What explains an evaluation of k explains it when another leaf changed. *)
LEMMA ExplainedStill ==
    ASSUME NEW M, NEW u \in [Leaves -> Values], NEW w \in [Leaves -> Values],
           NEW k \in Keys, k \in Leaves => u[k] = w[k],
           NEW ev \in Evaluated, Explained(M, u, k, ev)
    PROVE  Explained(M, w, k, ev)
<1>1. PICK got \in [DepSet(ev.deps) -> AnyOutcome] : ExplainedBy(M, u, k, ev, got)
    BY DEF Explained
<1>2. DepSet(ev.deps) \in SUBSET Keys
    BY EvaluationForms, DepKeys
<1>3. got \in Gots
    BY <1>2 DEF Gots
<1>4. Outcome(k, got, u) = Outcome(k, got, w)
    BY <1>3, ComputeAssumption
<1>5. ExplainedBy(M, w, k, ev, got)
    BY <1>1, <1>4 DEF ExplainedBy
<1> QED
    BY <1>5 DEF Explained

(* A leaf changes: only its own evaluation may now be wrong. *)
LEMMA ChangeFresh ==
    ASSUME FreshInv, Quiet, NEW l \in Leaves, NEW x \in Values, Change(l, x)
    PROVE  /\ Kept(Latest(node, task), Marked(node, task, dirty) \cup {l}, version + 1, world')
           /\ ClientsRight'
<1> DEFINE M == Latest(node, task)
           Z == Marked(node, task, dirty)
<1>1. inv = Still /\ Resting
    BY DEF Change, AtRest, Resting
<1>2. /\ version \in Nat /\ world \in [Leaves -> Values]
      /\ M \in Evaluations /\ NoneLater(M, version) /\ Kept(M, Z, version, world)
    BY <1>1, InFlightRight DEF Right
<1>3. world' \in [Leaves -> Values] /\ \A k \in Leaves : k # l => world'[k] = world[k]
    BY <1>2 DEF Change
<1> HIDE DEF M
<1>4. ASSUME NEW k \in Keys, M[k] # None
      PROVE  /\ UpNow(M, version + 1, world', k)
             /\ k \notin Z \cup {l} => Explained(M, world', k, M[k])
    <2>1. UpNow(M, version + 1, world', k)
        BY <1>2, NoneCurrent DEF UpNow
    <2>2. ASSUME k \notin Z \cup {l} PROVE Explained(M, world', k, M[k])
        <3>1. Explained(M, world, k, M[k]) /\ M[k] \in Evaluated
            BY <1>2, <1>4, <2>2 DEF Kept, Evaluations
        <3>2. k \in Leaves => world[k] = world'[k]
            BY <1>3, <2>2
        <3> QED
            BY <1>2, <1>3, <3>1, <3>2, ExplainedStill
    <2> QED
        BY <2>1, <2>2
<1>5. Kept(M, Z \cup {l}, version + 1, world')
    BY <1>4 DEF Kept
<1>6. ClientsRight'
    BY <1>1 DEF Change, Resting, ClientsRight, Idle
<1> QED
    BY <1>5, <1>6 DEF M

(* A new version: nothing is of it, and everything is as right as it was. *)
LEMMA NextVersionFresh ==
    ASSUME FreshInv, inv = Still
    PROVE  Kept(Latest(node, task), Marked(node, task, dirty), version + 1, world)
<1> DEFINE M == Latest(node, task)
           Z == Marked(node, task, dirty)
<1>1. /\ version \in Nat /\ M \in Evaluations /\ NoneLater(M, version)
      /\ Kept(M, Z, version, world)
    BY InFlightRight DEF Right
<1> HIDE DEF M
<1>2. \A k \in Keys : UpNow(M, version + 1, world, k)
    BY <1>1, NoneCurrent DEF UpNow
<1>3. Kept(M, Z, version + 1, world)
    BY <1>1, <1>2 DEF Kept
<1> QED
    BY <1>3 DEF M

(* The flag is set: if there was no node there is nothing to mark. *)
LEMMA MarkDirtyFresh ==
    ASSUME FreshInv, MarkDirty
    PROVE  Kept(Latest(node, task), Marked(node, task, dirty'), version, world)
<1> DEFINE M == Latest(node, task)
           Z == Marked(node, task, dirty)
           l == inv.key
<1>1. /\ inv.pc = "bumped" /\ dirty' = [dirty EXCEPT ![l] = @ \/ inv.found]
      /\ (inv.found <=> l \in nodes)
    BY DEF MarkDirty, FreshInv
<1>2. inv # Still /\ AnnouncedVersion = version /\ AnnouncedKeys = {l}
    BY <1>1 DEF Still, AnnouncedVersion, AnnouncedKeys
<1>3. Kept(M, Z \cup {l}, version, world)
    BY <1>2 DEF FreshInv
<1>4. dirty \in [Keys -> BOOLEAN] /\ l \in Keys /\ Known(node, req, nodes)
    BY <1>1, EngineAssumption
    DEF FreshInv, QuietInv, HeldInv, EngineInv, RestOK, InvState, Still
<1>5. CASE l \in nodes
    <2>1. \A k \in Keys : dirty[k] \/ k = l => dirty'[k]
        BY <1>1, <1>4, <1>5
    <2>2. Z \cup {l} \subseteq Marked(node, task, dirty')
        BY <1>4, <2>1 DEF Marked
    <2> QED
        BY <1>3, <2>2, KeptMore
<1>6. CASE l \notin nodes
    <2>1. node[l].st = "empty"
        BY <1>4, <1>6 DEF Known
    <2>2. M[l] = None
        BY <1>4, <2>1 DEF Latest, LatestOf
    <2>3. Z \subseteq Marked(node, task, dirty')
        BY <1>1, <1>4, <1>6 DEF Marked
    <2> QED
        BY <1>3, <2>2, <2>3 DEF Kept
<1> QED
    BY <1>5, <1>6

(* Changes of the world, invalidate and next_version. *)
LEMMA WorldFresh ==
    ASSUME FreshInv, Quiet, EngineNext,
           (\E l \in Leaves, v \in Values : Change(l, v)) \/ Bump \/ MarkDirty \/ NextVersion
    PROVE  FreshInv'
<1>0. /\ version \in Nat /\ QuietInv /\ Known(node, req, nodes)
      /\ Kept(Latest(node, task), Marked(node, task, dirty) \cup AnnouncedKeys,
              AnnouncedVersion, world)
      /\ ClientsRight
    BY DEF FreshInv, QuietInv, HeldInv, EngineInv, RestOK, Versions
<1>1. QuietInv'
    BY <1>0, QuietInvStep
<1>2. TasksKnown(task', nodes')
    BY TasksKnownStep
<1>3. UNCHANGED <<node, req, task, nodes>>
    BY DEF Change, Bump, MarkDirty, NextVersion
<1>4. Known(node', req', nodes')
    BY <1>0, <1>3
<1>5. Resting
    <2>1. CASE Bump \/ MarkDirty
        <3>1. inv # Still
            BY <2>1 DEF Bump, MarkDirty, Still
        <3> QED
            BY <1>0, <3>1 DEF QuietInv, Calm, Resting
    <2>2. CASE (\E l \in Leaves, v \in Values : Change(l, v)) \/ NextVersion
        BY <2>2 DEF Change, NextVersion, AtRest, Resting
    <2> QED
        BY <2>1, <2>2
<1>6. FlightRight(Latest(node', task'), req', task', version', world')
    BY <1>3, <1>5, RestingFlight
<1>7. SUFFICES /\ inv'.pc = "bumped" => (inv'.found <=> inv'.key \in nodes')
               /\ Kept(Latest(node, task), Marked(node, task, dirty') \cup AnnouncedKeys',
                       AnnouncedVersion', world')
               /\ ClientsRight'
    BY <1>1, <1>2, <1>3, <1>4, <1>6 DEF FreshInv
<1>8. ASSUME NEW l \in Leaves, NEW v \in Values, Change(l, v)
      PROVE  /\ inv'.pc = "changed" /\ AnnouncedVersion' = version + 1 /\ AnnouncedKeys' = {l}
             /\ dirty' = dirty
    BY <1>8 DEF Change, AnnouncedVersion, AnnouncedKeys, Still
<1>9. CASE \E l \in Leaves, v \in Values : Change(l, v)
    BY <1>8, <1>9, ChangeFresh
<1>10. CASE Bump
    <2>1. /\ inv' = [pc |-> "bumped", key |-> inv.key, found |-> inv.key \in nodes]
          /\ version' = version + 1 /\ inv.pc = "changed"
          /\ UNCHANGED <<world, dirty, client>>
        BY <1>10 DEF Bump
    <2>2. AnnouncedVersion' = AnnouncedVersion /\ AnnouncedKeys' = AnnouncedKeys
        BY <2>1 DEF AnnouncedVersion, AnnouncedKeys, Still
    <2>3. ClientsRight'
        BY <1>0, <2>1 DEF ClientsRight
    <2> QED
        BY <1>0, <1>3, <2>1, <2>2, <2>3
<1>11. CASE MarkDirty
    <2>1. inv' = Still /\ UNCHANGED <<world, version, client>>
        BY <1>11 DEF MarkDirty
    <2>2. AnnouncedVersion' = version /\ AnnouncedKeys' = {} /\ inv'.pc # "bumped"
        BY <2>1 DEF AnnouncedVersion, AnnouncedKeys, Still
    <2>3. ClientsRight'
        BY <1>0, <2>1 DEF ClientsRight
    <2>4. Marked(node, task, dirty') \cup AnnouncedKeys' = Marked(node, task, dirty')
        BY <2>2
    <2> QED
        BY <1>11, <2>1, <2>2, <2>3, <2>4, MarkDirtyFresh
<1>12. CASE NextVersion
    <2>1. /\ inv = Still /\ inv' = Still /\ version' = version + 1
          /\ UNCHANGED <<world, dirty, client>>
        BY <1>12 DEF NextVersion
    <2>2. AnnouncedVersion' = version + 1 /\ AnnouncedKeys' = {} /\ inv'.pc # "bumped"
        BY <2>1 DEF AnnouncedVersion, AnnouncedKeys, Still
    <2>3. ClientsRight'
        BY <1>0, <2>1 DEF ClientsRight
    <2>4. Marked(node, task, dirty') \cup AnnouncedKeys' = Marked(node, task, dirty)
        BY <2>1, <2>2
    <2> QED
        BY <2>1, <2>2, <2>3, <2>4, NextVersionFresh
<1> QED
    BY <1>9, <1>10, <1>11, <1>12

-----------------------------------------------------------------------------
(* Every step *)

LEMMA FreshInvStep ==
    ASSUME Quiet, ~MayPanic, Acyclic
    PROVE  FreshInv /\ [EngineNext]_engineVars => FreshInv'
<1> SUFFICES ASSUME FreshInv, [EngineNext]_engineVars PROVE FreshInv'
    OBVIOUS
<1>0. QuietInv'
    BY QuietInvStep DEF FreshInv
<1>1. ASSUME EngineNext, FreshStep, inv = Still, inv' = inv PROVE FreshInv'
    <2>1. TasksKnown(task', nodes')
        BY <1>1, TasksKnownStep
    <2>2. inv'.pc # "bumped" /\ AnnouncedVersion' = version' /\ AnnouncedKeys' = {}
        BY <1>1 DEF AnnouncedVersion, AnnouncedKeys, Still
    <2>3. Marked(node', task', dirty') \cup AnnouncedKeys' = Marked(node', task', dirty')
        BY <2>2
    <2> QED
        BY <1>0, <1>1, <2>1, <2>2, <2>3 DEF FreshInv, FreshStep, Right
<1>2. ASSUME NEW c \in Clients, NEW k \in Keys, Get(c, k) PROVE FreshInv'
    <2>1. EngineNext /\ inv = Still /\ inv' = inv
        BY <1>2 DEF EngineNext, Get
    <2> QED
        BY <1>1, <1>2, <2>1, GetFresh
<1>3. ASSUME NEW r \in Requesters, NEW k \in Keys, Evaluate(r, k) PROVE FreshInv'
    <2>1. req[r][k].mode # "none" /\ inv' = inv
        BY <1>3 DEF Evaluate, LookDone, LookRunning, LookSpawn, AwaitDone, OtherDone,
                    DropWaiter, Look
    <2>2. EngineNext /\ inv = Still
        BY <1>3, <2>1, InFlight DEF EngineNext, FreshInv
    <2>3. FreshStep
        BY <1>3, LookDoneFresh, LookOnFresh, SpawnFresh, AwaitDoneFresh, DropWaiterFresh
        DEF Evaluate
    <2> QED
        BY <1>1, <2>1, <2>2, <2>3
<1>4. ASSUME NEW c \in Clients, Cancel(c) PROVE FreshInv'
    <2>1. EngineNext /\ inv = Still /\ inv' = inv
        BY <1>4 DEF EngineNext, Cancel, FreshInv, QuietInv, Calm
    <2> QED
        BY <1>1, <1>4, <2>1, CancelFresh
<1>5. ASSUME NEW t \in Tasks, Run(t) PROVE FreshInv'
    <2>1. task[t].pc # "free" /\ inv' = inv
        BY <1>5 DEF Run, VerifyNext, Keep, Publish, Compute, Write, TaskDropped, Ask, Active
    <2>2. EngineNext /\ inv = Still
        BY <1>5, <2>1, InFlight DEF EngineNext, FreshInv
    <2> QED
        BY <1>1, <1>5, <2>1, <2>2, RunFresh
<1>6. ASSUME NEW t \in Tasks, Panic(t) PROVE FreshInv'
    BY <1>6 DEF Panic
<1>7. CASE (\E l \in Leaves, v \in Values : Change(l, v)) \/ Bump \/ MarkDirty \/ NextVersion
    <2>1. EngineNext
        BY <1>7 DEF EngineNext
    <2> QED
        BY <1>7, <2>1, WorldFresh
<1>8. CASE UNCHANGED engineVars
    <2>1. UNCHANGED <<version, nodes, node, dirty, task, req, client, world, inv>>
        BY <1>8 DEF engineVars
    <2>2. AnnouncedVersion' = AnnouncedVersion /\ AnnouncedKeys' = AnnouncedKeys
        BY <2>1 DEF AnnouncedVersion, AnnouncedKeys
    <2>3. ClientsRight'
        BY <2>1 DEF ClientsRight, FreshInv
    <2> QED
        BY <1>0, <2>1, <2>2, <2>3 DEF FreshInv
<1> QED
    BY <1>2, <1>3, <1>4, <1>5, <1>6, <1>7, <1>8 DEF EngineNext

(* A new engine holds nothing. *)
LEMMA FreshStart == EngineInit => FreshInv
<1> SUFFICES ASSUME EngineInit PROVE FreshInv
    OBVIOUS
<1>1. QuietInv
    BY QuietStart
<1>2. /\ \A r \in Requesters : req[r] = NoReqs
      /\ \A t \in Tasks : task[t] = Free
      /\ \A k \in Keys : node[k].st = "empty"
      /\ \A c \in Clients : client[c].pc = "idle"
      /\ inv = Still /\ inv.pc # "bumped"
    BY DEF EngineInit, Empty, Idle, Still
<1>3. Resting
    BY <1>2 DEF Resting
<1>4. Known(node, req, nodes) /\ TasksKnown(task, nodes)
    BY <1>2 DEF Known, TasksKnown, NoReqs, NoReq, Free
<1>5. Kept(Latest(node, task), Marked(node, task, dirty) \cup AnnouncedKeys,
           AnnouncedVersion, world)
    BY <1>2 DEF Kept, Latest, LatestOf
<1>6. ClientsRight
    BY <1>2 DEF ClientsRight
<1> QED
    BY <1>1, <1>2, <1>3, <1>4, <1>5, <1>6, RestingFlight DEF FreshInv

(***************************************************************************)
(* If the world changes only while nothing is in flight, no computation    *)
(* panics and none depends on itself: Engine::get returns what computing   *)
(* everything anew would, whatever of it was verified, kept, shared with   *)
(* other requests, given up or begun again on the way.                     *)
(***************************************************************************)
THEOREM EngineFreshResult ==
    ASSUME Quiet, ~MayPanic, Acyclic
    PROVE  EngineSpec => []FreshResult
<1>1. FreshInv => FreshResult
    BY DEF FreshInv, ClientsRight, FreshResult, Scratch
<1> QED
    BY <1>1, FreshStart, FreshInvStep, PTL DEF EngineSpec

(***************************************************************************)
(* Under the same conditions CurrentDeps of spec/Fjfj/Engine.lean holds: a *)
(* node verified at the current version observed the changed_at that its   *)
(* dependencies have now, so that verifying it again finds nothing to do.  *)
(***************************************************************************)
THEOREM EngineCurrentDeps ==
    ASSUME Quiet, ~MayPanic, Acyclic
    PROVE  EngineSpec => []CurrentDeps
<1>1. FreshInv => CurrentDeps
    <2> SUFFICES ASSUME FreshInv, NEW k \in Keys, node[k].st = "done", inv = Still,
                        node[k].ev.verified_at = version,
                        NEW i \in DOMAIN node[k].ev.deps,
                        node[node[k].ev.deps[i].dep].st = "done"
                 PROVE  node[node[k].ev.deps[i].dep].ev.changed_at = node[k].ev.deps[i].seen
        BY Zenon DEF CurrentDeps
    <2> DEFINE M == Latest(node, task)
               e == node[k].ev.deps[i]
    <2>1. M \in Evaluations /\ Kept(M, Marked(node, task, dirty), version, world)
        BY InFlightRight DEF Right
    <2>2. M[k] = node[k].ev
        BY DEF Latest, LatestOf
    <2>3. node[k].ev \in Evaluated
        BY InFlightRight, NodeForms DEF Sound, Nodes
    <2>4. M[k] # None /\ e.dep \in Keys
        BY <2>2, <2>3, EvaluationForms, DepKeys
    <2>5. Agrees(M, version, e)
        BY <2>1, <2>2, <2>4 DEF Kept, UpNow, Current, AllAgree
    <2>6. M[e.dep] = node[e.dep].ev
        BY <2>4 DEF Latest, LatestOf
    <2> QED
        BY <2>5, <2>6 DEF Agrees
<1> QED
    BY <1>1, FreshStart, FreshInvStep, PTL DEF EngineSpec
=============================================================================
