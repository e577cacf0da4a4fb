---- MODULE ModuleGraphProofs ----
(* Proofs about ModuleGraph: for any module files and any overrides, whatever    *)
(* names and however many versions there are.                                    *)
EXTENDS ModuleGraph, WellFoundedInduction, TLAPS

-----------------------------------------------------------------------------
(* Least and greatest numbers.                                                   *)

NatLess == {p \in Nat \X Nat : p[1] < p[2]}

(* The order of the naturals has no endless descent. *)
LEMMA NatLessWellFounded == IsWellFoundedOn(NatLess, Nat)
<1>1. IsWellFoundedOn({p \in Nat \X Nat : p[1] < p[2]}, Nat)
  BY NatLessThanWellFounded DEF OpToRel
<1> QED BY <1>1, Zenon DEF NatLess

(* Min is the least member of a set of numbers. *)
LEMMA MinIsLeast ==
  ASSUME NEW S \in SUBSET Nat, S # {}
  PROVE  Min(S) \in S /\ \A y \in S : Min(S) =< y
<1>1. PICK x \in S : \A y \in S : ~ (<<y, x>> \in NatLess)
  BY NatLessWellFounded, WFMin
<1>2. \A y \in S : ~(y < x)
  BY <1>1 DEF NatLess
<1>3. \A y \in S : x =< y
  BY <1>2
<1> QED BY <1>3, Zenon DEF Min

(* Max is the greatest member of a bounded set of numbers. *)
LEMMA MaxIsGreatest ==
  ASSUME NEW n \in Nat, NEW S \in SUBSET (1..n), S # {}
  PROVE  Max(S) \in S /\ \A y \in S : Max(S) >= y
<1> DEFINE D == {m \in Nat : \E y \in S : m = n - y}
<1>1. D \in SUBSET Nat
  OBVIOUS
<1>2. \A y \in S : n - y \in D
  <2>1. \A y \in S : n - y \in Nat
    OBVIOUS
  <2> QED BY <2>1
<1>3. PICK d \in D : \A e \in D : d =< e
  <2> HIDE DEF D
  <2>1. D # {}
    BY <1>2
  <2> QED BY <1>1, <2>1, MinIsLeast
<1>4. PICK x \in S : d = n - x
  BY <1>3
<1>5. ASSUME NEW y \in S PROVE x >= y
  <2>1. n - x =< n - y
    BY <1>2, <1>3, <1>4
  <2>2. x \in 1..n /\ y \in 1..n
    OBVIOUS
  <2> HIDE DEF D
  <2> QED BY <2>1, <2>2
<1> QED BY <1>5, Zenon DEF Max

-----------------------------------------------------------------------------
(* Types of keys and edges.                                                      *)

InputsOK == file \in FileSets /\ override \in OverrideSets

(* The empty version is the last, and Root is no key. *)
LEMMA Versions ==
  /\ EMPTY \in Nat /\ EMPTY \in 1..EMPTY /\ 1..EMPTY \subseteq Nat
  /\ Root \in Modules /\ Root \notin Keys /\ Root.name = None /\ Root.version = EMPTY
  /\ \A k \in Modules : k.version \in 1..EMPTY /\ (k # Root => k.name \in Names)
  /\ \A k, m \in Modules : k.name = m.name /\ k.version = m.version => k = m
  /\ \A k \in Modules : k.name = None => k = Root
BY ModulesAssumption DEF EMPTY, Root, Keys, Modules

(* What an override makes of an edge is a module, and only the root has its name. *)
LEMMA OverriddenEdge ==
  ASSUME InputsOK, NEW d \in Keys
  PROVE  /\ ApplyOverrides(d) \in Modules
         /\ ApplyOverrides(d) # Root => ApplyOverrides(d).name # RootName
<1>1. d.name \in Names /\ d.version \in 1..EMPTY
  BY DEF Keys
<1>2. CASE d.name = RootName
  BY <1>2, Versions DEF ApplyOverrides
<1>3. CASE d.name # RootName /\ Is(d.name, "path")
  BY <1>3, <1>1, Versions DEF ApplyOverrides, Keys, Modules, Is
<1>4. CASE d.name # RootName /\ ~Is(d.name, "path") /\ Is(d.name, "pin")
  <2>1. override[d.name].version \in 1..MaxVersion
    BY <1>4, <1>1, InputsAssumption DEF InputsOK, Is
  <2>2. override[d.name].version \in 1..EMPTY
    BY <2>1, ModulesAssumption DEF EMPTY
  <2>3. ApplyOverrides(d) = [d EXCEPT !.version = override[d.name].version]
    BY <1>4 DEF ApplyOverrides
  <2> QED BY <2>2, <2>3, <1>1, <1>4 DEF Keys, Modules
<1>5. CASE d.name # RootName /\ ~Is(d.name, "path") /\ ~Is(d.name, "pin")
  BY <1>5, <1>1 DEF ApplyOverrides, Modules
<1> QED BY <1>2, <1>3, <1>4, <1>5

(* The edges of a module that was read lead to modules. *)
LEMMA EdgesAreModules ==
  ASSUME InputsOK, NEW k \in Modules, file[k] # None
  PROVE  /\ Deps(k) \in SUBSET Modules /\ Nodeps(k) \in SUBSET Modules
         /\ \A d \in Deps(k) \cup Nodeps(k) : d # Root => d.name # RootName
<1>1. file[k] \in ModuleFiles
  BY InputsAssumption DEF InputsOK
<1>2. file[k].deps \subseteq Keys /\ file[k].nodeps \subseteq Keys
  BY <1>1 DEF ModuleFiles
<1> QED BY <1>2, OverriddenEdge DEF Deps, Nodeps

-----------------------------------------------------------------------------
(* The inductive invariant                                                       *)

(* Every module in the graph was read, and the root is there under no other name. *)
ReadOK ==
  \A k \in graph : /\ file[k] # None
                   /\ k # Root => k.name # RootName /\ (k.version = EMPTY => Is(k.name, "path"))

(* The edges of the modules already looked at: what is not in the graph, the last *)
(* round did not have, and it is noted.                                          *)
Looked ==
  \A k \in graph \ horizon :
    /\ Deps(k) \subseteq graph
    /\ \A d \in Nodeps(k) : d \in graph \/ (d.name \in missed /\ d.name \notin names)

AllowedThere ==
  \A n \in Names : Is(n, "multiple") =>
    \A v \in override[n].versions : [name |-> n, version |-> v] \in graph

(* Whatever is closed has all that was found, and the names of the last round.   *)
Within ==
  \A S \in SUBSET Modules :
    Root \in S /\ Closed(S) => graph \subseteq S /\ \A n \in names : \E m \in S : NameOf(m) = n

Walking == phase \in {"first", "second", "done"}

DiscoveryInv ==
  /\ InputsOK /\ GraphTypeOK /\ ReadOK /\ Within
  /\ phase \notin {"start", "failed"} => Root \in graph
  /\ phase \in {"start", "discover"} => resolved = {}
  /\ phase = "discover" => Looked
  /\ Walking => Closed(graph) /\ AllowedThere

(* What is wrong with no module that a walk has passed, but for its name. *)
Fine(k) ==
  /\ ~(Is(k.name, "multiple") /\ Target(k) = EMPTY)
  /\ ~ \E c, d \in file[k].deps : c # d /\ ResolveDep(ApplyOverrides(c)) = ResolveDep(ApplyOverrides(d))

(* The edges of both walks, and those of the first only. *)
HardEdges(k) == {ResolveDep(d) : d \in Deps(k)}
SoftEdges(k) == {ResolveDep(d) : d \in Nodeps(k) \cap graph}

(* The highest version there is, of a module that has one version. *)
Highest(k) == Is(k.name, "multiple") \/ \A m \in graph : m.name = k.name => m.version =< k.version

(* Reached and passed. *)
Walked ==
  /\ known = resolved \cup toVisit /\ resolved \cap toVisit = {}
  /\ Root \in known /\ known \subseteq graph
  /\ \A k \in known : Highest(k)
  /\ \A k \in resolved : Fine(k) /\ HardEdges(k) \subseteq known
  /\ phase = "first" => \A k \in resolved : SoftEdges(k) \subseteq known
  /\ phase = "done" => toVisit = {}

(* The second walk stays where the first one was, and goes only where it must. *)
SecondWalk ==
  /\ \E S \in SUBSET graph : known \subseteq S /\ \A k \in S : Fine(k) /\ HardEdges(k) \subseteq S
  /\ \A S \in SUBSET Modules : Root \in S /\ (\A k \in S : HardEdges(k) \subseteq S) => known \subseteq S

GraphInv ==
  /\ DiscoveryInv
  /\ Walking => Walked
  /\ phase \in {"second", "done"} => SecondWalk
  /\ OneVersionIsSelected /\ SecondWalkSucceeds

-----------------------------------------------------------------------------
(* What depends on the inputs and the graph only.                                *)

(* The edges of a module change with the inputs only. *)
LEMMA EdgesKept ==
  ASSUME UNCHANGED inputs
  PROVE  /\ \A n, kind : Is(n, kind)' = Is(n, kind)
         /\ \A k : Deps(k)' = Deps(k) /\ Nodeps(k)' = Nodeps(k)
         /\ \A k : Target(k)' = Target(k)
         /\ \A k : NameOf(k)' = NameOf(k)
<1>1. file' = file /\ override' = override
  BY DEF inputs
<1>2. \A n, kind : Is(n, kind)' = Is(n, kind)
  BY <1>1 DEF Is
<1>3. \A d : ApplyOverrides(d)' = ApplyOverrides(d)
  BY <1>1, <1>2 DEF ApplyOverrides
<1>4. \A k : Deps(k)' = Deps(k) /\ Nodeps(k)' = Nodeps(k)
  BY <1>1, <1>3 DEF Deps, Nodeps
<1>5. \A k : Target(k)' = Target(k)
  BY <1>1, <1>2 DEF Target
<1>6. \A k : NameOf(k)' = NameOf(k)
  BY DEF NameOf
<1> QED BY <1>2, <1>4, <1>5, <1>6

(* What is closed changes with the inputs only. *)
LEMMA ClosedKept ==
  ASSUME UNCHANGED inputs, NEW S
  PROVE  Closed(S)' = Closed(S)
BY EdgesKept DEF Closed

(* What an edge is resolved to changes with the inputs and the graph only. *)
LEMMA ResolvedKept ==
  ASSUME UNCHANGED <<inputs, graph>>
  PROVE  /\ \A d : ResolveDep(d)' = ResolveDep(d)
         /\ \A k : Fine(k)' = Fine(k) /\ HardEdges(k)' = HardEdges(k)
         /\ \A k : SoftEdges(k)' = SoftEdges(k) /\ Highest(k)' = Highest(k)
<1>1. file' = file /\ override' = override /\ graph' = graph
  BY DEF inputs
<1>2. \A k : Target(k)' = Target(k) /\ Deps(k)' = Deps(k) /\ Nodeps(k)' = Nodeps(k)
  BY EdgesKept
<1>3. \A n, g : Group(n, g)' = Group(n, g)
  BY <1>1, <1>2 DEF Group
<1>4. \A n, g : Selected(n, g)' = Selected(n, g)
  BY <1>3 DEF Selected
<1>5. \A d : ResolveDep(d)' = ResolveDep(d)
  BY <1>1, <1>2, <1>4 DEF ResolveDep
<1>6. \A d : ApplyOverrides(d)' = ApplyOverrides(d)
  BY <1>1, EdgesKept DEF ApplyOverrides
<1>7. \A k : Fine(k)' = Fine(k)
  BY <1>1, <1>2, <1>5, <1>6, EdgesKept DEF Fine
<1>8. \A k : HardEdges(k)' = HardEdges(k) /\ SoftEdges(k)' = SoftEdges(k)
  BY <1>1, <1>2, <1>5 DEF HardEdges, SoftEdges
<1>9. \A k : Highest(k)' = Highest(k)
  BY <1>1, EdgesKept DEF Highest
<1> QED BY <1>5, <1>7, <1>8, <1>9
-----------------------------------------------------------------------------
(* Discovery                                                                     *)

(* A record of a failure is not None. *)
LEMMA FailureIsOne ==
  ASSUME NEW p \in Phases, NEW w \in Whys
  PROVE  [at |-> p, why |-> w] # None
BY ModulesAssumption

(* The invariant holds before anything is read. *)
LEMMA GraphInvInit == GraphInit => GraphInv
<1> SUFFICES ASSUME GraphInit PROVE GraphInv
  OBVIOUS
<1> USE DEF GraphInit
<1>1. InputsOK /\ ReadOK /\ Within
  BY DEF InputsOK, ReadOK, Within
<1>2. GraphTypeOK
  BY DEF GraphTypeOK, Phases
<1>3. OneVersionIsSelected /\ SecondWalkSucceeds /\ ~Walking /\ resolved = {}
  BY DEF OneVersionIsSelected, SecondWalkSucceeds, Walking
<1> QED BY <1>1, <1>2, <1>3 DEF GraphInv, DiscoveryInv

(* A round begins with the root, and with names that whatever is closed has. *)
LEMMA BeginKeeps ==
  ASSUME GraphInv, UNCHANGED <<inputs, selection>>, NEW now, Begin(now), Go("discover"),
         now \subseteq Names \cup {None}, phase \in {"start", "discover"},
         \A S \in SUBSET Modules : Root \in S /\ Closed(S) => \A n \in now : \E m \in S : NameOf(m) = n
  PROVE  GraphInv'
<1> USE DEF Begin, Go, selection
<1>1. InputsOK'
  BY DEF GraphInv, DiscoveryInv, InputsOK, inputs
<1>2. GraphTypeOK'
  <2>1. GraphTypeOK /\ {Root} \in SUBSET Modules
    BY Versions DEF GraphInv, DiscoveryInv
  <2>2. known' = known /\ toVisit' = toVisit /\ resolved' = {}
    BY DEF GraphInv, DiscoveryInv
  <2> QED BY <2>1, <2>2 DEF GraphTypeOK, Phases
<1>3. ReadOK'
  BY <1>1, InputsAssumption DEF InputsOK, ReadOK
<1>4. Within'
  BY ClosedKept, EdgesKept DEF Within
<1>5. (Root \in graph)' /\ Looked'
  BY DEF Looked
<1>6. ~Walking' /\ phase' = "discover" /\ resolved' = {}
  BY DEF Walking, GraphInv, DiscoveryInv
<1>7. OneVersionIsSelected' /\ SecondWalkSucceeds'
  BY DEF GraphInv, OneVersionIsSelected, SecondWalkSucceeds
<1> QED BY <1>1, <1>2, <1>3, <1>4, <1>5, <1>6, <1>7 DEF GraphInv, DiscoveryInv

(* A step that fails before the walks. *)
LEMMA FailKeeps ==
  ASSUME GraphInv, UNCHANGED <<inputs, graph, horizon, missed, selection>>, NEW why, Fail(why),
         phase \in {"start", "discover"}, why \in {"override", "module file", "versions"},
         names' \subseteq Names \cup {None},
         \A S \in SUBSET Modules : Root \in S /\ Closed(S) => \A n \in names' : \E m \in S : NameOf(m) = n
  PROVE  GraphInv'
<1> USE DEF Fail, selection
<1>1. InputsOK'
  BY DEF GraphInv, DiscoveryInv, InputsOK, inputs
<1>2. failure' # None
  BY FailureIsOne DEF Phases, Whys
<1>3. GraphTypeOK'
  BY <1>2 DEF GraphInv, DiscoveryInv, GraphTypeOK, Phases
<1>4. ReadOK'
  BY EdgesKept DEF GraphInv, DiscoveryInv, InputsOK, ReadOK, inputs
<1>5. Within'
  BY ClosedKept, EdgesKept DEF GraphInv, DiscoveryInv, Within
<1>6. ~Walking' /\ phase' = "failed"
  BY DEF Walking
<1>7. OneVersionIsSelected' /\ SecondWalkSucceeds'
  BY DEF OneVersionIsSelected, SecondWalkSucceeds
<1> QED BY <1>1, <1>3, <1>4, <1>5, <1>6, <1>7 DEF GraphInv, DiscoveryInv

(* Start: the overrides are refused, or the first round begins. *)
LEMMA StartKeeps == ASSUME GraphInv, Start PROVE GraphInv'
<1>1. CASE Fail("override") /\ UNCHANGED discovery
  BY <1>1, FailKeeps DEF Start, discovery, GraphInv, DiscoveryInv, GraphTypeOK, Within
<1>2. CASE Go("discover") /\ Begin({RootName})
  <2>1. \A S \in SUBSET Modules : Root \in S => \E m \in S : NameOf(m) = RootName
    BY DEF NameOf
  <2> QED BY <1>2, <2>1, BeginKeeps, ModulesAssumption DEF Start
<1> QED BY <1>1, <1>2 DEF Start

(* ReadHorizon: what is read next lies in whatever is closed, and what it leaves  *)
(* out is noted.                                                                 *)
LEMMA ReadHorizonKeeps == ASSUME GraphInv, ReadHorizon PROVE GraphInv'
<1> DEFINE wanted == (UNION {Deps(k) : k \in horizon}) \ graph
           maybe == (UNION {Nodeps(k) : k \in horizon}) \ graph
           next == wanted \cup {d \in maybe : d.name \in names}
           skipped == {d \in maybe : d.name \notin names}
<1> USE DEF GraphInv, DiscoveryInv
<1>0. phase = "discover" /\ UNCHANGED <<inputs, names, selection>>
  BY DEF ReadHorizon
<1>1. Root \in graph /\ horizon \subseteq graph /\ graph \subseteq Modules
  BY <1>0 DEF GraphTypeOK
<1>2. \A k \in horizon : /\ Deps(k) \in SUBSET Modules /\ Nodeps(k) \in SUBSET Modules
                         /\ \A d \in Deps(k) \cup Nodeps(k) : d # Root => d.name # RootName
  BY <1>1, EdgesAreModules DEF ReadOK
<1>3. next \subseteq Modules /\ skipped \subseteq Modules /\ Root \notin next /\ Root \notin skipped
  BY <1>1, <1>2
<1>4. \A d \in next : d.name # RootName
  BY <1>2, <1>3
<1>5. CASE ~ \A k \in next : Readable(k)
  <2>1. Fail("module file") /\ UNCHANGED <<graph, horizon, missed>>
    BY <1>5 DEF ReadHorizon
  <2> HIDE DEF GraphInv, DiscoveryInv
  <2> QED BY <2>1, <1>0, FailKeeps DEF GraphInv, DiscoveryInv, GraphTypeOK, Within
<1>6. CASE \A k \in next : Readable(k)
  <2>1. /\ graph' = graph \cup next /\ horizon' = next /\ Go(phase)
        /\ \E early \in SUBSET (skipped \cap wanted) :
               missed' = missed \cup {d.name : d \in (skipped \ wanted) \cup early}
    BY <1>6 DEF ReadHorizon
  <2>2. PICK early \in SUBSET (skipped \cap wanted) :
               missed' = missed \cup {d.name : d \in (skipped \ wanted) \cup early}
    BY <2>1
  <2>3. InputsOK'
    BY <1>0 DEF InputsOK, inputs
  <2>4. missed' \subseteq Names
    <3>1. \A d \in skipped : d.name \in Names
      BY <1>3, Versions
    <3> HIDE DEF skipped, wanted
    <3> QED BY <2>2, <3>1 DEF GraphTypeOK
  <2>5. GraphTypeOK'
    <3> HIDE DEF next
    <3> QED BY <2>1, <2>4, <1>0, <1>1, <1>3 DEF GraphTypeOK, Go, selection
  <2>6. ReadOK'
    <3>1. \A k \in next : file[k] # None /\ (k.version = EMPTY => Is(k.name, "path"))
      BY <1>6 DEF Readable
    <3> HIDE DEF next
    <3> QED BY <3>1, <2>1, <1>0, <1>4, EdgesKept DEF ReadOK, inputs
  <2>7. Within'
    <3> SUFFICES ASSUME NEW S \in SUBSET Modules, Root \in S, Closed(S)
                 PROVE  next \subseteq S
      BY <2>1, <1>0, ClosedKept, EdgesKept DEF Within
    <3>1. horizon \subseteq S /\ \A n \in names : \E m \in S : NameOf(m) = n
      BY <1>1 DEF Within
    <3>2. wanted \subseteq S
      BY <3>1 DEF Closed
    <3>3. \A d \in maybe : d.name \in names => d \in S
      BY <3>1 DEF Closed
    <3> QED BY <3>2, <3>3
  <2>8. Looked'
    <3> SUFFICES ASSUME NEW k \in graph' \ horizon'
                 PROVE  /\ Deps(k) \subseteq graph'
                        /\ \A d \in Nodeps(k) : d \in graph' \/ (d.name \in missed' /\ d.name \notin names)
      BY <1>0, EdgesKept DEF Looked
    <3>1. CASE k \in graph \ horizon
      BY <3>1, <1>0, <2>1, <2>2 DEF Looked
    <3>2. CASE k \in horizon
      <4>1. Deps(k) \subseteq graph'
        BY <2>1, <3>2
      <4>2. ASSUME NEW d \in Nodeps(k), d \notin graph' PROVE d.name \in missed' /\ d.name \notin names
        <5>1. d \in maybe /\ d \notin next
          BY <3>2, <2>1, <4>2
        <5>2. d \in skipped \ wanted
          BY <5>1
        <5> QED BY <5>2, <2>2
      <4> QED BY <4>1, <4>2
    <3> QED BY <3>1, <3>2, <2>1
  <2>9. (Root \in graph)' /\ phase' = "discover" /\ ~Walking' /\ resolved' = {}
    BY <1>0, <1>1, <2>1 DEF Go, Walking, selection
  <2>10. OneVersionIsSelected' /\ SecondWalkSucceeds'
    BY <2>1 DEF Go, OneVersionIsSelected, SecondWalkSucceeds
  <2> QED BY <2>3, <2>5, <2>6, <2>7, <2>8, <2>9, <2>10
<1> QED BY <1>5, <1>6
-----------------------------------------------------------------------------
(* What an edge is resolved to                                                   *)

(* The target of a module: none of the allowed versions, or the lowest of those  *)
(* that are not below it.                                                        *)
LEMMA TargetIsLowest ==
  ASSUME InputsOK, NEW k \in Modules
  PROVE  /\ Target(k) \in 1..EMPTY /\ Target(k) >= k.version
         /\ ~Is(k.name, "multiple") => Target(k) = EMPTY
         /\ Is(k.name, "multiple") =>
              /\ override[k.name].versions \subseteq 1..EMPTY
              /\ Target(k) \in override[k.name].versions \cup {EMPTY}
              /\ \A v \in override[k.name].versions : v >= k.version => Target(k) =< v
<1>0. k.version \in 1..EMPTY /\ EMPTY \in Nat /\ EMPTY \in 1..EMPTY
  BY Versions
<1>1. CASE ~Is(k.name, "multiple")
  BY <1>0, <1>1 DEF Target
<1>2. CASE Is(k.name, "multiple")
  <2> DEFINE T == {EMPTY} \cup {v \in override[k.name].versions : v >= k.version}
  <2>1. override[k.name].versions \subseteq 1..EMPTY
    BY <1>2, InputsAssumption DEF InputsOK, Is
  <2>2. T \in SUBSET Nat /\ T # {} /\ \A v \in T : v \in 1..EMPTY /\ v >= k.version
    BY <2>1, <1>0
  <2>3. Min(T) \in T /\ \A y \in T : Min(T) =< y
    BY <2>2, MinIsLeast
  <2>4. Target(k) = Min(T)
    BY <1>2 DEF Target
  <2>5. Target(k) \in 1..EMPTY /\ Target(k) >= k.version
    <3> HIDE DEF T
    <3> QED BY <2>2, <2>3, <2>4
  <2> QED BY <1>2, <2>1, <2>3, <2>4, <2>5
<1> QED BY <1>1, <1>2

(* The version selected of a group is the highest in it. *)
LEMMA SelectedIsHighest ==
  ASSUME graph \subseteq Modules, NEW n, NEW g, Group(n, g) # {}
  PROVE  /\ Selected(n, g) \in 1..EMPTY
         /\ \E m \in graph : m.name = n /\ Target(m) = g /\ m.version = Selected(n, g)
         /\ \A m \in graph : m.name = n /\ Target(m) = g => m.version =< Selected(n, g)
<1> DEFINE V == {k.version : k \in Group(n, g)}
<1>1. Group(n, g) \subseteq graph /\ \A m \in Group(n, g) : m.name = n /\ Target(m) = g
  BY DEF Group
<1>2. V \in SUBSET (1..EMPTY) /\ V # {} /\ EMPTY \in Nat
  BY <1>1, Versions
<1>3. Max(V) \in V /\ \A y \in V : Max(V) >= y
  BY <1>2, MaxIsGreatest
<1>4. Selected(n, g) = Max(V)
  BY DEF Selected
<1>5. PICK m \in Group(n, g) : m.version = Max(V)
  BY <1>3
<1>6. \A k \in graph : k.name = n /\ Target(k) = g => k.version \in V
  BY DEF Group
<1>7. \A k \in graph : k.name = n /\ Target(k) = g => k.version =< Max(V)
  <2>1. \A v \in V : v =< Max(V)
    <3> HIDE DEF V
    <3> QED BY <1>2, <1>3
  <2> HIDE DEF V
  <2> QED BY <2>1, <1>6
<1> HIDE DEF V
<1> QED BY <1>1, <1>2, <1>3, <1>4, <1>5, <1>7

Groups(d) == {g \in {Target(k) : k \in {m \in graph : m.name = d.name}} : g >= d.version}

(* An edge to a module of the graph is resolved to the lowest selected version of *)
(* a group that allows it, which is one of the graph.                            *)
LEMMA ResolvedIsThere ==
  ASSUME InputsOK, graph \subseteq Modules, NEW d \in graph
  PROVE  /\ ResolveDep(d) \in graph /\ ResolveDep(d).name = d.name
         /\ \E g \in Groups(d) : /\ Target(ResolveDep(d)) = g
                                 /\ ResolveDep(d).version = Selected(d.name, g)
         /\ \A g \in Groups(d) : ResolveDep(d).version =< Selected(d.name, g)
<1> DEFINE V == {Selected(d.name, g) : g \in Groups(d)}
<1>0. d \in Modules /\ d.version \in 1..EMPTY
  BY Versions
<1>1. Target(d) \in Groups(d)
  BY <1>0, TargetIsLowest DEF Groups
<1>2. \A g \in Groups(d) : Group(d.name, g) # {}
  BY DEF Groups, Group
<1>3. V \in SUBSET Nat /\ V # {}
  BY <1>1, <1>2, SelectedIsHighest, Versions
<1>4. Min(V) \in V /\ \A y \in V : Min(V) =< y
  BY <1>3, MinIsLeast
<1>5. ResolveDep(d) = [d EXCEPT !.version = Min(V)]
  <2>1. Groups(d) # {}
    BY <1>1
  <2> QED BY <2>1 DEF ResolveDep, Groups
<1>6. PICK g \in Groups(d) : Min(V) = Selected(d.name, g)
  BY <1>4
<1>7. PICK m \in graph : m.name = d.name /\ Target(m) = g /\ m.version = Selected(d.name, g)
  BY <1>2, SelectedIsHighest
<1>8. ResolveDep(d) = m
  <2>1. ResolveDep(d).name = d.name /\ ResolveDep(d).version = Min(V) /\ ResolveDep(d) \in [name : Names \cup {None}, version : 1..EMPTY]
    <3>1. Min(V) \in 1..EMPTY
      BY <1>6, <1>7, Versions
    <3>2. d \in [name : Names \cup {None}, version : 1..EMPTY]
      BY <1>0, Versions DEF Modules, Keys, Root
    <3> HIDE DEF V
    <3> QED BY <1>5, <3>1, <3>2
  <2>2. m \in [name : Names \cup {None}, version : 1..EMPTY]
    BY Versions DEF Modules, Keys, Root
  <2> HIDE DEF V
  <2> QED BY <2>1, <2>2, <1>6, <1>7
<1>9. \A h \in Groups(d) : ResolveDep(d).version =< Selected(d.name, h)
  <2>1. ResolveDep(d).version = Min(V)
    BY <1>6, <1>7, <1>8
  <2> QED BY <2>1, <1>4
<1> QED BY <1>6, <1>7, <1>8, <1>9

(* Of a module that has one version, an edge gets the highest in the graph. *)
LEMMA ResolvedIsHighest ==
  ASSUME InputsOK, graph \subseteq Modules, NEW d \in graph
  PROVE  Highest(ResolveDep(d))
<1> SUFFICES ASSUME ~Is(d.name, "multiple"), NEW m \in graph, m.name = d.name
             PROVE  m.version =< ResolveDep(d).version
  BY ResolvedIsThere DEF Highest
<1>1. PICK g \in Groups(d) : ResolveDep(d).version = Selected(d.name, g)
  BY ResolvedIsThere
<1>2. g = EMPTY /\ Target(m) = EMPTY
  BY TargetIsLowest DEF Groups
<1>3. Group(d.name, g) # {}
  BY <1>2 DEF Group
<1> QED BY <1>1, <1>2, <1>3, SelectedIsHighest
-----------------------------------------------------------------------------
(* The end of discovery, and the walks                                           *)

(* EndRound: another round, the first walk, or a version that is not there.  No  *)
(* edge is lost when the rounds end: what was skipped has a name nobody has.     *)
LEMMA EndRoundKeeps == ASSUME GraphInv, EndRound PROVE GraphInv'
<1> DEFINE now == {NameOf(k) : k \in graph}
<1>0. phase = "discover" /\ horizon = {} /\ UNCHANGED inputs
  BY DEF EndRound
<1>1. InputsOK /\ GraphTypeOK /\ Root \in graph /\ graph \subseteq Modules
  BY <1>0 DEF GraphInv, DiscoveryInv, GraphTypeOK
<1>2. now \subseteq Names \cup {None}
  BY <1>1, Versions, ModulesAssumption DEF NameOf
<1>3. \A S \in SUBSET Modules : Root \in S /\ Closed(S) => \A n \in now : \E m \in S : NameOf(m) = n
  BY DEF GraphInv, DiscoveryInv, Within
<1>4. CASE Progressed(now)
  <2>1. Begin(now) /\ Go("discover") /\ UNCHANGED selection
    BY <1>0, <1>4 DEF EndRound
  <2> HIDE DEF now
  <2> QED BY <2>1, <1>0, <1>2, <1>3, BeginKeeps
<1>5. CASE ~Progressed(now) /\ Fail("versions") /\ UNCHANGED selection
  <2>1. names' = now /\ UNCHANGED <<graph, horizon, missed>>
    BY <1>5 DEF EndRound
  <2> HIDE DEF now
  <2> QED BY <2>1, <1>0, <1>2, <1>3, <1>5, FailKeeps
<1>6. CASE ~Progressed(now) /\ AllowedThere /\ Walk("first")
  <2>1. names' = now /\ UNCHANGED <<graph, horizon, missed>>
    BY <1>6 DEF EndRound
  <2>2. Closed(graph)
    <3> SUFFICES ASSUME NEW k \in graph
                 PROVE  /\ Deps(k) \subseteq graph
                        /\ \A d \in Nodeps(k) : (\E m \in graph : NameOf(m) = d.name) => d \in graph
      BY DEF Closed
    <3>1. Looked
      BY <1>0 DEF GraphInv, DiscoveryInv
    <3>2. \A d \in Nodeps(k) : d \in graph \/ d.name \in missed
      BY <3>1, <1>0 DEF Looked
    <3>3. missed \cap now = {}
      BY <1>6 DEF Progressed
    <3>4. \A m \in graph : NameOf(m) \notin missed
      BY <3>3
    <3> HIDE DEF now
    <3> QED BY <3>1, <3>2, <3>4, <1>0 DEF Looked
  <2>3. InputsOK' /\ ReadOK' /\ Closed(graph)' /\ AllowedThere'
    <3>1. InputsOK'
      BY <1>0, <1>1 DEF InputsOK, inputs
    <3>2. ReadOK'
      BY <1>0, <2>1, EdgesKept DEF GraphInv, DiscoveryInv, ReadOK, inputs
    <3>3. Closed(graph)'
      BY <1>0, <2>1, <2>2, EdgesKept DEF Closed
    <3>4. AllowedThere'
      BY <1>0, <1>6, <2>1, EdgesKept DEF AllowedThere, inputs
    <3> QED BY <3>1, <3>2, <3>3, <3>4
  <2>4. Within'
    <3> HIDE DEF now
    <3> QED BY <1>0, <1>3, <2>1, ClosedKept, EdgesKept DEF GraphInv, DiscoveryInv, Within
  <2>5. GraphTypeOK'
    <3>1. {Root} \in SUBSET Modules
      BY Versions
    <3> HIDE DEF now
    <3> QED BY <1>0, <1>1, <1>2, <1>6, <2>1, <3>1 DEF GraphTypeOK, Walk, Go, Phases
  <2>6. Walked'
    <3>1. Highest(Root)'
      BY <1>1, <2>1, Versions DEF Highest
    <3> QED BY <3>1, <1>1, <1>6, <2>1 DEF Walked, Walk, Go
  <2>7. phase' = "first"
    BY <1>6 DEF Walk, Go
  <2>8. OneVersionIsSelected' /\ SecondWalkSucceeds'
    BY <1>6 DEF GraphInv, OneVersionIsSelected, SecondWalkSucceeds, Walk, Go
  <2> QED BY <1>1, <2>1, <2>3, <2>4, <2>5, <2>6, <2>7, <2>8 DEF GraphInv, DiscoveryInv
<1> QED BY <1>4, <1>5, <1>6 DEF EndRound, AllowedThere

(* The edges a walk follows lead into the graph, to selected versions. *)
LEMMA EdgesAreThere ==
  ASSUME GraphInv, Walking, NEW k \in graph
  PROVE  /\ Edges(k) = HardEdges(k) \cup (IF phase = "first" THEN SoftEdges(k) ELSE {})
         /\ Edges(k) \subseteq graph /\ \A e \in Edges(k) : Highest(e)
<1>1. InputsOK /\ graph \subseteq Modules /\ Deps(k) \subseteq graph
  BY DEF GraphInv, DiscoveryInv, GraphTypeOK, Closed
<1>2. Edges(k) = HardEdges(k) \cup (IF phase = "first" THEN SoftEdges(k) ELSE {})
  BY DEF Edges, HardEdges, SoftEdges
<1>3. \A e \in Edges(k) : \E d \in graph : e = ResolveDep(d)
  BY <1>1 DEF Edges
<1> QED BY <1>1, <1>2, <1>3, ResolvedIsThere, ResolvedIsHighest

(* A module a walk comes to has been read, and no other version of it passed: a   *)
(* walk only fails on what is not allowed, or asked for twice.                   *)
LEMMA WrongIsNotFine ==
  ASSUME GraphInv, Walking, NEW k \in toVisit
  PROVE  /\ k \in graph
         /\ Wrong(k) \in {"not allowed", "twice", "nothing"}
         /\ Fine(k) = (Wrong(k) = "nothing")
<1>1. Walked /\ ReadOK /\ graph \subseteq Modules
  BY DEF GraphInv, DiscoveryInv, GraphTypeOK
<1>2. k \in graph
  BY <1>1 DEF Walked
<1>3. ASSUME ~Is(k.name, "multiple"), NEW r \in resolved, NameOf(r) = NameOf(k) PROVE FALSE
  <2>1. r \in graph /\ r # k /\ Highest(r) /\ Highest(k)
    BY <1>1 DEF Walked
  <2>2. r # Root /\ k # Root
    BY <2>1, <1>1, <1>2, <1>3 DEF NameOf, ReadOK
  <2>3. r.name = k.name
    BY <2>2, <1>3 DEF NameOf
  <2>4. r.version =< k.version /\ k.version =< r.version
    BY <2>1, <2>3, <1>2, <1>3 DEF Highest
  <2>5. r.version \in 1..EMPTY /\ k.version \in 1..EMPTY
    BY <2>1, <1>1, <1>2, Versions
  <2>6. r.version = k.version
    BY <2>4, <2>5
  <2> QED BY <2>1, <2>3, <2>6, <1>1, <1>2, Versions
<1>4. CASE Is(k.name, "multiple") /\ Target(k) = EMPTY
  BY <1>2, <1>4 DEF Wrong, Fine
<1>5. CASE ~(Is(k.name, "multiple") /\ Target(k) = EMPTY)
  <2>1. Wrong(k) = IF \E c, d \in file[k].deps :
                        c # d /\ ResolveDep(ApplyOverrides(c)) = ResolveDep(ApplyOverrides(d))
                   THEN "twice" ELSE "nothing"
    BY <1>2, <1>3, <1>5 DEF Wrong
  <2> QED BY <1>2, <1>5, <2>1 DEF Fine
<1> QED BY <1>2, <1>4, <1>5
(* What a step of a walk leaves alone. *)
LEMMA WalkLeaves ==
  ASSUME GraphInv, UNCHANGED <<inputs, discovery>>
  PROVE  InputsOK' /\ ReadOK' /\ Within' /\ (Walking => Closed(graph)' /\ AllowedThere')
<1>0. file' = file /\ override' = override /\ UNCHANGED <<names, graph>>
  BY DEF inputs, discovery
<1>1. InputsOK' /\ ReadOK'
  BY <1>0, EdgesKept DEF GraphInv, DiscoveryInv, InputsOK, ReadOK
<1>2. Within'
  BY <1>0, ClosedKept, EdgesKept DEF GraphInv, DiscoveryInv, Within
<1>3. Walking => Closed(graph)' /\ AllowedThere'
  BY <1>0, EdgesKept DEF GraphInv, DiscoveryInv, Closed, AllowedThere
<1> QED BY <1>1, <1>2, <1>3

(* Visit: in the second walk there is nothing wrong. *)
LEMMA VisitKeeps == ASSUME GraphInv, NEW k \in Modules, Visit(k) PROVE GraphInv'
<1>0. /\ phase \in {"first", "second"} /\ k \in toVisit /\ UNCHANGED <<inputs, discovery>>
      /\ Walking /\ Walked /\ GraphTypeOK /\ UNCHANGED <<inputs, graph>>
  BY DEF Visit, Walking, GraphInv, DiscoveryInv, discovery
<1>1. /\ k \in graph /\ Wrong(k) \in {"not allowed", "twice", "nothing"}
      /\ Fine(k) = (Wrong(k) = "nothing")
  BY <1>0, WrongIsNotFine
<1>2. InputsOK' /\ ReadOK' /\ Within' /\ Closed(graph)' /\ AllowedThere'
  BY <1>0, WalkLeaves
<1>3. CASE Wrong(k) # "nothing"
  <2>1. Fail(Wrong(k)) /\ UNCHANGED selection
    BY <1>3 DEF Visit
  <2>2. phase = "first"
    <3>1. phase = "second" => Fine(k)
      BY <1>0 DEF GraphInv, SecondWalk, Walked
    <3> QED BY <3>1, <1>0, <1>1, <1>3
  <2>3. failure' # None
    <3>1. phase \in Phases /\ Wrong(k) \in Whys
      BY <2>2, <1>1, <1>3 DEF Phases, Whys
    <3> QED BY <3>1, <2>1, FailureIsOne DEF Fail
  <2>4. GraphTypeOK'
    BY <1>0, <2>1, <2>3 DEF GraphTypeOK, Fail, Phases, discovery, selection
  <2>5. OneVersionIsSelected' /\ SecondWalkSucceeds'
    <3>1. failure' = [at |-> "first", why |-> Wrong(k)]
      BY <2>1, <2>2 DEF Fail
    <3> QED BY <3>1, <1>1 DEF OneVersionIsSelected, SecondWalkSucceeds
  <2>6. phase' = "failed" /\ ~Walking'
    BY <2>1 DEF Fail, Walking
  <2> QED BY <1>2, <2>4, <2>5, <2>6 DEF GraphInv, DiscoveryInv
<1>4. CASE Wrong(k) = "nothing"
  <2>1. /\ resolved' = resolved \cup {k} /\ known' = known \cup Edges(k)
        /\ toVisit' = (toVisit \ {k}) \cup (Edges(k) \ known) /\ phase' = phase /\ failure' = failure
    BY <1>4 DEF Visit, Go
  <2>2. /\ Edges(k) = HardEdges(k) \cup (IF phase = "first" THEN SoftEdges(k) ELSE {})
        /\ Edges(k) \subseteq graph /\ \A e \in Edges(k) : Highest(e)
    BY <1>0, <1>1, EdgesAreThere
  <2>3. /\ \A m : Fine(m)' = Fine(m) /\ HardEdges(m)' = HardEdges(m)
        /\ \A m : SoftEdges(m)' = SoftEdges(m) /\ Highest(m)' = Highest(m)
    BY <1>0, ResolvedKept
  <2>4. GraphTypeOK'
    <3>1. graph \subseteq Modules /\ k \in known
      BY <1>0 DEF GraphTypeOK, Walked
    <3>2. UNCHANGED <<names, graph, horizon, missed>>
      BY <1>0 DEF discovery
    <3>3. known' \in SUBSET Modules /\ toVisit' \in SUBSET known' /\ resolved' \in SUBSET graph'
      BY <3>1, <3>2, <1>0, <1>1, <2>1, <2>2 DEF GraphTypeOK
    <3> QED BY <3>1, <3>2, <3>3, <1>0, <2>1 DEF GraphTypeOK
  <2>5. Walked'
    <3>1. /\ (known = resolved \cup toVisit)' /\ (resolved \cap toVisit = {})'
          /\ (Root \in known)' /\ (known \subseteq graph)'
      BY <1>0, <1>1, <2>1, <2>2 DEF Walked
    <3>2. \A m \in known' : Highest(m)'
      BY <1>0, <2>1, <2>2, <2>3 DEF Walked
    <3>3. \A m \in resolved' : Fine(m)' /\ HardEdges(m)' \subseteq known'
      BY <1>0, <1>1, <1>4, <2>1, <2>2, <2>3 DEF Walked
    <3>4. phase' = "first" => \A m \in resolved' : SoftEdges(m)' \subseteq known'
      BY <1>0, <2>1, <2>2, <2>3 DEF Walked
    <3>5. phase' # "done"
      BY <1>0, <2>1
    <3> QED BY <3>1, <3>2, <3>3, <3>4, <3>5 DEF Walked
  <2>6. phase' = "second" => SecondWalk'
    <3> SUFFICES ASSUME phase = "second" PROVE SecondWalk'
      BY <2>1
    <3>0. SecondWalk /\ Edges(k) = HardEdges(k) /\ k \in known
      BY <1>0, <2>2 DEF GraphInv, Walked
    <3>1. PICK S \in SUBSET graph : known \subseteq S /\ \A m \in S : Fine(m) /\ HardEdges(m) \subseteq S
      BY <3>0 DEF SecondWalk
    <3>2. known' \subseteq S
      BY <3>0, <3>1, <2>1
    <3>3. \A T \in SUBSET Modules : Root \in T /\ (\A m \in T : HardEdges(m) \subseteq T) => known' \subseteq T
      BY <3>0, <2>1 DEF SecondWalk
    <3> QED BY <3>1, <3>2, <3>3, <2>3, <1>0 DEF SecondWalk
  <2>7. Walking' /\ phase' \notin {"done", "start", "discover", "failed"} /\ Root \in graph'
    BY <1>0, <2>1 DEF Walking, Walked
  <2>8. OneVersionIsSelected' /\ SecondWalkSucceeds'
    BY <2>1 DEF GraphInv, OneVersionIsSelected, SecondWalkSucceeds
  <2> QED BY <1>2, <2>4, <2>5, <2>6, <2>7, <2>8 DEF GraphInv, DiscoveryInv
<1> QED BY <1>3, <1>4

(* EndWalk: what the first walk passed is where the second may go. *)
LEMMA EndWalkKeeps == ASSUME GraphInv, EndWalk PROVE GraphInv'
<1>0. /\ toVisit = {} /\ phase \in {"first", "second"} /\ UNCHANGED <<inputs, discovery>>
      /\ Walking /\ Walked /\ GraphTypeOK /\ UNCHANGED <<inputs, graph>>
  BY DEF EndWalk, Walking, GraphInv, DiscoveryInv, discovery
<1>1. InputsOK' /\ ReadOK' /\ Within' /\ Closed(graph)' /\ AllowedThere'
  BY <1>0, WalkLeaves
<1>2. /\ \A m : Fine(m)' = Fine(m) /\ HardEdges(m)' = HardEdges(m)
      /\ \A m : SoftEdges(m)' = SoftEdges(m) /\ Highest(m)' = Highest(m)
  BY <1>0, ResolvedKept
<1>3. Root \in graph /\ graph \subseteq Modules /\ known = resolved
  BY <1>0 DEF Walked, GraphTypeOK
<1>4. OneVersionIsSelected' /\ SecondWalkSucceeds'
  BY DEF EndWalk, Walk, Go, GraphInv, OneVersionIsSelected, SecondWalkSucceeds
<1>5. CASE phase = "first" /\ Walk("second")
  <2>1. phase' = "second" /\ known' = {Root} /\ toVisit' = {Root} /\ resolved' = {} /\ failure' = failure
    BY <1>5 DEF Walk, Go
  <2>2. GraphTypeOK'
    <3>1. {Root} \in SUBSET Modules
      BY Versions
    <3> QED BY <3>1, <1>0, <1>5, <2>1 DEF GraphTypeOK, Phases, discovery
  <2>3. Walked'
    BY <1>0, <1>2, <1>3, <2>1 DEF Walked
  <2>4. SecondWalk'
    <3>1. known \in SUBSET graph /\ Root \in known /\ \A m \in known : Fine(m) /\ HardEdges(m) \subseteq known
      BY <1>0, <1>3 DEF Walked
    <3> QED BY <3>1, <1>0, <1>2, <2>1 DEF SecondWalk
  <2>5. Walking' /\ Root \in graph'
    BY <1>0, <1>3, <2>1 DEF Walking
  <2> QED BY <1>1, <1>4, <2>1, <2>2, <2>3, <2>4, <2>5 DEF GraphInv, DiscoveryInv
<1>6. CASE phase = "second" /\ Go("done") /\ UNCHANGED selection
  <2>1. phase' = "done" /\ UNCHANGED <<known, toVisit, resolved, failure>>
    BY <1>6 DEF Go, selection
  <2>2. GraphTypeOK'
    BY <1>0, <2>1, <1>6 DEF GraphTypeOK, Phases, discovery
  <2>3. Walked'
    BY <1>0, <1>2, <2>1 DEF Walked
  <2>4. SecondWalk'
    BY <1>0, <1>2, <1>6, <2>1 DEF GraphInv, SecondWalk
  <2>5. Walking' /\ Root \in graph'
    BY <1>0, <1>3, <2>1 DEF Walking
  <2> QED BY <1>1, <1>4, <2>1, <2>2, <2>3, <2>4, <2>5 DEF GraphInv, DiscoveryInv
<1> QED BY <1>5, <1>6 DEF EndWalk

(* Nothing changes if nothing happens. *)
LEMMA GraphStutter == ASSUME GraphInv, UNCHANGED graphVars PROVE GraphInv'
<1>0. /\ UNCHANGED <<inputs, discovery>> /\ UNCHANGED <<inputs, graph>>
      /\ UNCHANGED <<phase, names, horizon, missed, known, toVisit, resolved, failure>>
  BY DEF graphVars, discovery, selection
<1>1. InputsOK' /\ ReadOK' /\ Within' /\ (Walking' => Closed(graph)' /\ AllowedThere')
  BY <1>0, WalkLeaves DEF Walking
<1>2. GraphTypeOK' /\ OneVersionIsSelected' /\ SecondWalkSucceeds'
  BY <1>0 DEF GraphInv, DiscoveryInv, GraphTypeOK, OneVersionIsSelected, SecondWalkSucceeds
<1>3. phase' = "discover" => Looked'
  BY <1>0, EdgesKept DEF GraphInv, DiscoveryInv, Looked
<1>4. Walking' => Walked'
  BY <1>0, ResolvedKept DEF GraphInv, Walking, Walked
<1>5. phase' \in {"second", "done"} => SecondWalk'
  BY <1>0, ResolvedKept DEF GraphInv, SecondWalk
<1> QED BY <1>0, <1>1, <1>2, <1>3, <1>4, <1>5 DEF GraphInv, DiscoveryInv

-----------------------------------------------------------------------------
(* The theorems                                                                  *)

(* Every step of discovery and of the walks keeps the invariant. *)
THEOREM ResolutionInvariant == GraphSpec => []GraphInv
<1>1. GraphInv /\ [GraphNext]_graphVars => GraphInv'
  BY StartKeeps, ReadHorizonKeeps, EndRoundKeeps, VisitKeeps, EndWalkKeeps, GraphStutter
     DEF GraphNext
<1> QED BY <1>1, GraphInvInit, PTL DEF GraphSpec

(* Resolution keeps its types: what it visits it knows, what it keeps it has     *)
(* read, and it has failed exactly when it says why.                             *)
THEOREM ResolutionTypes == GraphSpec => []GraphTypeOK
<1>1. GraphInv => GraphTypeOK
  BY DEF GraphInv, DiscoveryInv
<1> QED BY <1>1, ResolutionInvariant, PTL

(* Whatever order files come in, discovery ends with the least set of modules    *)
(* that is closed under dependencies (discovery.rs:252).                         *)
THEOREM DiscoveryFindsTheLeast == GraphSpec => []DiscoveryIsLeast
<1>1. GraphInv => DiscoveryIsLeast
  <2> SUFFICES ASSUME GraphInv, Walking,
                      NEW S \in SUBSET graph, Root \in S, Closed(S)
               PROVE  S = graph
    BY DEF GraphInv, DiscoveryInv, DiscoveryIsLeast, Walking
  <2>1. S \in SUBSET Modules
    BY DEF GraphInv, DiscoveryInv, GraphTypeOK
  <2> QED BY <2>1 DEF GraphInv, DiscoveryInv, Within
<1> QED BY <1>1, ResolutionInvariant, PTL

(* A walk never comes to a module that was not read, nor to a second version of  *)
(* one that may have only one (selection.rs:279).                                *)
THEOREM SelectionIsUnique == GraphSpec => []OneVersionIsSelected
<1>1. GraphInv => OneVersionIsSelected
  BY DEF GraphInv
<1> QED BY <1>1, ResolutionInvariant, PTL

(* The second walk cannot fail once the first has succeeded (selection.rs:113). *)
THEOREM SecondWalkCannotFail == GraphSpec => []SecondWalkSucceeds
<1>1. GraphInv => SecondWalkSucceeds
  BY DEF GraphInv
<1> QED BY <1>1, ResolutionInvariant, PTL
-----------------------------------------------------------------------------
(* Selection                                                                     *)

(* The allowed versions are numbers, and what is there has one: nothing allowed  *)
(* is the empty version, which only another override gives.                      *)
LEMMA AllowedHaveVersions ==
  ASSUME GraphInv, Walking, NEW n \in Names, Is(n, "multiple")
  PROVE  override[n].versions \subseteq 1..EMPTY /\ EMPTY \notin override[n].versions
<1>1. override[n].versions \subseteq 1..EMPTY
  BY InputsAssumption DEF GraphInv, DiscoveryInv, InputsOK, Is
<1>2. ASSUME EMPTY \in override[n].versions PROVE FALSE
  <2> DEFINE k == [name |-> n, version |-> EMPTY]
  <2>1. k \in graph /\ k # Root
    BY <1>2, ModulesAssumption DEF GraphInv, DiscoveryInv, AllowedThere, Root
  <2>2. Is(n, "path")
    BY <2>1 DEF GraphInv, DiscoveryInv, ReadOK
  <2> QED BY <2>2 DEF Is
<1> QED BY <1>1, <1>2

(* Where every edge is allowed, it is resolved as it should be.  The group of an *)
(* allowed version has that version, which is its highest; what no allowed       *)
(* version covers is above them all.                                             *)
LEMMA ResolvedAsChosen ==
  ASSUME GraphInv, Walking, NEW d \in graph, Fine(ResolveDep(d))
  PROVE  Chosen(d) = ResolveDep(d)
<1>0. InputsOK /\ graph \subseteq Modules /\ AllowedThere /\ d \in Modules /\ d.version \in 1..EMPTY
  BY Versions DEF GraphInv, DiscoveryInv, GraphTypeOK
<1>1. /\ ResolveDep(d) \in graph /\ ResolveDep(d).name = d.name
      /\ \E g \in Groups(d) : /\ Target(ResolveDep(d)) = g
                              /\ ResolveDep(d).version = Selected(d.name, g)
      /\ \A g \in Groups(d) : ResolveDep(d).version =< Selected(d.name, g)
  BY <1>0, ResolvedIsThere
<1>2. ResolveDep(d).version \in 1..EMPTY
  BY <1>0, <1>1, Versions
<1>3. SUFFICES Chosen(d).version = ResolveDep(d).version
  <2>1. ResolveDep(d) = [d EXCEPT !.version = ResolveDep(d).version]
    BY <1>0, <1>1, <1>2 DEF Modules, Keys, Root
  <2>2. Chosen(d) = [d EXCEPT !.version = Chosen(d).version]
    BY <1>0 DEF Chosen, Modules, Keys, Root
  <2> QED BY <2>1, <2>2, <1>3
<1>4. CASE ~Is(d.name, "multiple")
  <2> DEFINE V == {k.version : k \in {m \in graph : m.name = d.name}}
  <2>1. V \in SUBSET (1..EMPTY) /\ V # {} /\ EMPTY \in Nat
    BY <1>0, Versions
  <2>2. Max(V) \in V /\ \A y \in V : Max(V) >= y
    BY <2>1, MaxIsGreatest
  <2>3. ResolveDep(d).version \in V
    BY <1>1
  <2>4. \A y \in V : ResolveDep(d).version >= y
    <3>1. \A m \in graph : m.name = d.name => m.version =< ResolveDep(d).version
      BY <1>0, <1>1, <1>4, ResolvedIsHighest DEF Highest
    <3> QED BY <3>1, <1>0, <1>2, Versions
  <2>5. Chosen(d).version = Max(V)
    BY <1>0, <1>4 DEF Chosen, Modules, Keys, Root
  <2> HIDE DEF V
  <2>6. Max(V) >= ResolveDep(d).version /\ ResolveDep(d).version >= Max(V) /\ Max(V) \in 1..EMPTY
    BY <2>1, <2>2, <2>3, <2>4
  <2> QED BY <2>5, <2>6, <1>2
<1>5. CASE Is(d.name, "multiple")
  <2> DEFINE allowed == override[d.name].versions
             A == {v \in allowed : v >= d.version}
  <2>0. d.name \in Names
    BY <1>5 DEF Is
  <2>1. allowed \subseteq 1..EMPTY /\ EMPTY \notin allowed
    BY <1>5, <2>0, AllowedHaveVersions
  <2>2. \A m \in graph : m.name = d.name =>
           /\ Target(m) \in 1..EMPTY /\ Target(m) >= m.version
           /\ Target(m) \in allowed \cup {EMPTY}
           /\ \A v \in allowed : v >= m.version => Target(m) =< v
    BY <1>0, <1>5, TargetIsLowest
  <2>3. Target(ResolveDep(d)) # EMPTY
    BY <1>1, <1>5 DEF Fine
  <2>4. PICK g \in Groups(d) : Target(ResolveDep(d)) = g /\ ResolveDep(d).version = Selected(d.name, g)
    BY <1>1
  <2>5. g \in A
    BY <2>2, <2>3, <2>4, <1>1 DEF Groups
  (* The group of an allowed version. *)
  <2>6. ASSUME NEW v \in allowed PROVE Selected(d.name, v) = v /\ (v >= d.version => v \in Groups(d))
    <3> DEFINE m == [name |-> d.name, version |-> v]
    <3>1. m \in graph
      BY <1>0, <1>5, <2>0 DEF AllowedThere
    <3>2. v \in 1..EMPTY
      BY <2>1
    <3>3. m.name = d.name /\ m.version = v
      OBVIOUS
    <3> HIDE DEF m, allowed, A
    <3>4. Target(m) \in 1..EMPTY /\ Target(m) >= v /\ Target(m) =< v
      BY <2>2, <2>6, <3>1, <3>2, <3>3
    <3>5. Target(m) = v
      BY <3>2, <3>4
    <3>6. Group(d.name, v) # {}
      BY <3>1, <3>3, <3>5 DEF Group
    <3>7. /\ Selected(d.name, v) \in 1..EMPTY
          /\ \E h \in graph : h.name = d.name /\ Target(h) = v /\ h.version = Selected(d.name, v)
          /\ v =< Selected(d.name, v)
      BY <1>0, <3>1, <3>3, <3>5, <3>6, SelectedIsHighest
    <3>8. Selected(d.name, v) =< v
      BY <2>2, <3>2, <3>7, <1>0, Versions
    <3>9. Selected(d.name, v) = v
      BY <3>2, <3>7, <3>8
    <3>10. v >= d.version => v \in Groups(d)
      BY <3>1, <3>3, <3>5 DEF Groups
    <3> QED BY <3>9, <3>10
  <2>7. ResolveDep(d).version = g
    BY <2>4, <2>5, <2>6
  <2>8. \A v \in A : g =< v
    BY <1>1, <2>6, <2>7
  <2>9. A \in SUBSET Nat /\ A # {}
    BY <2>1, <2>5
  <2>10. Min(A) \in A /\ \A y \in A : Min(A) =< y
    BY <2>9, MinIsLeast
  <2>11. Chosen(d).version = Min(A)
    BY <1>0, <1>5 DEF Chosen, Modules, Keys, Root
  <2> HIDE DEF A
  <2>12. Min(A) = g
    <3>1. Min(A) =< g /\ g =< Min(A) /\ Min(A) \in Nat /\ g \in Nat
      BY <2>5, <2>8, <2>9, <2>10
    <3> QED BY <3>1
  <2> QED BY <2>7, <2>11, <2>12
<1> QED BY <1>4, <1>5

(* The build uses exactly the modules its root reaches by dependencies on the    *)
(* highest version asked for, or the lowest allowed.                             *)
THEOREM SelectionPicksTheLeast == GraphSpec => []SelectionIsMinimal
<1>1. GraphInv => SelectionIsMinimal
  <2> SUFFICES ASSUME GraphInv, phase = "done" PROVE SelectionIsMinimal
    BY DEF SelectionIsMinimal
  <2> DEFINE Follows(S) == Root \in S /\ \A k \in S : {Chosen(d) : d \in Deps(k)} \subseteq S
  <2>0. Walking /\ Walked /\ SecondWalk /\ Closed(graph) /\ resolved = known /\ graph \subseteq Modules
    BY DEF GraphInv, DiscoveryInv, GraphTypeOK, Walking, Walked
  <2>1. ASSUME NEW k \in resolved PROVE {Chosen(d) : d \in Deps(k)} = HardEdges(k)
    <3>1. \A d \in Deps(k) : d \in graph /\ ResolveDep(d) \in resolved
      BY <2>0 DEF Walked, Closed, HardEdges
    <3>2. \A d \in Deps(k) : Chosen(d) = ResolveDep(d)
      BY <3>1, <2>0, ResolvedAsChosen DEF Walked
    <3> QED BY <3>2 DEF HardEdges
  <2>2. Follows(resolved)
    BY <2>0, <2>1 DEF Walked
  <2>3. ASSUME NEW S \in SUBSET resolved, Follows(S) PROVE S = resolved
    <3>1. S \in SUBSET Modules /\ \A k \in S : HardEdges(k) \subseteq S
      BY <2>0, <2>1, <2>3 DEF Walked
    <3> QED BY <3>1, <2>0, <2>3 DEF SecondWalk
  <2> QED BY <2>2, <2>3 DEF SelectionIsMinimal
<1> QED BY <1>1, ResolutionInvariant, PTL
====
