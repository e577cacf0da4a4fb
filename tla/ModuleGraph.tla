---- MODULE ModuleGraph ----
(* From MODULE.bazel files to the modules a build uses: discovery in rounds      *)
(* (fjfj-bzlmod/src/discovery.rs) and minimal version selection (selection.rs).  *)
(*                                                                               *)
(* A version is a number, a key a name and a version; the empty version sorts    *)
(* above every other.  Dependencies are sets: neither their order nor the names  *)
(* they are given matter here.  Left out: yanked versions, the registries' list. *)
EXTENDS Naturals, FiniteSetsExt
CONSTANTS Names, MaxVersion, None,
          RootName,    \* what the root module calls itself, or None
          FileSets,    \* what the module files of all keys may be
          OverrideSets \* what the overrides of the root module may be
VARIABLES file,      \* file[k]: the module file of k, or None
          override,  \* override[n]: the override on the module n
          phase, names, graph, horizon, missed, known, toVisit, resolved, failure
inputs == <<file, override>>
discovery == <<names, graph, horizon, missed>>
selection == <<known, toVisit, resolved>>
graphVars == <<inputs, phase, discovery, selection, failure>>

EMPTY == MaxVersion + 1
Root == [name |-> None, version |-> EMPTY]
Keys == [name : Names, version : 1..EMPTY]
Modules == Keys \cup {Root}
Phases == {"start", "discover", "first", "second", "done", "failed"}

ModuleFiles == [deps : SUBSET Keys, nodeps : SUBSET Keys]
Whys == {"override", "module file", "versions", "not there", "not allowed", "two versions", "twice"}

ASSUME ModulesAssumption ==
  /\ MaxVersion \in Nat /\ None \notin Names /\ RootName \in Names \cup {None}
  /\ None \notin ModuleFiles /\ None \notin [at : Phases, why : Whys]
ASSUME InputsAssumption ==
  /\ \A f \in FileSets : f \in [Modules -> ModuleFiles \cup {None}] /\ f[Root] # None
  /\ \A o \in OverrideSets : \A n \in Names :
       /\ o[n].kind = "pin" => o[n].version \in 1..MaxVersion
       /\ o[n].kind = "multiple" => o[n].versions \subseteq 1..EMPTY

GraphTypeOK ==
  /\ phase \in Phases /\ names \subseteq Names \cup {None} /\ missed \subseteq Names
  /\ {graph, horizon, known, toVisit, resolved} \subseteq SUBSET Modules
  /\ horizon \subseteq graph /\ resolved \subseteq graph /\ toVisit \subseteq known
  /\ (failure = None) = (phase # "failed")

GraphInit ==
  /\ file \in FileSets /\ override \in OverrideSets
  /\ phase = "start" /\ names = {} /\ graph = {} /\ horizon = {} /\ missed = {}
  /\ known = {} /\ toVisit = {} /\ resolved = {} /\ failure = None

Fail(why) == phase' = "failed" /\ failure' = [at |-> phase, why |-> why]
Go(p) == phase' = p /\ UNCHANGED failure

-----------------------------------------------------------------------------
Is(n, kind) == n \in Names /\ override[n].kind = kind

(* apply_overrides: an edge as the root module's overrides have it. *)
ApplyOverrides(d) ==
  IF d.name = RootName THEN Root
  ELSE CASE Is(d.name, "path") -> [d EXCEPT !.version = EMPTY]
         [] Is(d.name, "pin") -> [d EXCEPT !.version = override[d.name].version]
         [] OTHER -> d
Deps(k) == {ApplyOverrides(d) : d \in file[k].deps}
Nodeps(k) == {ApplyOverrides(d) : d \in file[k].nodeps}

(* read_module: only what an override puts there has no version. *)
Readable(k) == file[k] # None /\ (k.version = EMPTY => Is(k.name, "path"))
NameOf(k) == IF k = Root THEN RootName ELSE k.name

(* A round of discovery begins. *)
Begin(prev) == names' = prev /\ graph' = {Root} /\ horizon' = {Root} /\ missed' = {}

(* build_overrides: the root has none, and a pin is not below what the first     *)
(* dependency of the root on that module asks for.                               *)
Below(d) == d.version # EMPTY /\ override[d.name].version < d.version
Start ==
  LET asked == {d \in file[Root].deps : Is(d.name, "pin")}
      refused == RootName \in Names /\ override[RootName].kind # "none"
  IN
  /\ phase = "start" /\ UNCHANGED <<inputs, selection>>
  /\ \/ /\ refused \/ \E d \in asked : Below(d)
        /\ Fail("override") /\ UNCHANGED discovery
     \/ /\ ~refused /\ \A d \in asked : \E first \in asked : first.name = d.name /\ ~Below(first)
        /\ Go("discover") /\ Begin({RootName})

(* The files one step further out are read.  An edge to a module only if it is   *)
(* there anyway (nodep) counts if the last round had a module of that name; if   *)
(* not, it is noted as missed, unless the key is among those to read already:    *)
(* that depends on the order.                                                    *)
(* Mutant: nothing is noted as missed. *)
ReadHorizonOnce ==
  LET wanted == (UNION {Deps(k) : k \in horizon}) \ graph
      next == wanted \cup {d \in (UNION {Nodeps(k) : k \in horizon}) \ graph : d.name \in names}
  IN
  /\ phase = "discover" /\ horizon # {} /\ UNCHANGED <<inputs, names, missed, selection>>
  /\ IF \A k \in next : Readable(k)
     THEN graph' = graph \cup next /\ horizon' = next /\ Go(phase)
     ELSE Fail("module file") /\ UNCHANGED <<graph, horizon>>
ReadHorizon ==
  LET wanted == (UNION {Deps(k) : k \in horizon}) \ graph
      maybe == (UNION {Nodeps(k) : k \in horizon}) \ graph
      next == wanted \cup {d \in maybe : d.name \in names}
      skipped == {d \in maybe : d.name \notin names}
  IN
  /\ phase = "discover" /\ horizon # {} /\ UNCHANGED <<inputs, names, selection>>
  /\ IF \A k \in next : Readable(k)
     THEN /\ graph' = graph \cup next /\ horizon' = next /\ Go(phase)
          /\ \E early \in SUBSET (skipped \cap wanted) :
               missed' = missed \cup {d.name : d \in (skipped \ wanted) \cup early}
     ELSE Fail("module file") /\ UNCHANGED <<graph, horizon, missed>>

Walk(p) == Go(p) /\ known' = {Root} /\ toVisit' = {Root} /\ resolved' = {}

(* Mutant: another round if any module was missed. *)
ProgressedAlways(now) == missed # {}
Progressed(now) == missed \cap now # {}

(* The round is over; another is worth it if a module that was missed has come.  *)
(* compute_allowed_version_sets: the versions that may coexist are in the graph. *)
EndRound ==
  /\ phase = "discover" /\ horizon = {} /\ UNCHANGED inputs
  /\ LET now == {NameOf(k) : k \in graph} IN
     IF Progressed(now) THEN Begin(now) /\ Go(phase) /\ UNCHANGED selection
     ELSE /\ names' = now /\ UNCHANGED <<graph, horizon, missed>>
          /\ IF \A n \in Names : Is(n, "multiple") =>
                   \A v \in override[n].versions : [name |-> n, version |-> v] \in graph
             THEN Walk("first")
             ELSE Fail("versions") /\ UNCHANGED selection

-----------------------------------------------------------------------------
(* compute_selection_group: the lowest allowed version that is not below it. *)
Target(k) ==
  IF Is(k.name, "multiple") THEN Min({EMPTY} \cup {v \in override[k.name].versions : v >= k.version}) ELSE EMPTY
Group(n, g) == {k \in graph : k.name = n /\ Target(k) = g}
Selected(n, g) == Max({k.version : k \in Group(n, g)})

(* resolve_dep: the lowest selected version of the groups that allow the edge. *)
(* Mutant: a group whose target is below the edge will do. *)
ResolveDepAnywhere(d) ==
  LET groups == {Target(k) : k \in {m \in graph : m.name = d.name}}
  IN IF groups = {} THEN d ELSE [d EXCEPT !.version = Min({Selected(d.name, g) : g \in groups})]
(* Mutant: an edge keeps the version it asks for. *)
ResolveDepAsAsked(d) == d
ResolveDep(d) ==
  LET groups == {g \in {Target(k) : k \in {m \in graph : m.name = d.name}} : g >= d.version}
  IN IF groups = {} THEN d ELSE [d EXCEPT !.version = Min({Selected(d.name, g) : g \in groups})]

(* The edges a walk follows: nodep edges, to what is in the graph, in the first. *)
(* Mutant: in the second. *)
EdgesSwapped(k) == {ResolveDep(d) : d \in Deps(k) \cup IF phase = "second" THEN Nodeps(k) \cap graph ELSE {}}
Edges(k) == {ResolveDep(d) : d \in Deps(k) \cup IF phase = "first" THEN Nodeps(k) \cap graph ELSE {}}

(* visit: what is wrong with k, which has been reached.  Dependencies are a set: *)
(* a file that names one module and version twice, under two repo names, is not  *)
(* told from one that names it once, and only two versions that became one are   *)
(* refused.                                                                      *)
Wrong(k) ==
  CASE k \notin graph -> "not there"
    [] k \in graph /\ Is(k.name, "multiple") /\ Target(k) = EMPTY -> "not allowed"
    [] k \in graph /\ ~Is(k.name, "multiple") /\ (\E r \in resolved : NameOf(r) = NameOf(k)) -> "two versions"
    [] OTHER -> IF \E c, d \in file[k].deps :
                     c # d /\ ResolveDep(ApplyOverrides(c)) = ResolveDep(ApplyOverrides(d))
                THEN "twice" ELSE "nothing"

(* Mutant: what is to be visited is not known yet. *)
VisitUnknown(k) ==
  /\ phase \in {"first", "second"} /\ k \in toVisit /\ UNCHANGED <<inputs, discovery>>
  /\ IF Wrong(k) # "nothing" THEN Fail(Wrong(k)) /\ UNCHANGED selection
     ELSE /\ resolved' = resolved \cup {k} /\ known' = known \cup {k}
          /\ toVisit' = (toVisit \ {k}) \cup (Edges(k) \ known) /\ Go(phase)
Visit(k) ==
  /\ phase \in {"first", "second"} /\ k \in toVisit /\ UNCHANGED <<inputs, discovery>>
  /\ IF Wrong(k) # "nothing" THEN Fail(Wrong(k)) /\ UNCHANGED selection
     ELSE /\ resolved' = resolved \cup {k} /\ known' = known \cup Edges(k)
          /\ toVisit' = (toVisit \ {k}) \cup (Edges(k) \ known) /\ Go(phase)

EndWalk ==
  /\ toVisit = {} /\ UNCHANGED <<inputs, discovery>>
  /\ \/ phase = "first" /\ Walk("second")
     \/ phase = "second" /\ Go("done") /\ UNCHANGED selection

GraphNext == Start \/ ReadHorizon \/ EndRound \/ (\E k \in Modules : Visit(k)) \/ EndWalk
GraphSpec == GraphInit /\ [][GraphNext]_graphVars /\ WF_graphVars(GraphNext)

-----------------------------------------------------------------------------
(* A set of modules closed under dependencies, and under those on modules it has *)
(* a version of.                                                                 *)
Closed(S) == \A k \in S : /\ Deps(k) \subseteq S
                          /\ \A d \in Nodeps(k) : (\E m \in S : NameOf(m) = d.name) => d \in S

(* The rounds end with the least such set, whatever order files come in: no edge *)
(* to a module that is there anyway is lost, and none brings in its own target   *)
(* (discovery.rs:252).                                                           *)
DiscoveryIsLeast == phase \in {"first", "second", "done"} =>
  Closed(graph) /\ \A S \in SUBSET graph : Root \in S /\ Closed(S) => S = graph

(* The version a dependency should get: the highest anyone asked for, or the     *)
(* lowest the override allows.                                                   *)
Chosen(d) ==
  [d EXCEPT !.version = IF Is(d.name, "multiple") THEN Min({v \in override[d.name].versions : v >= d.version})
                        ELSE Max({k.version : k \in {m \in graph : m.name = d.name}})]

(* The build uses exactly the modules its root reaches by such dependencies.     *)
SelectionIsMinimal == phase = "done" =>
  LET Follows(S) == Root \in S /\ \A k \in S : {Chosen(d) : d \in Deps(k)} \subseteq S
  IN Follows(resolved) /\ \A S \in SUBSET resolved : Follows(S) => S = resolved

(* "Unreachable while every module's compatibility level is 0: one selection     *)
(* group per name means one selected version per name" (selection.rs:279); nor   *)
(* does a walk come to a module that was not read.                               *)
OneVersionIsSelected == failure # None => failure.why \notin {"not there", "two versions"}

(* "Bazel notes the second walk cannot fail once the first has succeeded"        *)
(* (selection.rs:113).                                                           *)
SecondWalkSucceeds == failure # None => failure.at # "second"

(* The rounds come to an end, and so does resolution. *)
ResolutionEnds == <>(phase \in {"done", "failed"})
====
