---- MODULE ActionCacheProofs ----
(* For every graph of actions, every content and every bound: the types, that a  *)
(* digest remembered in a run stays true, that what is taken as current of an    *)
(* action of plain files is what its command makes, that of directories and      *)
(* links it is until the first fault, and what a null build may run.             *)
EXTENDS ActionCache, TLAPS

USE DEF building, NoKey, NoDigest

-----------------------------------------------------------------------------
(* Types. *)

(* What an action reads, declares and makes are paths, no source is among the    *)
(* last two, and an output is declared once and made by at most one action.      *)
LEMMA PathFacts ==
  /\ \A a \in Actions : Ins[a] \subseteq Paths /\ Outs[a] \subseteq Paths /\ Makes[a] \subseteq Paths
  /\ \A a \in Actions : Outs[a] \cap Sources = {} /\ Makes[a] \cap Sources = {}
  /\ \A a, b \in Actions : \A p \in Outs[a] : p \in Outs[b] => a = b
  /\ \A a, b \in Actions : \A p \in Makes[a] : p \in Makes[b] => a = b
BY GraphAssumption DEF Paths, Outputs

(* Who makes anything makes all it declares.  Who fills the directory of another *)
(* declares links, which that one waits for.                                     *)
LEMMA FillFacts ==
  /\ \A a \in Actions : Outs[a] # {}
  /\ \A a \in Actions : Makes[a] # {} => Outs[a] \subseteq Makes[a]
  /\ \A a \in Actions : Makes[a] = {} => Outs[a] \subseteq Dirs
  /\ \A a, b \in Actions : \A p \in Makes[a] : p \in Outs[b] /\ a # b =>
       Makes[b] = {} /\ Outs[a] \subseteq Ins[b] /\ Outs[a] \subseteq Links
  /\ \A a \in Actions : \A p \in Makes[a] : \E b \in Actions : p \in Outs[b]
<1>1. \A a \in Actions : Outs[a] # {} /\ (Outs[a] \subseteq Makes[a] \/ (Makes[a] = {} /\ Outs[a] \subseteq Dirs))
  BY GraphAssumption
<1>2. \A a, b \in Actions : a # b /\ Makes[a] \cap Outs[b] # {} =>
        Makes[b] = {} /\ Outs[a] \subseteq Ins[b] \cap Links
  BY GraphAssumption
<1>3. \A a \in Actions : Makes[a] \subseteq Outputs
  BY GraphAssumption
<1> QED
  BY <1>1, <1>2, <1>3 DEF Outputs

(* A command makes something of any inputs, and nothing half done. *)
LEMMA WholeType ==
  ASSUME CacheTypeOK, NEW a \in Actions, NEW o \in Makes[a]
  PROVE  Whole(a, o) \in Contents \ {Absent, Partial}
<1>1. [i \in Ins[a] |-> disk[i]] \in [Ins[a] -> Contents]
  BY PathFacts DEF CacheTypeOK
<1> QED
  BY <1>1, ContentAssumption DEF Whole, CacheTypeOK

(* An empty output base has the types. *)
LEMMA TypesInit == CacheInit => CacheTypeOK
<1> SUFFICES ASSUME CacheInit PROVE CacheTypeOK
  OBVIOUS
<1>1. DOMAIN def = Actions /\ \A a \in Actions : def[a] \in Defs[a]
  BY DEF CacheInit
<1>2. DOMAIN saved = Actions /\ DOMAIN entry = Actions /\ DOMAIN key = Actions
      /\ DOMAIN dirs = Dirs /\ DOMAIN inputs = Paths
  BY DEF CacheInit, Empty, Nothing
<1>3. disk \in [Paths -> Contents]
  <2>1. PICK of \in [Sources -> Values] :
           disk = [p \in Paths |-> IF p \in Outputs THEN Absent ELSE of[p]]
    BY DEF CacheInit
  <2>2. \A p \in Paths : p \notin Outputs => of[p] \in Contents
    BY ContentAssumption DEF Paths
  <2> QED
    BY <2>1, <2>2, ContentAssumption
<1>4. act \in [Actions -> Idle \cup {"off", "go", "running", "made"}]
  BY DEF CacheInit
<1>5. builds \in 0..MaxBuilds /\ changes \in 0..MaxChanges
  BY CacheBounds DEF CacheInit
<1> QED
  BY <1>1, <1>2, <1>3, <1>4, <1>5 DEF CacheInit, CacheTypeOK

(* Every step keeps the types. *)
LEMMA TypesStep == CacheTypeOK /\ [CacheNext]_cacheVars => CacheTypeOK'
<1> SUFFICES ASSUME CacheTypeOK, [CacheNext]_cacheVars PROVE CacheTypeOK'
  OBVIOUS
<1> USE CacheBounds DEF CacheTypeOK, Idle
<1>0. ASSUME Change PROVE changes' \in 0..MaxChanges
  BY <1>0 DEF Change
<1>1. ASSUME NEW p \in Paths, NEW v \in Contents, EditFile(p, v) PROVE CacheTypeOK'
  <2>1. disk' \in [Paths -> Contents] /\ changes' \in 0..MaxChanges
    BY <1>0, <1>1 DEF EditFile
  <2> QED
    BY <1>1, <2>1 DEF EditFile, Change
<1>2. ASSUME NEW a \in Actions, NEW d \in Defs[a], EditDef(a, d) PROVE CacheTypeOK'
  <2>1. changes' \in 0..MaxChanges
    BY <1>0, <1>2 DEF EditDef
  <2>2. DOMAIN def' = Actions /\ \A b \in Actions : def'[b] \in Defs[b]
    BY <1>2 DEF EditDef
  <2> QED
    BY <1>2, <2>1, <2>2 DEF EditDef, Change
<1>3. ASSUME NEW lost \in BOOLEAN, Load(lost) PROVE CacheTypeOK'
  BY <1>3 DEF Load, Empty
<1>4. CASE Save
  BY <1>4 DEF Save, Gone, Empty, Nothing
<1>5. ASSUME NEW a \in Actions, Hit(a) PROVE CacheTypeOK'
  BY <1>5 DEF Hit, Keyed, NoteDirs
<1>6. ASSUME NEW a \in Actions, Miss(a) PROVE CacheTypeOK'
  BY <1>6 DEF Miss, Keyed
<1>7. ASSUME NEW a \in Actions, Skip(a) PROVE CacheTypeOK'
  BY <1>7 DEF Skip
<1>8. ASSUME NEW a \in Actions, Prepare(a) PROVE CacheTypeOK'
  BY <1>8, ContentAssumption DEF Prepare
<1>9. ASSUME NEW a \in Actions, PrepareFails(a) PROVE CacheTypeOK'
  BY <1>9 DEF PrepareFails, Fault
<1>10. ASSUME NEW a \in Actions, Succeed(a) PROVE CacheTypeOK'
  BY <1>10, WholeType DEF Succeed
<1>11. ASSUME NEW a \in Actions, Record(a) PROVE CacheTypeOK'
  BY <1>11 DEF Record, NoteDirs
<1>12. ASSUME NEW a \in Actions, NEW left \in [Makes[a] -> Contents], Fail(a, left)
       PROVE  CacheTypeOK'
  BY <1>12 DEF Fail, Fault
<1>13. ASSUME NEW left \in [Running -> Contents], Kill(left) PROVE CacheTypeOK'
  BY <1>13 DEF Kill, Gone, Empty, Nothing
<1>14. CASE UNCHANGED cacheVars
  BY <1>14 DEF cacheVars
<1>15. Outputs \subseteq Paths /\ Sources \subseteq Paths /\ Values \subseteq Contents
       /\ Absent \in Contents /\ Partial \in Contents
  BY ContentAssumption DEF Paths
<1> QED
  BY <1>1, <1>2, <1>3, <1>4, <1>5, <1>6, <1>7, <1>8, <1>9, <1>10, <1>11, <1>12, <1>13,
     <1>14, <1>15 DEF CacheNext

(* The state of the cache, of the files and of a build keeps its types. *)
THEOREM CacheTypes == CacheSpec => []CacheTypeOK
BY TypesInit, TypesStep, PTL DEF CacheSpec

-----------------------------------------------------------------------------
(* The order of a build: whatever makes an input is done before its reader       *)
(* starts, so what a digest was taken of does not move.                          *)

Busy == {"go", "running", "made", "ok"}

Off == (\E a \in Actions : act[a] = "off") => \A a \in Actions : act[a] = "off"
Order == \A a, b \in Actions : act[a] \in Busy /\ Ins[a] \cap Outs[b] # {} => act[b] = "ok"
Memo == \A p \in Paths : inputs[p] # NoDigest =>
          inputs[p] = Digest(p) /\ \A b \in Actions : p \in Outs[b] \cup Makes[b] => act[b] = "ok"
NoBuild == ~building => inputs = Nothing(Paths)
OrderInv == CacheTypeOK /\ Off /\ Order /\ Memo /\ NoBuild

(* All that a step of one action may touch. *)
Frame(a) == /\ \A p \in Paths \ Makes[a] : disk'[p] = disk[p]
            /\ \A p \in Dirs \ Outs[a] : dirs'[p] = dirs[p]

(* What is remembered of an input is what would be found. *)
LEMMA FragmentIsDigest ==
  ASSUME Memo, NEW p \in Paths PROVE Fragment(p) = Digest(p)
BY DEF Memo, Fragment

(* Whoever declares or makes an input of an action under way is done. *)
LEMMA MakersAreDone ==
  ASSUME Order, NEW a \in Actions, Ready(a) \/ act[a] \in Busy, NEW b \in Actions,
         NEW p \in Ins[a], p \in Outs[b] \cup Makes[b]
  PROVE  act[b] = "ok"
<1>1. \A c \in Actions : p \in Outs[c] => act[c] = "ok"
  BY DEF Order, Ready
<1>2. CASE p \in Makes[b]
  <2>1. PICK c \in Actions : p \in Outs[c]
    BY <1>2, FillFacts
  <2>2. CASE c # b
    <3>1. Outs[b] # {} /\ Outs[b] \subseteq Ins[c]
      BY <1>2, <2>1, <2>2, FillFacts
    <3>2. act[c] \in Busy /\ Ins[c] \cap Outs[b] # {}
      BY <1>1, <2>1, <3>1 DEF Busy
    <3> QED
      BY <3>2 DEF Order
  <2> QED
    BY <1>1, <2>1, <2>2
<1> QED
  BY <1>1, <1>2

(* So is whoever fills the directory of an action under way. *)
LEMMA FillersAreDone ==
  ASSUME Order, NEW a \in Actions, act[a] \in Busy, NEW b \in Actions, b # a,
         NEW p \in Outs[a], p \in Makes[b]
  PROVE  act[b] = "ok"
<1>1. Outs[b] # {} /\ Outs[b] \subseteq Ins[a]
  BY FillFacts
<1> QED
  BY <1>1 DEF Order

(* What is remembered stays right in a step that touches only what actions that  *)
(* are not done make.                                                            *)
LEMMA MemoKept ==
  ASSUME Memo, NEW a \in Actions, act[a] # "ok", inputs' = inputs,
         \A b \in Actions : act[b] = "ok" => act'[b] = "ok", Frame(a)
  PROVE  Memo'
BY DEF Memo, Digest, Frame

(* Digests noted for an action that may start are of paths nobody will change. *)
LEMMA MemoGrows ==
  ASSUME OrderInv, NEW a \in Actions, Ready(a), Keyed(a), disk' = disk,
         \A b \in Actions : act[b] = "ok" => act'[b] = "ok",
         \A p \in Dirs \ Outs[a] : dirs'[p] = dirs[p]
  PROVE  Memo'
<1> SUFFICES ASSUME NEW p \in Paths, inputs'[p] # NoDigest
             PROVE  /\ inputs'[p] = Digest(p)'
                    /\ \A b \in Actions : p \in Outs[b] \cup Makes[b] => act'[b] = "ok"
  BY DEF Memo
<1>1. act[a] # "ok"
  BY DEF Ready
<1>2. inputs'[p] = IF p \in Ins[a] THEN Fragment(p) ELSE inputs[p]
  BY DEF Keyed
<1>3. inputs'[p] = Digest(p)
  BY <1>2, FragmentIsDigest DEF OrderInv, Memo
<1>4. \A b \in Actions : p \in Outs[b] \cup Makes[b] => act[b] = "ok"
  BY <1>2, MakersAreDone DEF OrderInv, Memo
<1>5. p \in Dirs => dirs'[p] = dirs[p]
  BY <1>1, <1>4
<1> QED
  BY <1>3, <1>4, <1>5 DEF Digest

(* Before the first build nothing is remembered and nobody is at work. *)
LEMMA OrderInit == CacheInit => OrderInv
<1> SUFFICES ASSUME CacheInit PROVE OrderInv
  OBVIOUS
<1>1. inputs = Nothing(Paths) /\ \A a \in Actions : act[a] = "off"
  BY DEF CacheInit
<1> QED
  BY <1>1, TypesInit DEF OrderInv, Off, Order, Memo, NoBuild, Nothing, Busy

(* Every step keeps the order of a build, and what is remembered true. *)
LEMMA OrderStep == OrderInv /\ [CacheNext]_cacheVars => OrderInv'
<1> SUFFICES ASSUME OrderInv, [CacheNext]_cacheVars PROVE (Off /\ Order /\ Memo /\ NoBuild)'
  BY TypesStep DEF OrderInv
<1> USE DEF OrderInv
<1>0. act \in [Actions -> Idle \cup {"off", "go", "running", "made"}]
  BY DEF CacheTypeOK
<1>1. ASSUME Change PROVE (Off /\ Order /\ Memo /\ NoBuild)'
  <2>1. inputs' = inputs /\ act' = act /\ ~building
    BY <1>1 DEF Change
  <2>2. \A p \in Paths : inputs[p] = NoDigest
    BY <2>1 DEF NoBuild, Nothing
  <2> QED
    BY <2>1, <2>2 DEF Off, Order, Memo, NoBuild
<1>2. ASSUME NEW lost \in BOOLEAN, Load(lost) PROVE (Off /\ Order /\ Memo /\ NoBuild)'
  <2>1. inputs' = inputs /\ ~building /\ \A a \in Actions : act'[a] = "todo"
    BY <1>2 DEF Load
  <2>2. \A p \in Paths : inputs[p] = NoDigest
    BY <2>1 DEF NoBuild, Nothing
  <2> QED
    BY <2>1, <2>2 DEF Off, Order, Memo, NoBuild, Busy
<1>3. ASSUME Gone PROVE (Off /\ Order /\ Memo /\ NoBuild)'
  BY <1>3 DEF Gone, Off, Order, Memo, NoBuild, Nothing, Busy
(* One action moves on: nobody that is done goes back, and it is busy only after *)
(* what makes its inputs is done.                                                *)
<1>4. ASSUME NEW a \in Actions, act[a] # "off", act[a] # "ok",
             NEW w \in {"go", "running", "made", "ok", "failed"},
             act' = [act EXCEPT ![a] = w],
             w \in Busy => (Ready(a) \/ act[a] \in Busy), Memo'
      PROVE  (Off /\ Order /\ Memo /\ NoBuild)'
  <2>1. building /\ building'
    BY <1>0, <1>4
  <2>2. Off'
    BY <1>0, <1>4 DEF Off
  <2>3. Order'
    BY <1>0, <1>4 DEF Order, Ready, Busy
  <2> QED
    BY <1>4, <2>1, <2>2, <2>3 DEF NoBuild
<1>5. ASSUME NEW a \in Actions, Hit(a) PROVE (Off /\ Order /\ Memo /\ NoBuild)'
  <2>1. \A p \in Dirs \ Outs[a] : dirs'[p] = dirs[p]
    BY <1>5 DEF Hit, NoteDirs
  <2>2. Memo'
    BY <1>0, <1>5, <2>1, MemoGrows DEF Hit
  <2> QED
    BY <1>4, <1>5, <2>2 DEF Hit, Ready
<1>6. ASSUME NEW a \in Actions, Miss(a) PROVE (Off /\ Order /\ Memo /\ NoBuild)'
  <2>1. \A b \in Actions : act[b] = "ok" => act'[b] = "ok"
    BY <1>0, <1>6 DEF Miss, Ready
  <2>2. Memo'
    BY <1>6, <2>1, MemoGrows DEF Miss
  <2> QED
    BY <1>4, <1>6, <2>2 DEF Miss, Ready
<1>7. ASSUME NEW a \in Actions, act[a] \in {"go", "running", "made"}, inputs' = inputs,
             NEW w \in {"running", "made", "ok", "failed"}, act' = [act EXCEPT ![a] = w],
             Frame(a)
      PROVE  (Off /\ Order /\ Memo /\ NoBuild)'
  <2>1. \A b \in Actions : act[b] = "ok" => act'[b] = "ok"
    BY <1>0, <1>7
  <2>2. Memo'
    BY <1>7, <2>1, MemoKept
  <2> QED
    BY <1>4, <1>7, <2>2 DEF Busy
<1>8. ASSUME NEW a \in Actions, Skip(a) PROVE (Off /\ Order /\ Memo /\ NoBuild)'
  BY <1>7, <1>8 DEF Skip, Frame
<1>9. ASSUME NEW a \in Actions, Prepare(a) PROVE (Off /\ Order /\ Memo /\ NoBuild)'
  BY <1>7, <1>9 DEF Prepare, Frame
<1>10. ASSUME NEW a \in Actions, PrepareFails(a) PROVE (Off /\ Order /\ Memo /\ NoBuild)'
  BY <1>7, <1>10 DEF PrepareFails, Fault, Frame
<1>11. ASSUME NEW a \in Actions, Succeed(a) PROVE (Off /\ Order /\ Memo /\ NoBuild)'
  BY <1>7, <1>11 DEF Succeed, Frame
<1>12. ASSUME NEW a \in Actions, Record(a) PROVE (Off /\ Order /\ Memo /\ NoBuild)'
  <2>1. \A p \in Dirs \ Outs[a] : dirs'[p] = dirs[p]
    BY <1>12 DEF Record, NoteDirs
  <2> QED
    BY <1>7, <1>12, <2>1 DEF Record, Frame
<1>13. ASSUME NEW a \in Actions, NEW left \in [Makes[a] -> Contents], Fail(a, left)
       PROVE  (Off /\ Order /\ Memo /\ NoBuild)'
  BY <1>7, <1>13 DEF Fail, Fault, Frame
<1>14. CASE UNCHANGED cacheVars
  BY <1>14 DEF cacheVars, Off, Order, Memo, NoBuild, Digest
<1> QED
  BY <1>1, <1>2, <1>3, <1>5, <1>6, <1>8, <1>9, <1>10, <1>11, <1>12, <1>13, <1>14
     DEF CacheNext, EditFile, EditDef, Save, Kill

(* A digest remembered in a run is what would be found again (cache.rs:74). *)
THEOREM CacheMemo == CacheSpec => []MemoIsCurrent
<1>1. OrderInv => MemoIsCurrent
  BY DEF OrderInv, Memo, MemoIsCurrent
<1> QED
  BY <1>1, OrderInit, OrderStep, PTL DEF CacheSpec

-----------------------------------------------------------------------------
(* What is there: a runfiles tree that nobody fills never is; the one that a     *)
(* SymlinkTree fills is beside the link in it; what is done is there.            *)

Filled(a) == \A p \in Makes[a] \ Outs[a] :
  act[a] = "running" \/ (\E o \in Outs[a] : disk[o] # Absent) => disk[p] # Absent
Present(a) == act[a] \in {"made", "ok"} => \A o \in Makes[a] : disk[o] # Absent
ThereInv == OrderInv /\ (\A p \in Unmade : disk[p] = Absent) /\ \A a \in Actions : Filled(a) /\ Present(a)

(* Nobody fills a tree that is not made, and it is a directory. *)
LEMMA UnmadeFacts ==
  /\ \A p \in Unmade : p \in Dirs /\ p \in Paths /\ p \notin Sources
  /\ \A a \in Actions : \A p \in Makes[a] : p \notin Unmade
<1>1. ASSUME NEW p \in Unmade PROVE p \in Dirs /\ p \in Paths /\ p \notin Sources
  <2>1. PICK a \in Actions : p \in Outs[a] /\ p \notin Makes[a]
    BY DEF Unmade, Outputs
  <2> QED
    BY <2>1, FillFacts, PathFacts
<1> QED
  BY <1>1 DEF Unmade

(* What a command that did not end well leaves of a tree it fills is there. *)
LEMMA LeftIsThere ==
  ASSUME CacheTypeOK, NEW a \in Actions, Filled(a), act[a] = "running",
         NEW p \in Makes[a] \ Outs[a], NEW c \in LeftAt(a, p)
  PROVE  c # Absent
BY WholeType, ContentAssumption DEF Filled, LeftAt

(* A step of one action leaves alone what another fills and makes. *)
LEMMA OthersThere ==
  ASSUME NEW a \in Actions, NEW b \in Actions, b # a, Filled(b), Present(b), act'[b] = act[b],
         \A p \in Paths \ Makes[a] : disk'[p] = disk[p]
  PROVE  Filled(b)' /\ Present(b)'
<1>1. \A p \in Makes[b] : disk'[p] = disk[p]
  BY PathFacts
<1>2. Makes[b] # {} => \A o \in Outs[b] : disk'[o] = disk[o]
  BY <1>1, FillFacts
<1> QED
  BY <1>1, <1>2 DEF Filled, Present

(* Nothing is there at first. *)
LEMMA ThereInit == CacheInit => ThereInv
<1> SUFFICES ASSUME CacheInit PROVE ThereInv
  OBVIOUS
<1>1. \A p \in Outputs : disk[p] = Absent
  BY DEF CacheInit, Paths
<1>2. \A a \in Actions : act[a] = "off" /\ Outs[a] \subseteq Outputs
  BY DEF CacheInit, Outputs
<1> QED
  BY <1>1, <1>2, OrderInit DEF ThereInv, Unmade, Filled, Present

(* Every step keeps it so. *)
LEMMA ThereStep == ThereInv /\ [CacheNext]_cacheVars => ThereInv'
<1> DEFINE Rest == (\A p \in Unmade : disk[p] = Absent) /\ \A a \in Actions : Filled(a) /\ Present(a)
<1> SUFFICES ASSUME ThereInv, [CacheNext]_cacheVars PROVE Rest'
  BY OrderStep DEF ThereInv
<1>0. act \in [Actions -> Idle \cup {"off", "go", "running", "made"}] /\ CacheTypeOK /\ Absent # Partial
      /\ disk \in [Paths -> Contents]
  BY ContentAssumption DEF ThereInv, OrderInv, CacheTypeOK
<1>1. ASSUME NEW p \in Paths, NEW v, EditFile(p, v),
             v # Absent => p \notin Dirs \cup Links \/ p \in Sources
      PROVE  Rest'
  <2>0. \A a \in Actions : act[a] = "off" /\ act'[a] = "off"
    BY <1>0, <1>1 DEF EditFile, Change
  <2>d. \A q \in Paths : disk'[q] = IF q = p \/ (v = Absent /\ q \in Inside(p)) THEN v ELSE disk[q]
    BY <1>1 DEF EditFile
  <2>1. \A q \in Unmade : disk'[q] = Absent
    BY <1>1, <2>d, UnmadeFacts DEF ThereInv
  <2>2. ASSUME NEW a \in Actions, NEW q \in Makes[a] \ Outs[a], NEW o \in Outs[a], disk'[o] # Absent
        PROVE  disk'[q] # Absent
    <3>1. PICK b \in Actions : q \in Outs[b] /\ b # a
      BY <2>2, FillFacts
    <3>2. Makes[b] = {} /\ Outs[a] \subseteq Links
      BY <2>2, <3>1, FillFacts
    <3>3. o \in Paths /\ q \in Paths /\ o \notin Sources /\ o \in Links
      BY <2>2, <3>2, PathFacts
    <3>4. disk[o] # Absent
      BY <1>1, <2>2, <2>d, <3>3
    <3>5. disk[q] # Absent
      BY <2>2, <3>4 DEF ThereInv, Filled
    <3>6. q = p => o \in Inside(p)
      BY <2>2 DEF Inside
    <3>7. q \notin Inside(p)
      <4>1. ASSUME NEW c \in Actions, p \in Makes[c] \ Outs[c], q \in Outs[c] PROVE FALSE
        BY <3>1, <3>2, <4>1, PathFacts
      <4> QED
        BY <4>1 DEF Inside
    <3> QED
      BY <2>2, <2>d, <3>3, <3>5, <3>6, <3>7
  <2> QED
    BY <2>0, <2>1, <2>2 DEF Filled, Present
<1>2. ASSUME \A a \in Actions : act'[a] \in {"off", "todo"}, disk' = disk PROVE Rest'
  BY <1>2 DEF ThereInv, Filled, Present
<1>3. ASSUME NEW a \in Actions, \A b \in Actions \ {a} : act'[b] = act[b],
             \A p \in Paths \ Makes[a] : disk'[p] = disk[p], Filled(a)', Present(a)'
      PROVE  Rest'
  <2>1. \A p \in Unmade : disk'[p] = Absent
    BY <1>3, UnmadeFacts DEF ThereInv
  <2>2. ASSUME NEW b \in Actions PROVE Filled(b)' /\ Present(b)'
    BY <1>3, OthersThere DEF ThereInv
  <2> QED
    BY <2>1, <2>2
<1>4. ASSUME NEW a \in Actions, Hit(a) PROVE Rest'
  <2>1. disk' = disk /\ act' = [act EXCEPT ![a] = "ok"] /\ \A o \in Outs[a] : disk[o] # Absent
    BY <1>4 DEF Hit, IsCurrent
  <2>2. \A p \in Makes[a] : disk[p] # Absent
    BY <2>1, FillFacts DEF ThereInv, Filled
  <2>3. Filled(a)' /\ Present(a)'
    BY <2>1, <2>2 DEF Filled, Present
  <2> QED
    BY <1>0, <1>3, <2>1, <2>3
<1>5. ASSUME NEW a \in Actions, disk' = disk, NEW w \in {"go", "failed"}, act' = [act EXCEPT ![a] = w]
      PROVE  Rest'
  <2>1. act'[a] = w
    BY <1>0, <1>5
  <2>2. Filled(a)' /\ Present(a)'
    BY <1>5, <2>1 DEF ThereInv, Filled, Present
  <2> QED
    BY <1>0, <1>3, <1>5, <2>2
<1>6. ASSUME NEW a \in Actions, Prepare(a) PROVE Rest'
  <2>1. act'[a] = "running" /\ \A p \in Makes[a] \ Outs[a] : disk'[p] = Partial
    BY <1>0, <1>6, PathFacts DEF Prepare
  <2>2. Filled(a)' /\ Present(a)'
    BY <1>0, <2>1 DEF Filled, Present
  <2> QED
    BY <1>0, <1>3, <1>6, <2>2 DEF Prepare
<1>7. ASSUME NEW a \in Actions, Succeed(a) PROVE Rest'
  <2>1. \A p \in Makes[a] : disk'[p] = Whole(a, p)
    BY <1>7, PathFacts DEF Succeed
  <2>2. \A p \in Makes[a] : disk'[p] # Absent
    BY <1>0, <2>1, WholeType
  <2>3. Filled(a)' /\ Present(a)'
    BY <2>2 DEF Filled, Present
  <2> QED
    BY <1>0, <1>3, <1>7, <2>3 DEF Succeed
<1>8. ASSUME NEW a \in Actions, Record(a) PROVE Rest'
  <2>1. act[a] = "made" /\ disk' = disk /\ act' = [act EXCEPT ![a] = "ok"]
    BY <1>8 DEF Record
  <2>2. Filled(a)' /\ Present(a)'
    BY <1>0, <2>1 DEF ThereInv, Filled, Present
  <2> QED
    BY <1>0, <1>3, <2>1, <2>2
<1>9. ASSUME NEW a \in Actions, NEW left, Fail(a, left) PROVE Rest'
  <2>1. act[a] = "running" /\ act'[a] = "failed" /\ \A p \in Makes[a] : disk'[p] = left[p] /\ left[p] \in LeftAt(a, p)
    BY <1>0, <1>9, PathFacts DEF Fail, Fault
  <2>2. \A p \in Makes[a] \ Outs[a] : disk'[p] # Absent
    BY <1>0, <2>1, LeftIsThere DEF ThereInv
  <2>3. Filled(a)' /\ Present(a)'
    BY <2>1, <2>2 DEF Filled, Present
  <2> QED
    BY <1>0, <1>3, <1>9, <2>3 DEF Fail, Fault
<1>10. ASSUME NEW left, Kill(left) PROVE Rest'
  <2>1. \A a \in Actions : act'[a] = "off"
    BY <1>10 DEF Kill, Gone
  <2>2. \A p \in Paths : disk'[p] = IF p \in Running THEN left[p] ELSE disk[p]
    BY <1>10 DEF Kill
  <2>3. \A p \in Unmade : disk'[p] = Absent
    BY <2>2, UnmadeFacts DEF ThereInv, Running
  <2>4. ASSUME NEW a \in Actions, NEW q \in Makes[a] \ Outs[a], NEW o \in Outs[a], disk'[o] # Absent
        PROVE  disk'[q] # Absent
    <3>0. q \in Paths /\ o \in Paths /\ o \in Makes[a]
      BY <2>4, PathFacts, FillFacts
    <3>1. CASE act[a] = "running"
      <4>1. q \in Running /\ left[q] \in LeftAt(a, q)
        BY <1>10, <2>4, <3>1 DEF Kill, Running
      <4> QED
        BY <1>0, <2>2, <2>4, <3>0, <3>1, <4>1, LeftIsThere DEF ThereInv
    <3>2. CASE act[a] # "running"
      <4>1. q \notin Running /\ o \notin Running
        BY <2>4, <3>0, <3>2, PathFacts DEF Running
      <4> QED
        BY <2>2, <2>4, <3>0, <4>1 DEF ThereInv, Filled
    <3> QED
      BY <3>1, <3>2
  <2> QED
    BY <2>1, <2>3, <2>4 DEF Filled, Present
<1>11. CASE UNCHANGED cacheVars
  BY <1>11 DEF cacheVars, ThereInv, Filled, Present
<1>12. CASE \E p \in Sources, v \in Values \cup {Absent} : EditFile(p, v)
  BY <1>1, <1>12 DEF Paths
<1>13. CASE \E p \in Outputs : EditFile(p, Absent)
  BY <1>1, <1>13 DEF Paths
<1>14. CASE \E p \in Outputs \ (Dirs \cup Links) : EditFile(p, Partial)
  BY <1>1, <1>14 DEF Paths
<1>15. ASSUME NEW a \in Actions, NEW d, EditDef(a, d) PROVE Rest'
  BY <1>0, <1>2, <1>15 DEF EditDef, Change
<1>16. ASSUME NEW lost, Load(lost) PROVE Rest'
  BY <1>2, <1>16 DEF Load
<1>17. CASE Save
  BY <1>2, <1>17 DEF Save, Gone
<1>18. ASSUME NEW a \in Actions, Miss(a) \/ Skip(a) \/ PrepareFails(a) PROVE Rest'
  BY <1>5, <1>18 DEF Miss, Skip, PrepareFails, Fault
<1> QED
  BY <1>4, <1>6, <1>7, <1>8, <1>9, <1>10, <1>11, <1>12, <1>13, <1>14, <1>15, <1>16, <1>17, <1>18
     DEF CacheNext

-----------------------------------------------------------------------------
(* Keys.  An action about to run, and one that is done, has the key of its       *)
(* inputs as they are, if they can be told.  They can unless it is one of those  *)
(* that never have a key: what makes its inputs is done, and their directories   *)
(* are noted.                                                                    *)

Told(a) == \A i \in Ins[a] : Digest(i) # NoDigest
NowKey(a) == {[def |-> def[a], in |-> [i \in Ins[a] |-> Digest(i)]]}

Done(a) ==
  /\ \A o \in Outs[a] \cap Dirs :
       dirs[o] = IF Told(a) /\ disk[o] # Absent THEN entry[a].key ELSE NoDigest
  /\ Told(a) => /\ entry[a].key = NowKey(a)
                /\ \A o \in Outs[a] : entry[a].out[o] = Seen(o, entry[a].key)
  /\ ~Told(a) => Right(a)
One(a) ==
  /\ Working(a) => key[a] = IF Told(a) THEN NowKey(a) ELSE NoKey
  /\ act[a] \in Busy => Told(a) \/ a \in Untold \/ (act[a] = "go" /\ Missing(a))
  /\ act[a] # "ok" => \A o \in Outs[a] \cap Dirs : dirs[o] = NoDigest
  /\ act[a] = "made" => Right(a)
  /\ act[a] = "ok" => Done(a)
KeyInv == ThereInv /\ (\A p \in Dirs \cap Sources : dirs[p] = NoDigest) /\ \A a \in Actions : One(a)

(* The key of an action is made of what the digests are, if they can be told. *)
LEMMA KeyIsDigests ==
  ASSUME OrderInv, NEW a \in Actions
  PROVE  KeyOf(a) = IF Told(a) THEN NowKey(a) ELSE NoKey
<1>1. \A i \in Ins[a] : Fragment(i) = Digest(i)
  BY FragmentIsDigest, PathFacts DEF OrderInv
<1>2. [i \in Ins[a] |-> Fragment(i)] = [i \in Ins[a] |-> Digest(i)]
  BY <1>1
<1> QED
  BY <1>1, <1>2 DEF KeyOf, Told, NowKey

(* An action that is not among those without a key reads nothing blind, and no   *)
(* directory of one that is.                                                     *)
LEMMA KeyedReads ==
  ASSUME NEW a \in Actions, a \notin Untold, NEW i \in Ins[a]
  PROVE  i \notin Blind /\ \A b \in Untold : i \notin Dirs \cap Outs[b]
<1>1. PICK T \in SUBSET Actions : Closed(T) /\ a \notin T
  BY DEF Untold
<1>2. Untold \subseteq T
  BY <1>1 DEF Untold
<1> QED
  BY <1>1, <1>2 DEF Closed

(* The key can be told of every such action that may start and has its sources. *)
LEMMA ReadyIsTold ==
  ASSUME KeyInv, NEW a \in Actions, Ready(a), ~Missing(a), a \notin Untold
  PROVE  Told(a)
<1> SUFFICES ASSUME NEW i \in Ins[a] PROVE Digest(i) # NoDigest
  BY DEF Told
<1>0. i \notin Blind /\ (\A b \in Untold : i \notin Dirs \cap Outs[b]) /\ Order
  BY KeyedReads DEF KeyInv, ThereInv, OrderInv
<1>1. CASE i \in Sources
  <2>1. i \notin Dirs /\ i \notin Dangling /\ disk[i] # Absent
    BY <1>0, <1>1 DEF Blind, Missing
  <2> QED
    BY <2>1 DEF Digest
<1>2. CASE i \in Outputs
  <2>1. PICK b \in Actions : i \in Outs[b]
    BY <1>2 DEF Outputs
  <2>2. PICK c \in Actions : i \in Makes[c]
    BY <1>0, <1>2 DEF Blind, Unmade
  <2>3. act[b] = "ok" /\ act[c] = "ok"
    BY <1>0, <2>1, <2>2, MakersAreDone
  <2>4. disk[i] # Absent /\ i \notin Dangling
    BY <1>0, <2>2, <2>3 DEF KeyInv, ThereInv, Present, Blind
  <2>5. CASE i \in Dirs
    <3>1. One(b) /\ b \notin Untold
      BY <1>0, <2>1, <2>5 DEF KeyInv
    <3>2. Told(b)
      BY <2>3, <3>1 DEF One, Busy
    <3>3. dirs[i] = NowKey(b)
      BY <2>1, <2>3, <2>4, <2>5, <3>1, <3>2 DEF One, Done
    <3> QED
      BY <2>4, <2>5, <3>3 DEF Digest, NowKey
  <2> QED
    BY <2>4, <2>5 DEF Digest
<1> QED
  BY <1>1, <1>2, PathFacts DEF Paths

(* And it cannot be told of those that are. *)
LEMMA UntoldIsNotTold ==
  ASSUME KeyInv, NEW a \in Untold, act[a] \in Busy
  PROVE  ~Told(a)
<1> DEFINE T == {c \in Actions : ~(act[c] \in Busy /\ Told(c))}
<1>1. ASSUME NEW c \in Actions, NEW i \in Ins[c], i \in Blind, Told(c) PROVE FALSE
  <2>1. Digest(i) # NoDigest
    BY <1>1 DEF Told
  <2>2. disk[i] # Absent /\ i \notin Dangling /\ (i \in Dirs => dirs[i] # NoDigest)
    BY <2>1 DEF Digest
  <2> QED
    BY <1>1, <2>2 DEF Blind, KeyInv, ThereInv
<1>2. ASSUME NEW c \in Actions, NEW i \in Ins[c], NEW b \in T, i \in Dirs \cap Outs[b],
             act[c] \in Busy, Told(c)
      PROVE  FALSE
  <2>1. act[b] = "ok" /\ b \in Actions
    BY <1>2, MakersAreDone DEF KeyInv, ThereInv, OrderInv
  <2>2. ~Told(b)
    BY <1>2, <2>1 DEF Busy
  <2>3. dirs[i] = NoDigest
    BY <1>2, <2>1, <2>2 DEF KeyInv, One, Done
  <2> QED
    BY <1>2, <2>3 DEF Told, Digest
<1>3. Closed(T)
  BY <1>1, <1>2 DEF Closed
<1>4. a \in T
  BY <1>3 DEF Untold
<1> QED
  BY <1>4

(* A step that leaves the inputs of an action alone leaves its key alone. *)
LEMMA KeyKept ==
  ASSUME NEW b \in Actions, def' = def,
         \A p \in Ins[b] : disk'[p] = disk[p] /\ (p \in Dirs => dirs'[p] = dirs[p])
  PROVE  /\ NowKey(b)' = NowKey(b) /\ Told(b)' = Told(b) /\ Missing(b)' = Missing(b)
         /\ [i \in Ins[b] |-> disk[i]]' = [i \in Ins[b] |-> disk[i]]
         /\ \A o : Whole(b, o)' = Whole(b, o)
<1>1. \A i \in Ins[b] : Digest(i)' = Digest(i)
  BY DEF Digest
<1>2. [i \in Ins[b] |-> Digest(i)]' = [i \in Ins[b] |-> Digest(i)]
  BY <1>1
<1>3. [i \in Ins[b] |-> disk[i]]' = [i \in Ins[b] |-> disk[i]]
  OBVIOUS
<1>4. \A o : Whole(b, o)' = Whole(b, o)
  BY <1>3 DEF Whole
<1> QED
  BY <1>1, <1>2, <1>3, <1>4 DEF NowKey, Told, Missing

(* A step of one action disturbs neither the key nor the outputs of another that *)
(* is busy.                                                                      *)
LEMMA OthersKept ==
  ASSUME Order, NEW a \in Actions, act[a] # "ok", def' = def, Frame(a),
         NEW b \in Actions, b # a, act[b] \in Busy
  PROVE  /\ NowKey(b)' = NowKey(b) /\ Told(b)' = Told(b) /\ Missing(b)' = Missing(b)
         /\ \A p \in Ins[b] \cup Outs[b] : disk'[p] = disk[p] /\ (p \in Dirs => dirs'[p] = dirs[p])
         /\ Right(b) => Right(b)'
<1>1. \A p \in Ins[b] : p \notin Outs[a] /\ p \notin Makes[a]
  BY MakersAreDone
<1>2. \A p \in Outs[b] : p \notin Outs[a] /\ p \notin Makes[a]
  BY FillersAreDone, PathFacts
<1>3. \A p \in Ins[b] \cup Outs[b] : disk'[p] = disk[p] /\ (p \in Dirs => dirs'[p] = dirs[p])
  BY <1>1, <1>2, PathFacts DEF Frame
<1>4. \A p \in Makes[b] : disk'[p] = disk[p]
  BY PathFacts DEF Frame
<1>5. /\ NowKey(b)' = NowKey(b) /\ Told(b)' = Told(b) /\ Missing(b)' = Missing(b)
      /\ \A o : Whole(b, o)' = Whole(b, o)
  BY <1>3, KeyKept
<1> QED
  BY <1>3, <1>4, <1>5 DEF Right

(* The same for the action itself, as its inputs are not its outputs. *)
LEMMA OwnKept ==
  ASSUME NEW a \in Actions, def' = def, Frame(a)
  PROVE  /\ NowKey(a)' = NowKey(a) /\ Told(a)' = Told(a) /\ Missing(a)' = Missing(a)
         /\ \A o : Whole(a, o)' = Whole(a, o)
<1>1. \A p \in Ins[a] : p \notin Outs[a] /\ p \notin Makes[a]
  BY GraphAssumption
<1>2. \A p \in Ins[a] : disk'[p] = disk[p] /\ (p \in Dirs => dirs'[p] = dirs[p])
  BY <1>1, PathFacts DEF Frame
<1> QED
  BY <1>2, KeyKept

(* The form of every step of one action. *)
LEMMA KeyInvOneAction ==
  ASSUME KeyInv, ThereInv', NEW a \in Actions, act[a] # "ok", def' = def, Frame(a),
         \A b \in Actions \ {a} : act'[b] = act[b] /\ key'[b] = key[b] /\ entry'[b] = entry[b],
         One(a)'
  PROVE  KeyInv'
<1>1. ASSUME NEW b \in Actions, b # a PROVE One(b)'
  <2>0. One(b) /\ act'[b] = act[b] /\ key'[b] = key[b] /\ entry'[b] = entry[b]
    BY <1>1 DEF KeyInv
  <2>1. CASE act[b] \in Busy
    <3>1. /\ NowKey(b)' = NowKey(b) /\ Told(b)' = Told(b) /\ Missing(b)' = Missing(b)
          /\ \A p \in Ins[b] \cup Outs[b] : disk'[p] = disk[p] /\ (p \in Dirs => dirs'[p] = dirs[p])
          /\ Right(b) => Right(b)'
      BY <1>1, <2>1, OthersKept DEF KeyInv, ThereInv, OrderInv
    <3>2. Done(b) => Done(b)'
      BY <2>0, <3>1 DEF Done, Seen
    <3> QED
      BY <2>0, <2>1, <3>1, <3>2 DEF One, Working
  <2>2. CASE act[b] \notin Busy
    <3>1. \A o \in Outs[b] \cap Dirs : dirs'[o] = dirs[o]
      BY <1>1, PathFacts DEF Frame
    <3> QED
      BY <2>0, <2>2, <3>1 DEF One, Working, Busy
  <2> QED
    BY <2>1, <2>2
<1>2. \A p \in Dirs \cap Sources : dirs'[p] = NoDigest
  BY PathFacts DEF KeyInv, Frame
<1> QED
  BY <1>1, <1>2 DEF KeyInv

(* Before the first build no action has a key. *)
LEMMA KeyInvInit == CacheInit => KeyInv
BY ThereInit DEF CacheInit, KeyInv, One, Working, Busy, Nothing

(* Every step keeps the keys of the actions under way and done those of their inputs. *)
LEMMA KeyInvStep == KeyInv /\ [CacheNext]_cacheVars => KeyInv'
<1> SUFFICES ASSUME KeyInv, [CacheNext]_cacheVars PROVE KeyInv'
  OBVIOUS
<1>0. /\ act \in [Actions -> Idle \cup {"off", "go", "running", "made"}] /\ OrderInv /\ ThereInv /\ ThereInv'
      /\ DOMAIN key = Actions /\ DOMAIN entry = Actions /\ CacheTypeOK
  BY ThereStep DEF KeyInv, ThereInv, OrderInv, CacheTypeOK
(* Between builds nothing is noted. *)
<1>1. ASSUME \A a \in Actions : act'[a] \in {"off", "todo"}, \A a \in Actions : act[a] # "ok", dirs' = dirs
      PROVE  KeyInv'
  BY <1>0, <1>1 DEF KeyInv, One, Working, Busy
<1>2. ASSUME Change PROVE KeyInv'
  BY <1>0, <1>1, <1>2 DEF Change
<1>3. ASSUME NEW lost \in BOOLEAN, Load(lost) PROVE KeyInv'
  BY <1>0, <1>1, <1>3 DEF Load
<1>4. ASSUME Gone PROVE KeyInv'
  BY <1>0, <1>4 DEF Gone, KeyInv, One, Working, Busy, Nothing
<1>5. ASSUME NEW a \in Actions, Hit(a) PROVE KeyInv'
  <2>0. Ready(a) /\ IsCurrent(a, KeyOf(a)) /\ dirs' = NoteDirs(a, KeyOf(a)) /\ act' = [act EXCEPT ![a] = "ok"]
        /\ UNCHANGED <<disk, def, entry, key>>
    BY <1>5 DEF Hit
  <2>1. Frame(a)
    BY <2>0 DEF NoteDirs, Frame
  <2>2. Told(a) /\ entry[a].key = NowKey(a) /\ KeyOf(a) = NowKey(a)
    BY <1>0, <2>0, KeyIsDigests DEF IsCurrent
  <2>3. \A o \in Outs[a] : disk[o] # Absent /\ entry[a].out[o] = Seen(o, entry[a].key)
    BY <2>0, <2>2 DEF IsCurrent
  <2>4. \A o \in Outs[a] \cap Dirs : dirs'[o] = entry[a].key
    BY <2>0, <2>2, <2>3 DEF NoteDirs
  <2>5. \A o \in Outs[a] : Seen(o, entry[a].key)' = Seen(o, entry[a].key)
    BY <2>0 DEF Seen
  <2>6. Told(a)' /\ NowKey(a)' = NowKey(a)
    BY <2>0, <2>1, <2>2, OwnKept
  <2>7. Done(a)'
    BY <2>0, <2>2, <2>3, <2>4, <2>5, <2>6 DEF Done
  <2>8. act'[a] = "ok" /\ act[a] # "ok" /\ \A b \in Actions \ {a} : act'[b] = act[b]
    BY <1>0, <2>0 DEF Ready
  <2>9. One(a)'
    BY <2>6, <2>7, <2>8 DEF One, Working
  <2> QED
    BY <1>0, <2>0, <2>1, <2>8, <2>9, KeyInvOneAction
<1>6. ASSUME NEW a \in Actions, Miss(a) PROVE KeyInv'
  <2>0. Ready(a) /\ UNCHANGED <<disk, def, entry, dirs>>
    BY <1>6 DEF Miss
  <2>1. act'[a] = "go" /\ act[a] # "ok" /\ key'[a] = KeyOf(a)
        /\ \A b \in Actions \ {a} : act'[b] = act[b] /\ key'[b] = key[b]
    BY <1>0, <1>6 DEF Miss, Ready
  <2>2. Missing(a) \/ Told(a) \/ a \in Untold
    BY <2>0, ReadyIsTold
  <2>3. Frame(a)
    BY <2>0 DEF Frame
  <2>4. NowKey(a)' = NowKey(a) /\ Told(a)' = Told(a) /\ Missing(a)' = Missing(a)
    BY <2>0, <2>3, OwnKept
  <2>5. key'[a] = IF Told(a) THEN NowKey(a) ELSE NoKey
    BY <1>0, <2>1, KeyIsDigests
  <2>6. \A o \in Outs[a] \cap Dirs : dirs'[o] = NoDigest
    BY <2>0, <2>1 DEF KeyInv, One
  <2>7. One(a)'
    BY <2>1, <2>2, <2>4, <2>5, <2>6 DEF One, Working
  <2> QED
    BY <1>0, <2>0, <2>1, <2>3, <2>7, KeyInvOneAction
(* A step of an action that is under way and does not end well, or not yet. *)
<1>7. ASSUME NEW a \in Actions, act[a] \in {"go", "running"}, def' = def,
             entry' = entry, dirs' = dirs, key' = key,
             NEW w \in {"running", "made", "failed"}, act' = [act EXCEPT ![a] = w],
             w = "running" => ~Missing(a), w = "made" => act[a] = "running",
             \A p \in Paths \ Makes[a] : disk'[p] = disk[p],
             w = "made" => Right(a)'
      PROVE  KeyInv'
  <2>1. act'[a] = w /\ \A b \in Actions \ {a} : act'[b] = act[b]
    BY <1>0, <1>7
  <2>2. One(a)
    BY DEF KeyInv
  <2>3. Frame(a)
    BY <1>7 DEF Frame
  <2>4. NowKey(a)' = NowKey(a) /\ Told(a)' = Told(a) /\ Missing(a)' = Missing(a)
    BY <1>7, <2>3, OwnKept
  <2>5. One(a)'
    BY <1>7, <2>1, <2>2, <2>4 DEF One, Working, Busy
  <2> QED
    BY <1>0, <1>7, <2>1, <2>3, <2>5, KeyInvOneAction
<1>8. ASSUME NEW a \in Actions, Skip(a) PROVE KeyInv'
  BY <1>7, <1>8 DEF Skip
<1>9. ASSUME NEW a \in Actions, Prepare(a) PROVE KeyInv'
  BY <1>7, <1>9 DEF Prepare
<1>10. ASSUME NEW a \in Actions, PrepareFails(a) PROVE KeyInv'
  BY <1>7, <1>10 DEF PrepareFails, Fault
<1>11. ASSUME NEW a \in Actions, Succeed(a) PROVE KeyInv'
  <2>1. /\ \A p \in Paths \ Makes[a] : disk'[p] = disk[p]
        /\ \A o \in Makes[a] : disk'[o] = Whole(a, o)
    BY <1>11, PathFacts DEF Succeed
  <2>2. Frame(a) /\ def' = def
    BY <1>11, <2>1 DEF Frame, Succeed
  <2>3. Right(a)'
    BY <2>1, <2>2, OwnKept DEF Right
  <2> QED
    BY <1>7, <1>11, <2>1, <2>3 DEF Succeed
<1>12. ASSUME NEW a \in Actions, Record(a) PROVE KeyInv'
  <2>0. act[a] = "made" /\ act' = [act EXCEPT ![a] = "ok"] /\ UNCHANGED <<disk, def, key>>
    BY <1>12 DEF Record
  <2>1. /\ One(a) /\ key[a] = IF Told(a) THEN NowKey(a) ELSE NoKey
        /\ Right(a) /\ (Told(a) \/ a \in Untold) /\ \A o \in Outs[a] \cap Dirs : dirs[o] = NoDigest
    BY <2>0 DEF KeyInv, One, Working, Busy
  <2>2. /\ Frame(a) /\ \A b \in Actions \ {a} : entry'[b] = entry[b]
    BY <1>0, <1>12, <2>0 DEF Record, NoteDirs, Frame
  <2>3. NowKey(a)' = NowKey(a) /\ Told(a)' = Told(a)
    BY <2>0, <2>2, OwnKept
  <2>4. act'[a] = "ok" /\ \A b \in Actions \ {a} : act'[b] = act[b]
    BY <1>0, <2>0
  <2>5. ASSUME Told(a) PROVE One(a)'
    <3>1. key[a] = NowKey(a) /\ key[a] # NoKey
      BY <2>1, <2>5 DEF NowKey
    <3>2. /\ dirs' = NoteDirs(a, key[a])
          /\ entry' = [entry EXCEPT ![a] = [key |-> key[a], out |-> [o \in Outs[a] |-> Seen(o, key[a])]]]
      BY <1>12, <3>1 DEF Record
    <3>3. entry'[a].key = key[a] /\ \A o \in Outs[a] : entry'[a].out[o] = Seen(o, key[a])
      BY <1>0, <3>2
    <3>4. \A o \in Outs[a] \cap Dirs : dirs'[o] = IF disk'[o] # Absent THEN key[a] ELSE NoDigest
      BY <2>0, <2>1, <3>2 DEF NoteDirs
    <3>5. \A o \in Outs[a] : Seen(o, entry[a].key)' = Seen(o, key[a])
      BY <2>0, <3>3 DEF Seen
    <3>6. Done(a)'
      BY <2>0, <2>3, <2>5, <3>1, <3>3, <3>4, <3>5 DEF Done
    <3> QED
      BY <2>3, <2>4, <2>5, <3>6 DEF One, Working
  <2>6. ASSUME ~Told(a) PROVE One(a)'
    <3>1. dirs' = dirs /\ entry' = entry
      BY <1>12, <2>1, <2>6 DEF Record
    <3>2. Right(a)'
      BY <2>0, <2>1 DEF Right, Whole
    <3>3. Done(a)'
      BY <2>1, <2>3, <2>6, <3>1, <3>2 DEF Done
    <3> QED
      BY <2>1, <2>3, <2>4, <2>6, <3>3 DEF One, Working
  <2>7. One(a)'
    BY <2>5, <2>6
  <2> QED
    BY <1>0, <2>0, <2>2, <2>4, <2>7, KeyInvOneAction
<1>13. ASSUME NEW a \in Actions, NEW left, Fail(a, left) PROVE KeyInv'
  BY <1>7, <1>13 DEF Fail, Fault
<1>14. CASE UNCHANGED cacheVars
  <2>1. \A a \in Actions : NowKey(a)' = NowKey(a) /\ Told(a)' = Told(a) /\ Missing(a)' = Missing(a)
                           /\ \A o : Whole(a, o)' = Whole(a, o)
    BY <1>14, KeyKept DEF cacheVars
  <2>2. \A a \in Actions : Right(a)' <=> Right(a)
    BY <1>14, <2>1 DEF cacheVars, Right
  <2>3. \A a \in Actions : Done(a) => Done(a)'
    BY <1>14, <2>1, <2>2 DEF cacheVars, Done, Seen
  <2>4. \A a \in Actions : One(a) => One(a)'
    BY <1>14, <2>1, <2>2, <2>3 DEF cacheVars, One, Working
  <2> QED
    BY <1>0, <1>14, <2>4 DEF cacheVars, KeyInv
<1> QED
  BY <1>2, <1>3, <1>4, <1>5, <1>6, <1>8, <1>9, <1>10, <1>11, <1>12, <1>13, <1>14
     DEF CacheNext, EditFile, EditDef, Save, Kill
-----------------------------------------------------------------------------
(* Files.  An entry of an action of plain files, in memory or in the cache file, *)
(* gives for its key what the command makes of it, whatever has become of the    *)
(* outputs since.                                                                *)

PlainKey(a, d, got) == {[def |-> d, in |-> [i \in Ins[a] |-> {got[i]}]]}
EntriesRight(e) ==
  \A a \in Actions : Plain(a) => \A d \in Defs[a], got \in [Ins[a] -> Contents] :
    e[a].key = PlainKey(a, d, got) => \A o \in Outs[a] : e[a].out[o] = Make(a, d, got, o)
DoneRight == \A a \in Actions : act[a] = "ok" /\ Plain(a) => Right(a)
CacheInv == KeyInv /\ EntriesRight(saved) /\ EntriesRight(entry) /\ DoneRight

(* A key of plain files tells the definition and the contents. *)
LEMMA PlainKeyTells ==
  ASSUME NEW a, NEW d, NEW e, NEW got \in [Ins[a] -> Contents], NEW had \in [Ins[a] -> Contents],
         PlainKey(a, d, got) = PlainKey(a, e, had)
  PROVE  d = e /\ got = had
<1> DEFINE G == [i \in Ins[a] |-> {got[i]}]
           H == [i \in Ins[a] |-> {had[i]}]
<1>1. [def |-> d, in |-> G] = [def |-> e, in |-> H]
  <2> HIDE DEF G, H
  <2>1. {[def |-> d, in |-> G]} = {[def |-> e, in |-> H]}
    BY DEF PlainKey, G, H
  <2> QED
    BY <2>1
<1>2. d = e /\ G = H
  <2> HIDE DEF G, H
  <2> QED
    BY <1>1
<1>3. \A i \in Ins[a] : got[i] = had[i]
  <2>1. \A i \in Ins[a] : {got[i]} = {had[i]}
    BY <1>2
  <2> QED
    BY <2>1
<1> QED
  BY <1>2, <1>3

(* The key of an action of plain files is made of their contents. *)
LEMMA PlainDigests ==
  ASSUME CacheTypeOK, NEW a \in Actions, Plain(a), Told(a)
  PROVE  /\ [i \in Ins[a] |-> disk[i]] \in [Ins[a] -> Contents]
         /\ NowKey(a) = PlainKey(a, def[a], [i \in Ins[a] |-> disk[i]])
<1>1. \A i \in Ins[a] : Digest(i) = {disk[i]}
  BY DEF Plain, Told, Digest
<1>2. [i \in Ins[a] |-> Digest(i)] = [i \in Ins[a] |-> {disk[i]}]
  BY <1>1
<1>3. [i \in Ins[a] |-> {disk[i]}] = [i \in Ins[a] |-> {[j \in Ins[a] |-> disk[j]][i]}]
  OBVIOUS
<1> QED
  BY <1>2, <1>3, PathFacts DEF CacheTypeOK, NowKey, PlainKey

(* An action of plain files makes what it declares. *)
LEMMA PlainMakes ==
  ASSUME NEW a \in Actions, Plain(a) PROVE Makes[a] = Outs[a]
<1>1. Outs[a] # {} /\ Outs[a] \cap Dirs = {} /\ Outs[a] \cap Links = {}
  BY FillFacts DEF Plain
<1>2. Outs[a] \subseteq Makes[a]
  BY <1>1, FillFacts
<1>3. ASSUME NEW p \in Makes[a], p \notin Outs[a] PROVE FALSE
  <2>1. PICK b \in Actions : p \in Outs[b]
    BY FillFacts
  <2>2. Outs[a] \subseteq Links
    BY <1>3, <2>1, FillFacts
  <2> QED
    BY <1>1, <2>2
<1> QED
  BY <1>2, <1>3

(* The heart of the matter: a plain action that is current is right. *)
LEMMA CurrentIsRight ==
  ASSUME OrderInv, EntriesRight(entry), NEW a \in Actions, Plain(a), IsCurrent(a, KeyOf(a))
  PROVE  Right(a)
<1> DEFINE got == [i \in Ins[a] |-> disk[i]]
<1>1. Told(a) /\ entry[a].key = NowKey(a) /\ KeyOf(a) = NowKey(a)
  BY KeyIsDigests DEF IsCurrent
<1>2. got \in [Ins[a] -> Contents] /\ entry[a].key = PlainKey(a, def[a], got) /\ def[a] \in Defs[a]
  BY <1>1, PlainDigests DEF OrderInv, CacheTypeOK
<1>3. ASSUME NEW o \in Outs[a] PROVE disk[o] = Whole(a, o)
  <2>1. entry[a].out[o] = disk[o]
    BY DEF IsCurrent, Seen, Plain
  <2>2. entry[a].out[o] = Make(a, def[a], got, o)
    <3> HIDE DEF got
    <3> QED
      BY <1>2 DEF EntriesRight
  <2> QED
    BY <2>1, <2>2 DEF Whole
<1> QED
  BY <1>3, PlainMakes DEF Right

(* An empty cache says nothing wrong. *)
LEMMA CacheInvInit == CacheInit => CacheInv
<1> SUFFICES ASSUME CacheInit PROVE CacheInv
  OBVIOUS
<1>1. \A a \in Actions : saved[a].key = {} /\ entry[a].key = {} /\ act[a] = "off"
  BY DEF CacheInit, Empty, NoEntry
<1> QED
  BY <1>1, KeyInvInit DEF CacheInv, EntriesRight, DoneRight, PlainKey

(* Every step keeps the entries of plain files right. *)
LEMMA CacheInvStep == CacheInv /\ [CacheNext]_cacheVars => CacheInv'
<1> DEFINE Rest == EntriesRight(saved) /\ EntriesRight(entry) /\ DoneRight
<1> SUFFICES ASSUME CacheInv, [CacheNext]_cacheVars PROVE Rest'
  BY KeyInvStep DEF CacheInv
<1>0. /\ act \in [Actions -> Idle \cup {"off", "go", "running", "made"}] /\ OrderInv /\ KeyInv
      /\ CacheTypeOK /\ DOMAIN entry = Actions
  BY DEF CacheInv, KeyInv, ThereInv, OrderInv, CacheTypeOK
<1>e. EntriesRight(Empty)
  BY DEF EntriesRight, Empty, NoEntry, PlainKey
<1>1. ASSUME Change PROVE Rest'
  BY <1>0, <1>1 DEF Change, CacheInv, EntriesRight, DoneRight, Plain
<1>2. ASSUME NEW lost \in BOOLEAN, Load(lost) PROVE Rest'
  <2>1. saved' = saved /\ (entry' = Empty \/ entry' = saved) /\ \A a \in Actions : act'[a] = "todo"
    BY <1>2 DEF Load
  <2> QED
    BY <1>e, <2>1 DEF CacheInv, EntriesRight, DoneRight, Plain
<1>3. ASSUME Gone, saved' = saved \/ saved' = entry PROVE Rest'
  <2>1. entry' = Empty /\ \A a \in Actions : act'[a] = "off"
    BY <1>3 DEF Gone
  <2> QED
    BY <1>3, <1>e, <2>1 DEF CacheInv, EntriesRight, DoneRight, Plain
<1>4. ASSUME NEW a \in Actions, act[a] # "ok", def' = def, saved' = saved,
             Frame(a),
             \A b \in Actions \ {a} : act'[b] = act[b],
             EntriesRight(entry)', act'[a] = "ok" /\ Plain(a) => Right(a)'
      PROVE  Rest'
  <2>1. EntriesRight(saved)'
    BY <1>4 DEF CacheInv, EntriesRight, Plain
  <2>2. DoneRight'
    <3> SUFFICES ASSUME NEW b \in Actions, act'[b] = "ok", Plain(b) PROVE Right(b)'
      BY DEF DoneRight, Plain
    <3>1. CASE b # a
      <4>1. Right(b) /\ act[b] \in Busy
        BY <1>4, <3>1 DEF CacheInv, DoneRight, Busy
      <4> QED
        BY <1>0, <1>4, <3>1, <4>1, OthersKept DEF OrderInv
    <3> QED
      BY <1>4, <3>1
  <2> QED
    BY <1>4, <2>1, <2>2
<1>5. ASSUME NEW a \in Actions, Hit(a) PROVE Rest'
  <2>1. Frame(a)
    BY <1>5 DEF Hit, NoteDirs, Frame
  <2>2. Plain(a) => Right(a)
    BY <1>0, <1>5, CurrentIsRight DEF Hit, CacheInv
  <2>3. Right(a)' <=> Right(a)
    BY <1>5 DEF Hit, Right, Whole
  <2>4. act[a] # "ok" /\ \A b \in Actions \ {a} : act'[b] = act[b]
    BY <1>0, <1>5 DEF Hit, Ready
  <2>5. EntriesRight(entry)'
    BY <1>5 DEF Hit, CacheInv, EntriesRight, Plain
  <2> QED
    BY <1>4, <1>5, <2>1, <2>2, <2>3, <2>4, <2>5 DEF Hit
<1>6. ASSUME NEW a \in Actions, act[a] # "ok", UNCHANGED <<def, saved, entry, dirs>>,
             NEW w, w # "ok", act' = [act EXCEPT ![a] = w],
             \A p \in Paths \ Makes[a] : disk'[p] = disk[p]
      PROVE  Rest'
  <2>1. act'[a] # "ok" /\ \A b \in Actions \ {a} : act'[b] = act[b]
    BY <1>0, <1>6
  <2>2. EntriesRight(entry)'
    BY <1>6 DEF CacheInv, EntriesRight, Plain
  <2>3. Frame(a)
    BY <1>6 DEF Frame
  <2> QED
    BY <1>4, <1>6, <2>1, <2>2, <2>3
<1>7. ASSUME NEW a \in Actions, Miss(a) PROVE Rest'
  BY <1>6, <1>7 DEF Miss, Ready
<1>8. ASSUME NEW a \in Actions, Skip(a) PROVE Rest'
  BY <1>6, <1>8 DEF Skip
<1>9. ASSUME NEW a \in Actions, Prepare(a) PROVE Rest'
  BY <1>6, <1>9 DEF Prepare
<1>10. ASSUME NEW a \in Actions, PrepareFails(a) PROVE Rest'
  BY <1>6, <1>10 DEF PrepareFails, Fault
<1>11. ASSUME NEW a \in Actions, Succeed(a) PROVE Rest'
  BY <1>6, <1>11 DEF Succeed
<1>12. ASSUME NEW a \in Actions, Record(a) PROVE Rest'
  <2>0. act[a] = "made" /\ act' = [act EXCEPT ![a] = "ok"] /\ UNCHANGED <<disk, def, saved>>
    BY <1>12 DEF Record
  <2>1. Right(a) /\ key[a] = IF Told(a) THEN NowKey(a) ELSE NoKey
    BY <2>0 DEF CacheInv, KeyInv, One, Working
  <2>2. Frame(a)
    BY <1>12, <2>0 DEF Record, NoteDirs, Frame
  <2>3. Right(a)'
    BY <2>0, <2>1 DEF Right, Whole
  <2>4. ASSUME key[a] # NoKey PROVE EntriesRight(entry)'
    <3>0. Told(a) /\ key[a] = NowKey(a)
      BY <2>1, <2>4
    <3>1. entry' = [entry EXCEPT ![a] = [key |-> key[a], out |-> [o \in Outs[a] |-> Seen(o, key[a])]]]
      BY <1>12, <2>4 DEF Record
    <3> SUFFICES ASSUME NEW b \in Actions, Plain(b), NEW d \in Defs[b], NEW got \in [Ins[b] -> Contents],
                        entry'[b].key = PlainKey(b, d, got), NEW o \in Outs[b]
                 PROVE  entry'[b].out[o] = Make(b, d, got, o)
      BY DEF EntriesRight, Plain, PlainKey
    <3>2. CASE b # a
      <4>1. entry'[b] = entry[b]
        BY <1>0, <3>1, <3>2
      <4> QED
        BY <4>1 DEF CacheInv, EntriesRight
    <3>3. CASE b = a
      <4> DEFINE now == [i \in Ins[a] |-> disk[i]]
      <4>1. entry'[a].key = key[a] /\ entry'[a].out[o] = Seen(o, key[a])
        BY <1>0, <3>1, <3>3
      <4>2. disk[o] = Make(a, def[a], now, o) /\ disk[o] # Absent
        BY <1>0, <2>1, <3>3, PlainMakes, WholeType DEF Right, Whole
      <4>3. entry'[a].out[o] = disk[o]
        BY <3>3, <4>1, <4>2 DEF Seen, Plain
      <4>4. now \in [Ins[a] -> Contents] /\ key[a] = PlainKey(a, def[a], now)
        BY <1>0, <3>0, <3>3, PlainDigests
      <4> HIDE DEF now
      <4>5. d = def[a] /\ got = now
        BY <3>3, <4>1, <4>4, PlainKeyTells
      <4> QED
        BY <3>3, <4>2, <4>3, <4>5
    <3> QED
      BY <3>2, <3>3
  <2>5. ASSUME key[a] = NoKey PROVE EntriesRight(entry)'
    <3>1. entry' = entry
      BY <1>12, <2>5 DEF Record
    <3> QED
      BY <3>1 DEF CacheInv, EntriesRight, Plain
  <2>6. act[a] # "ok" /\ \A b \in Actions \ {a} : act'[b] = act[b]
    BY <1>0, <2>0
  <2> QED
    BY <1>4, <2>0, <2>2, <2>3, <2>4, <2>5, <2>6
<1>13. ASSUME NEW a \in Actions, NEW left, Fail(a, left) PROVE Rest'
  BY <1>6, <1>13 DEF Fail, Fault
<1>14. CASE UNCHANGED cacheVars
  BY <1>14 DEF cacheVars, CacheInv, EntriesRight, DoneRight, Right, Whole, Plain
<1> QED
  BY <1>1, <1>2, <1>3, <1>5, <1>7, <1>8, <1>9, <1>10, <1>11, <1>12, <1>13, <1>14
     DEF CacheNext, EditFile, EditDef, Save, Kill

(* An action of plain files that counts as done has the outputs its command      *)
(* makes of its inputs, through kills, failures, edits and their undoing.        *)
THEOREM CacheFilesRight == CacheSpec => []FilesAreRight
<1>1. CacheInv => FilesAreRight
  BY DEF CacheInv, DoneRight, FilesAreRight
<1> QED
  BY <1>1, CacheInvInit, CacheInvStep, PTL DEF CacheSpec
-----------------------------------------------------------------------------
(* Null builds.  `was' is what a build that made everything left on disk.  Each  *)
(* entry in the file of an action that can have a key has the one its action     *)
(* would get: of a directory among its inputs, the key of the entry of whatever  *)
(* declares it.  The others make again what they made.                           *)

Maker(i) == CHOOSE m \in Actions : i \in Outs[m]
InKey(was, e, i) == IF i \in Dirs THEN e[Maker(i)].key ELSE {was[i]}
FlatKey(was, e, a) == {[def |-> def[a], in |-> [i \in Ins[a] |-> InKey(was, e, i)]]}
Settled(was, e, a) ==
  /\ e[a].key = FlatKey(was, e, a) /\ \A i \in Ins[a] : was[i] # Absent
  /\ Outs[a] \cap Unmade = {} => \A o \in Outs[a] :
       /\ was[o] # Absent
       /\ e[a].out[o] = IF o \in Links THEN "symlink"
                        ELSE IF o \in Dirs THEN <<"directory", e[a].key>> ELSE was[o]
Remade(was, a) == \A o \in Makes[a] : was[o] = Make(a, def[a], [i \in Ins[a] |-> was[i]], o)
MayWork(a) == a \in Untold \/ Outs[a] \cap Unmade # {}
QuietOf(was) ==
  /\ \A a \in Actions \ Untold : Settled(was, saved, a) /\ (building => Settled(was, entry, a))
  /\ \A a \in Untold : Remade(was, a)
  /\ \A a \in Actions : Working(a) => MayWork(a)
  /\ \A p \in Paths : disk[p] = was[p] \/ \E a \in Actions : act[a] = "running" /\ p \in Makes[a]
QuietInv == KeyInv /\ (quiet => \E was : QuietOf(was))

(* An output is declared once. *)
LEMMA MakerIsOne ==
  ASSUME NEW m \in Actions, NEW i \in Outs[m] PROVE Maker(i) = m
<1>1. Maker(i) \in Actions /\ i \in Outs[Maker(i)]
  BY DEF Maker
<1> QED
  BY <1>1, PathFacts

(* What an action under way reads is what the last build left. *)
LEMMA InputsAsTheyWere ==
  ASSUME KeyInv, NEW was, QuietOf(was), NEW a \in Actions, Ready(a) \/ act[a] \in Busy
  PROVE  \A i \in Ins[a] : disk[i] = was[i]
<1> SUFFICES ASSUME NEW i \in Ins[a], disk[i] # was[i] PROVE FALSE
  OBVIOUS
<1>1. PICK c \in Actions : act[c] = "running" /\ i \in Makes[c]
  BY PathFacts DEF QuietOf
<1>2. act[c] = "ok"
  BY <1>1, MakersAreDone DEF KeyInv, ThereInv, OrderInv
<1> QED
  BY <1>1, <1>2

(* The digest of an input is found in the entries, once its maker is done. *)
LEMMA DigestInEntries ==
  ASSUME KeyInv, NEW a \in Actions \ Untold, Ready(a) \/ act[a] \in Busy, NEW i \in Ins[a],
         NEW was, disk[i] = was[i], was[i] # Absent
  PROVE  Digest(i) = InKey(was, entry, i)
<1>0. i \notin Blind /\ \A b \in Untold : i \notin Dirs \cap Outs[b]
  BY KeyedReads
<1>1. CASE i \notin Dirs
  BY <1>0, <1>1 DEF Digest, InKey, Blind
<1>2. CASE i \in Dirs
  <2>1. PICK m \in Actions : i \in Outs[m]
    BY <1>0, <1>2, PathFacts DEF Blind, Paths, Outputs
  <2>2. act[m] = "ok" /\ m \notin Untold
    BY <1>0, <1>2, <2>1, MakersAreDone DEF KeyInv, ThereInv, OrderInv
  <2>3. Told(m) /\ Done(m)
    BY <2>2 DEF KeyInv, One, Busy
  <2>4. dirs[i] = entry[m].key
    BY <1>2, <2>1, <2>3 DEF Done
  <2> QED
    BY <1>0, <1>2, <2>1, <2>4, MakerIsOne DEF Digest, InKey, Blind
<1> QED
  BY <1>1, <1>2

(* Keys of an action are the same if its inputs are. *)
LEMMA FlatKeyIsNow ==
  ASSUME NEW was, NEW e, NEW a \in Actions, \A i \in Ins[a] : Digest(i) = InKey(was, e, i)
  PROVE  NowKey(a) = FlatKey(was, e, a)
<1>1. [i \in Ins[a] |-> Digest(i)] = [i \in Ins[a] |-> InKey(was, e, i)]
  OBVIOUS
<1> QED
  BY <1>1 DEF NowKey, FlatKey

(* What is settled has the key of its entry. *)
LEMMA SettledKey ==
  ASSUME KeyInv, NEW was, QuietOf(was), building, NEW a \in Actions \ Untold,
         Ready(a) \/ act[a] \in Busy
  PROVE  entry[a].key = NowKey(a) /\ \A i \in Ins[a] : disk[i] = was[i] /\ was[i] # Absent
<1>1. Settled(was, entry, a)
  BY DEF QuietOf
<1>2. \A i \in Ins[a] : disk[i] = was[i] /\ was[i] # Absent
  BY <1>1, InputsAsTheyWere DEF Settled
<1>3. \A i \in Ins[a] : Digest(i) = InKey(was, entry, i)
  BY <1>2, DigestInEntries
<1> QED
  BY <1>1, <1>2, <1>3, FlatKeyIsNow DEF Settled

(* What is settled is a hit, unless it stands for a tree that is not made. *)
LEMMA SettledIsCurrent ==
  ASSUME KeyInv, NEW was, QuietOf(was), building, NEW a \in Actions, Ready(a), ~MayWork(a)
  PROVE  IsCurrent(a, KeyOf(a))
<1>0. a \notin Untold /\ Outs[a] \cap Unmade = {} /\ Settled(was, entry, a)
  BY DEF MayWork, QuietOf
<1>1. entry[a].key = NowKey(a) /\ \A i \in Ins[a] : disk[i] = was[i] /\ was[i] # Absent
  BY <1>0, SettledKey
<1>2. ~Missing(a)
  BY <1>1 DEF Missing
<1>3. Told(a)
  BY <1>0, <1>2, ReadyIsTold
<1>4. KeyOf(a) = NowKey(a) /\ NowKey(a) # NoKey
  BY <1>3, KeyIsDigests DEF KeyInv, ThereInv, NowKey
<1>5. ASSUME NEW o \in Outs[a] PROVE disk[o] = was[o]
  <2>1. ASSUME NEW c \in Actions, act[c] = "running", o \in Makes[c] PROVE FALSE
    <3>1. c # a
      BY <2>1 DEF Ready
    <3>2. Outs[c] # {} /\ Outs[c] \subseteq Ins[a]
      BY <2>1, <3>1, FillFacts
    <3>3. act[c] = "ok"
      BY <3>2 DEF Ready
    <3> QED
      BY <2>1, <3>3
  <2> QED
    BY <2>1, PathFacts DEF QuietOf
<1> QED
  BY <1>0, <1>1, <1>4, <1>5 DEF IsCurrent, Settled, Seen

(* What is done is settled, once its makers are. *)
LEMMA DoneIsSettled ==
  ASSUME KeyInv, \A b \in Actions : act[b] = "ok", NEW a \in Actions \ Untold
  PROVE  Settled(disk, entry, a)
<1>0. act[a] \in Busy
  BY DEF Busy
<1>1. Done(a) /\ Told(a) /\ Present(a)
  BY <1>0 DEF KeyInv, ThereInv, One
<1>2. \A i \in Ins[a] : disk[i] # Absent
  BY <1>1 DEF Told, Digest
<1>3. \A i \in Ins[a] : Digest(i) = InKey(disk, entry, i)
  BY <1>0, <1>2, DigestInEntries
<1>4. entry[a].key = FlatKey(disk, entry, a)
  BY <1>1, <1>3, FlatKeyIsNow DEF Done
<1>5. ASSUME NEW o \in Outs[a], Outs[a] \cap Unmade = {} PROVE disk[o] # Absent
  <2>1. PICK c \in Actions : o \in Makes[c]
    BY <1>5 DEF Unmade, Outputs
  <2> QED
    BY <2>1 DEF KeyInv, ThereInv, Present
<1> QED
  BY <1>1, <1>2, <1>4, <1>5 DEF Settled, Done, Seen

(* Nothing is unsettled while definitions and keys stay, and the outputs         *)
(* recorded of what is to stay current.                                          *)
LEMMA SettledStays ==
  ASSUME NEW was, NEW e, NEW f, NEW a \in Actions, Settled(was, e, a),
         \A b \in Actions : f[b].key = e[b].key,
         Outs[a] \cap Unmade = {} => \A o \in Outs[a] : f[a].out[o] = e[a].out[o],
         \A i \in Ins[a] \cap Dirs : Maker(i) \in Actions
  PROVE  Settled(was, f, a)
<1>1. \A i \in Ins[a] : InKey(was, f, i) = InKey(was, e, i)
  BY DEF InKey
<1>2. [i \in Ins[a] |-> InKey(was, f, i)] = [i \in Ins[a] |-> InKey(was, e, i)]
  BY <1>1
<1>3. FlatKey(was, f, a) = FlatKey(was, e, a)
  BY <1>2 DEF FlatKey
<1> QED
  BY <1>3 DEF Settled

(* A directory read by an action that has a key is declared by one. *)
LEMMA MakerOfInput ==
  ASSUME NEW a \in Actions \ Untold, NEW i \in Ins[a] \cap Dirs PROVE Maker(i) \in Actions
<1>1. i \notin Blind /\ i \in Paths
  BY KeyedReads, PathFacts
<1>2. PICK m \in Actions : i \in Outs[m]
  BY <1>1 DEF Blind, Paths, Outputs
<1> QED
  BY <1>2, MakerIsOne

(* No build has made everything yet. *)
LEMMA QuietInvInit == CacheInit => QuietInv
BY KeyInvInit DEF QuietInv, CacheInit

(* Every step keeps the entries settled as long as the build is quiet. *)
LEMMA QuietInvStep == QuietInv /\ [CacheNext]_cacheVars => QuietInv'
<1> SUFFICES ASSUME QuietInv, [CacheNext]_cacheVars, quiet' PROVE \E was : QuietOf(was)'
  BY KeyInvStep DEF QuietInv
<1>0. /\ act \in [Actions -> Idle \cup {"off", "go", "running", "made"}] /\ KeyInv
      /\ OrderInv /\ Order /\ DOMAIN entry = Actions
  BY DEF QuietInv, KeyInv, ThereInv, OrderInv, CacheTypeOK
<1>1. CASE Save
  <2>1. \A a \in Actions : act[a] = "ok" /\ act'[a] = "off"
    BY <1>1 DEF Save, Gone
  <2>2. UNCHANGED <<disk, def>> /\ saved' = entry
    BY <1>1 DEF Save
  <2>3. ASSUME NEW a \in Actions \ Untold PROVE Settled(disk, saved, a)'
    <3>1. Settled(disk, entry, a)
      BY <1>0, <2>1, DoneIsSettled
    <3>2. PICK was, e : was = disk /\ e = entry
      OBVIOUS
    <3>3. Settled(was, e, a)
      BY <3>1, <3>2
    <3>4. Settled(was, e, a)'
      BY <2>2, <3>3 DEF Settled, FlatKey, InKey, Maker
    <3>5. disk' = was /\ saved' = e
      BY <2>2, <3>2
    <3> QED
      BY <3>4, <3>5
  <2>4. ASSUME NEW a \in Untold PROVE Remade(disk, a)'
    <3>1. a \in Actions /\ act[a] \in Busy /\ act[a] = "ok"
      BY <2>1 DEF Untold, Busy
    <3>2. ~Told(a)
      BY <1>0, <3>1, UntoldIsNotTold
    <3>3. Right(a)
      BY <1>0, <3>1, <3>2 DEF KeyInv, One, Done
    <3> QED
      BY <2>2, <3>3 DEF Remade, Right, Whole
  <2>5. QuietOf(disk)'
    BY <2>1, <2>3, <2>4 DEF QuietOf, Working
  <2> QED
    BY <2>5
<1> SUFFICES ASSUME ~Save PROVE \E was : QuietOf(was)'
  BY <1>1
<1>q. quiet /\ def' = def /\ saved' = saved
  BY DEF CacheNext, cacheVars, EditFile, EditDef, Change, Load, Hit, Miss, Skip, Prepare,
         PrepareFails, Fault, Succeed, Record, Fail, Kill
<1>w. PICK was : QuietOf(was)
  BY <1>q DEF QuietInv
<1>m. \A a \in Actions \ Untold : \A i \in Ins[a] \cap Dirs : Maker(i) \in Actions
  BY MakerOfInput
<1>s. \A a \in Actions \ Untold : Settled(was, saved, a)'
  <2>1. \A a \in Actions \ Untold : Settled(was, saved, a)
    BY <1>w DEF QuietOf
  <2> QED
    BY <1>q, <1>m, <2>1 DEF Settled, FlatKey, InKey, Maker
<1>r. \A a \in Untold : Remade(was, a)'
  BY <1>q, <1>w DEF QuietOf, Remade
(* The form of every step of one action. *)
<1>2. ASSUME NEW a \in Actions, building, NEW v, act' = [act EXCEPT ![a] = v],
             v \in {"go", "running", "made"} => MayWork(a),
             \A b \in Actions \ Untold : Settled(was, entry, b)',
             \A p \in Paths \ Makes[a] : disk'[p] = disk[p],
             \A p \in Makes[a] : v = "running" \/ disk'[p] = was[p] \/ (act[a] # "running" /\ disk'[p] = disk[p])
      PROVE  QuietOf(was)'
  <2>1. act'[a] = v /\ \A b \in Actions \ {a} : act'[b] = act[b]
    BY <1>0, <1>2
  <2>2. \A b \in Actions : Working(b)' => MayWork(b)
    BY <1>2, <1>w, <2>1 DEF QuietOf, Working
  <2>3. ASSUME NEW p \in Paths, disk'[p] # was[p]
        PROVE  \E b \in Actions : act'[b] = "running" /\ p \in Makes[b]
    <3>1. CASE p \in Makes[a]
      <4>1. CASE v = "running"
        BY <2>1, <3>1, <4>1
      <4>2. CASE v # "running"
        <5>1. act[a] # "running" /\ disk[p] # was[p]
          BY <1>2, <2>3, <3>1, <4>2
        <5>2. PICK b \in Actions : act[b] = "running" /\ p \in Makes[b]
          BY <1>w, <5>1 DEF QuietOf
        <5> QED
          BY <2>1, <5>1, <5>2
      <4> QED
        BY <4>1, <4>2
    <3>2. CASE p \notin Makes[a]
      <4>1. disk[p] # was[p]
        BY <1>2, <2>3, <3>2
      <4>2. PICK b \in Actions : act[b] = "running" /\ p \in Makes[b]
        BY <1>w, <4>1 DEF QuietOf
      <4> QED
        BY <2>1, <3>2, <4>2
    <3> QED
      BY <3>1, <3>2
  <2>4. \A b \in Actions : MayWork(b)' = MayWork(b)
    BY DEF MayWork
  <2> QED
    BY <1>2, <1>s, <1>r, <2>2, <2>3, <2>4 DEF QuietOf
<1>e. building /\ entry' = entry => \A b \in Actions \ Untold : Settled(was, entry, b)'
  <2>1. building => \A a \in Actions \ Untold : Settled(was, entry, a)
    BY <1>w DEF QuietOf
  <2> QED
    BY <1>q, <1>m, <2>1 DEF Settled, FlatKey, InKey, Maker
<1>3. ASSUME NEW lost \in BOOLEAN, Load(lost) PROVE QuietOf(was)'
  <2>1. disk' = disk /\ entry' = saved /\ ~building /\ \A a \in Actions : act'[a] = "todo"
    BY <1>3 DEF Load
  <2>2. \A a \in Actions \ Untold : Settled(was, entry, a)'
    BY <1>s, <1>q, <2>1 DEF Settled, FlatKey, InKey, Maker
  <2>3. \A p \in Paths : disk'[p] = was[p]
    BY <1>w, <2>1 DEF QuietOf
  <2> QED
    BY <1>s, <1>r, <2>1, <2>2, <2>3 DEF QuietOf, Working
<1>4. ASSUME NEW a \in Actions, Hit(a) PROVE QuietOf(was)'
  <2>1. building /\ act[a] = "todo" /\ act' = [act EXCEPT ![a] = "ok"] /\ entry' = entry /\ disk' = disk
    BY <1>4 DEF Hit, Ready
  <2> QED
    BY <1>2, <1>e, <2>1
<1>5. ASSUME NEW a \in Actions, Miss(a) PROVE QuietOf(was)'
  <2>1. building /\ Ready(a) /\ ~IsCurrent(a, KeyOf(a)) /\ act[a] = "todo"
        /\ act' = [act EXCEPT ![a] = "go"] /\ entry' = entry /\ disk' = disk
    BY <1>5 DEF Miss, Ready
  <2>2. MayWork(a)
    BY <1>0, <1>w, <2>1, SettledIsCurrent
  <2> QED
    BY <1>2, <1>e, <2>1, <2>2
<1>6. ASSUME NEW a \in Actions, Prepare(a) PROVE QuietOf(was)'
  <2>1. building /\ act[a] = "go" /\ act' = [act EXCEPT ![a] = "running"] /\ entry' = entry
        /\ \A p \in Paths \ Makes[a] : disk'[p] = disk[p]
    BY <1>6 DEF Prepare
  <2>2. MayWork(a)
    BY <1>w, <2>1 DEF QuietOf, Working
  <2> QED
    BY <1>2, <1>e, <2>1, <2>2
<1>7. ASSUME NEW a \in Actions, Succeed(a) PROVE QuietOf(was)'
  <2>1. building /\ act[a] = "running" /\ act' = [act EXCEPT ![a] = "made"] /\ entry' = entry
        /\ (\A p \in Paths \ Makes[a] : disk'[p] = disk[p]) /\ \A p \in Makes[a] : disk'[p] = Whole(a, p)
    BY <1>7, PathFacts DEF Succeed
  <2>2. MayWork(a)
    BY <1>w, <2>1 DEF QuietOf, Working
  <2>3. ASSUME NEW p \in Makes[a] PROVE Whole(a, p) = was[p]
    <3>1. Outs[a] \subseteq Makes[a] /\ Makes[a] \cap Unmade = {}
      BY FillFacts, UnmadeFacts
    <3>2. a \in Untold
      BY <2>2, <3>1 DEF MayWork
    <3>3. \A i \in Ins[a] : disk[i] = was[i]
      BY <1>0, <1>w, <2>1, InputsAsTheyWere DEF Busy
    <3>4. [i \in Ins[a] |-> disk[i]] = [i \in Ins[a] |-> was[i]]
      BY <3>3
    <3> QED
      BY <1>w, <3>2, <3>4 DEF QuietOf, Remade, Whole
  <2> QED
    BY <1>2, <1>e, <2>1, <2>2, <2>3
<1>8. ASSUME NEW a \in Actions, Record(a) PROVE QuietOf(was)'
  <2>1. building /\ act[a] = "made" /\ act[a] \in Busy /\ act' = [act EXCEPT ![a] = "ok"] /\ disk' = disk
    BY <1>8 DEF Record, Busy
  <2>2. MayWork(a) /\ key[a] = IF Told(a) THEN NowKey(a) ELSE NoKey
    BY <1>0, <1>w, <2>1 DEF QuietOf, Working, KeyInv, One
  <2>3. ASSUME a \in Untold PROVE entry' = entry
    BY <1>0, <1>8, <2>1, <2>2, <2>3, UntoldIsNotTold DEF Record
  <2>4. ASSUME a \notin Untold, NEW b \in Actions \ Untold PROVE Settled(was, entry, b)'
    <3>0. PICK f : f = entry'
      OBVIOUS
    <3>1. Told(a) /\ entry[a].key = NowKey(a)
      BY <1>0, <1>w, <2>1, <2>4, SettledKey DEF KeyInv, One
    <3>2. key[a] = entry[a].key /\ key[a] # NoKey
      BY <2>2, <3>1 DEF NowKey
    <3>3. entry' = [entry EXCEPT ![a] = [key |-> key[a], out |-> [o \in Outs[a] |-> Seen(o, key[a])]]]
      BY <1>8, <3>2 DEF Record
    <3>4. (\A c \in Actions : f[c].key = entry[c].key) /\ \A c \in Actions \ {a} : f[c] = entry[c]
      BY <1>0, <3>0, <3>2, <3>3
    <3>5. Outs[a] \cap Unmade # {} /\ Settled(was, entry, b)
      BY <1>w, <2>1, <2>2, <2>4 DEF MayWork, QuietOf
    <3>6. Settled(was, f, b)
      BY <1>m, <3>4, <3>5, SettledStays
    <3> QED
      BY <1>q, <1>m, <3>0, <3>6 DEF Settled, FlatKey, InKey, Maker
  <2>5. \A b \in Actions \ Untold : Settled(was, entry, b)'
    BY <1>e, <2>1, <2>3, <2>4
  <2> QED
    BY <1>2, <2>1, <2>5
<1>9. ASSUME NEW a \in Actions, Skip(a) \/ PrepareFails(a) PROVE FALSE
  BY <1>9 DEF Skip, PrepareFails, Fault
<1>10. ASSUME NEW a \in Actions, NEW left, Fail(a, left) PROVE FALSE
  BY <1>10 DEF Fail, Fault
<1>11. ASSUME NEW left, Kill(left) PROVE FALSE
  BY <1>11 DEF Kill
<1>12. ASSUME Change PROVE FALSE
  BY <1>12 DEF Change
<1>13. CASE UNCHANGED cacheVars
  <2>1. disk' = disk /\ entry' = entry /\ act' = act
    BY <1>13 DEF cacheVars
  <2> QED
    BY <1>w, <1>s, <1>r, <1>e, <2>1 DEF QuietOf, Working, MayWork
<1> QED
  BY <1>3, <1>4, <1>5, <1>6, <1>7, <1>8, <1>9, <1>10, <1>11, <1>12, <1>13
     DEF CacheNext, EditFile, EditDef

(* A build that made everything leaves the next nothing to do, but for actions   *)
(* that never have a key and runfiles trees that are not made (cache.rs:133,     *)
(* 207, 238).                                                                    *)
THEOREM CacheNullBuild == CacheSpec => []NullBuildRunsUntold
<1>1. QuietInv => NullBuildRunsUntold
  BY DEF QuietInv, QuietOf, MayWork, NullBuildRunsUntold
<1> QED
  BY <1>1, QuietInvInit, QuietInvStep, PTL DEF CacheSpec
-----------------------------------------------------------------------------
(* Directories and links.  Of a directory, a key holds the key that made it, so  *)
(* the contents it stands for are those its maker made under that key.  `then'   *)
(* remembers, for an action and a key it ran with, what was on disk as it ended: *)
(* its plain inputs are those of the key, a directory among them is as its own   *)
(* maker left it under the key noted for it, and its outputs are made of these.  *)

(* Nobody fills the directory of another. *)
Declared == \A a \in Actions : Makes[a] \subseteq Outs[a]

MadeThen(then, a, k) ==
  /\ \A i \in Ins[a] \ Dirs : k.in[i] = {then[<<a, k>>][i]}
  /\ \A m \in Actions : \A i \in Ins[a] \cap Makes[m] \cap Dirs :
       \E q : k.in[i] = {q} /\ <<m, q>> \in DOMAIN then /\ then[<<m, q>>][i] = then[<<a, k>>][i]
  /\ \A o \in Makes[a] : then[<<a, k>>][o] = Make(a, k.def, [i \in Ins[a] |-> then[<<a, k>>][i]], o)
Consistent(then) == \A a \in Actions : \A k : <<a, k>> \in DOMAIN then => MadeThen(then, a, k)

(* An entry speaks of a run that is remembered; directories and links of that    *)
(* run are on disk, unless they were removed.  What never has a key has none.    *)
Kept(then, e, a, k) ==
  /\ <<a, k>> \in DOMAIN then
  /\ \A o \in Makes[a] \cap (Dirs \cup Links) : disk[o] = then[<<a, k>>][o] \/ disk[o] = Absent
  /\ \A o \in Makes[a] \ (Dirs \cup Links) : e[a].out[o] = then[<<a, k>>][o]
Remembered(then, e, a) == \A k : e[a].key = {k} => Kept(then, e, a, k)
AsThen(then, a) ==
  \E k : entry[a].key = {k} /\ <<a, k>> \in DOMAIN then /\ \A o \in Makes[a] : disk[o] = then[<<a, k>>][o]

HoldsOf(then, a) ==
  /\ act[a] # "failed"
  /\ a \in Untold => saved[a].key = {} /\ entry[a].key = {}
  /\ act[a] = "off" => Remembered(then, saved, a)
  /\ act[a] \in {"todo", "go", "ok"} => Remembered(then, entry, a)
  /\ act[a] = "ok" /\ Told(a) => AsThen(then, a)
DirInv == KeyInv /\ (faulted \/ \E then : Consistent(then) /\ \A a \in Actions : HoldsOf(then, a))

(* A directory with a digest is noted with the key of what made it. *)
LEMMA NotedByMaker ==
  ASSUME Declared, KeyInv, NEW i \in Dirs, Digest(i) # NoDigest
  PROVE  /\ \E m \in Actions : i \in Makes[m]
         /\ \A m \in Actions : i \in Makes[m] /\ act[m] = "ok" => Told(m) /\ Digest(i) = entry[m].key
<1>1. disk[i] # Absent /\ Digest(i) = dirs[i] /\ dirs[i] # NoDigest
  BY DEF Digest
<1>2. i \in Outputs /\ i \notin Unmade
  BY <1>1, GraphAssumption DEF KeyInv, ThereInv, Paths
<1>3. \E m \in Actions : i \in Makes[m]
  BY <1>2 DEF Unmade
<1>4. ASSUME NEW m \in Actions, i \in Makes[m], act[m] = "ok" PROVE Told(m) /\ Digest(i) = entry[m].key
  <2>1. i \in Outs[m] /\ Done(m)
    BY <1>4 DEF Declared, KeyInv, One
  <2> QED
    BY <1>1, <2>1 DEF Done
<1> QED
  BY <1>3, <1>4

(* An action that has the key of a run that is remembered, and whose makers are  *)
(* done, has the inputs of that run.                                             *)
LEMMA SameInputs ==
  ASSUME Declared, KeyInv, NEW then, Consistent(then), NEW a \in Actions, Told(a), NEW k, NowKey(a) = {k},
         <<a, k>> \in DOMAIN then,
         \A m \in Actions : Ins[a] \cap Outs[m] # {} => act[m] = "ok" /\ (Told(m) => AsThen(then, m))
  PROVE  /\ k.def = def[a]
         /\ [i \in Ins[a] |-> disk[i]] = [i \in Ins[a] |-> then[<<a, k>>][i]]
<1>1. k = [def |-> def[a], in |-> [i \in Ins[a] |-> Digest(i)]]
  BY DEF NowKey
<1>2. k.def = def[a] /\ \A i \in Ins[a] : k.in[i] = Digest(i)
  BY <1>1
<1>m. MadeThen(then, a, k)
  BY DEF Consistent
<1>3. ASSUME NEW i \in Ins[a] PROVE disk[i] = then[<<a, k>>][i]
  <2>0. disk[i] # Absent
    BY DEF Told, Digest
  <2>1. CASE i \notin Dirs
    <3>1. {disk[i]} = {then[<<a, k>>][i]}
      BY <1>2, <1>m, <2>0, <2>1 DEF MadeThen, Digest
    <3> QED
      BY <3>1
  <2>2. CASE i \in Dirs
    <3>0. Digest(i) # NoDigest
      BY DEF Told
    <3>1. PICK m \in Actions : i \in Makes[m]
      BY <2>2, <3>0, NotedByMaker
    <3>d. act[m] = "ok"
      BY <3>1 DEF Declared
    <3>e. Told(m) /\ Digest(i) = entry[m].key
      BY <2>2, <3>0, <3>1, <3>d, NotedByMaker
    <3>2. PICK q : k.in[i] = {q} /\ <<m, q>> \in DOMAIN then /\ then[<<m, q>>][i] = then[<<a, k>>][i]
      BY <1>m, <2>2, <3>1 DEF MadeThen
    <3>3. act[m] = "ok" /\ AsThen(then, m)
      BY <3>1, <3>d, <3>e DEF Declared
    <3>5. PICK h : entry[m].key = {h} /\ disk[i] = then[<<m, h>>][i]
      BY <3>1, <3>3 DEF AsThen
    <3>6. h = q
      BY <1>2, <3>2, <3>e, <3>5
    <3> QED
      BY <3>2, <3>5, <3>6
  <2> QED
    BY <2>1, <2>2
<1> QED
  BY <1>2, <1>3

(* So what is done is right. *)
LEMMA DoneAsThenIsRight ==
  ASSUME Declared, KeyInv, NEW then, Consistent(then), NEW a \in Actions,
         \A b \in Actions : act[b] = "ok" /\ Told(b) => AsThen(then, b), act[a] = "ok"
  PROVE  Right(a)
<1>d. Done(a) /\ Order
  BY DEF KeyInv, One, ThereInv, OrderInv
<1> SUFFICES ASSUME Told(a) PROVE Right(a)
  BY <1>d DEF Done
<1>1. PICK k : entry[a].key = {k} /\ <<a, k>> \in DOMAIN then /\ \A o \in Makes[a] : disk[o] = then[<<a, k>>][o]
  BY DEF AsThen
<1>2. Told(a) /\ NowKey(a) = {k}
  BY <1>1, <1>d DEF Done
<1>3. \A m \in Actions : Ins[a] \cap Outs[m] # {} => act[m] = "ok" /\ (Told(m) => AsThen(then, m))
  BY <1>d DEF Order, Busy
<1>4. k.def = def[a] /\ [i \in Ins[a] |-> disk[i]] = [i \in Ins[a] |-> then[<<a, k>>][i]]
  BY <1>1, <1>2, <1>3, SameInputs
<1>5. \A o \in Makes[a] : then[<<a, k>>][o] = Make(a, k.def, [i \in Ins[a] |-> then[<<a, k>>][i]], o)
  <2>1. MadeThen(then, a, k)
    BY <1>1 DEF Consistent
  <2> QED
    BY <2>1 DEF MadeThen
<1> QED
  BY <1>1, <1>4, <1>5 DEF Right, Whole

(* A step of one action leaves the rest as it was. *)
LEMMA OthersHold ==
  ASSUME Order, NEW then, NEW a \in Actions, act[a] # "ok", NEW b \in Actions, b # a, HoldsOf(then, b),
         def' = def, Frame(a), act'[b] = act[b], entry'[b] = entry[b], saved'[b] = saved[b]
  PROVE  HoldsOf(then, b)'
<1>1. \A o \in Makes[b] : disk'[o] = disk[o]
  BY PathFacts DEF Frame
<1>2. Remembered(then, saved, b) => Remembered(then, saved, b)'
  BY <1>1 DEF Remembered, Kept
<1>3. Remembered(then, entry, b) => Remembered(then, entry, b)'
  BY <1>1 DEF Remembered, Kept
<1>4. AsThen(then, b) => AsThen(then, b)'
  BY <1>1 DEF AsThen
<1>5. act[b] = "ok" => Told(b)' = Told(b)
  BY OthersKept DEF Busy
<1>6. b \in Untold => saved'[b].key = {} /\ entry'[b].key = {}
  BY DEF HoldsOf
<1> QED
  BY <1>2, <1>3, <1>4, <1>5, <1>6 DEF HoldsOf

(* A hit finds the outputs of the run its entry speaks of. *)
LEMMA HitIsAsThen ==
  ASSUME Declared, KeyInv, NEW then, NEW a \in Actions, Remembered(then, entry, a), IsCurrent(a, KeyOf(a))
  PROVE  AsThen(then, a)
<1>1. NowKey(a) = entry[a].key
  BY KeyIsDigests DEF IsCurrent, KeyInv, ThereInv
<1>2. PICK k : entry[a].key = {k}
  BY <1>1 DEF NowKey
<1>3. Kept(then, entry, a, k)
  BY <1>2 DEF Remembered
<1>4. \A o \in Makes[a] : disk[o] # Absent /\ entry[a].out[o] = Seen(o, KeyOf(a))
  BY DEF IsCurrent, Declared
<1>5. ASSUME NEW o \in Makes[a] PROVE disk[o] = then[<<a, k>>][o]
  <2>1. CASE o \in Dirs \cup Links
    BY <1>3, <1>4, <2>1 DEF Kept
  <2>2. CASE o \notin Dirs \cup Links
    BY <1>3, <1>4, <2>2 DEF Kept, Seen
  <2> QED
    BY <2>1, <2>2
<1> QED
  BY <1>2, <1>3, <1>5 DEF AsThen, Kept

(* A run under a key that is remembered makes what it made then; another is      *)
(* remembered from now on, and takes nothing from the others.                    *)
LEMMA RunIsRemembered ==
  ASSUME Declared, KeyInv, NEW then, Consistent(then), NEW a \in Actions, Told(a), Right(a),
         NEW k, NowKey(a) = {k},
         \A m \in Actions : Ins[a] \cap Outs[m] # {} => act[m] = "ok" /\ (Told(m) => AsThen(then, m))
  PROVE  \E now : /\ Consistent(now) /\ <<a, k>> \in DOMAIN now
                  /\ \A o \in Makes[a] : disk[o] = now[<<a, k>>][o]
                  /\ \A x \in DOMAIN then : x \in DOMAIN now /\ now[x] = then[x]
<1>1. CASE <<a, k>> \in DOMAIN then
  <2>1. k.def = def[a] /\ [i \in Ins[a] |-> disk[i]] = [i \in Ins[a] |-> then[<<a, k>>][i]]
    BY <1>1, SameInputs
  <2>2. MadeThen(then, a, k)
    BY <1>1 DEF Consistent
  <2>3. \A o \in Makes[a] : disk[o] = then[<<a, k>>][o]
    <3>1. \A o \in Makes[a] : then[<<a, k>>][o] = Make(a, k.def, [i \in Ins[a] |-> then[<<a, k>>][i]], o)
      BY <2>2 DEF MadeThen
    <3>2. \A o \in Makes[a] : disk[o] = Make(a, def[a], [i \in Ins[a] |-> disk[i]], o)
      BY DEF Right, Whole
    <3> QED
      BY <2>1, <3>1, <3>2
  <2> QED
    BY <1>1, <2>3
<1>2. CASE <<a, k>> \notin DOMAIN then
  <2> DEFINE now == [x \in DOMAIN then \cup {<<a, k>>} |-> IF x = <<a, k>> THEN disk ELSE then[x]]
  <2>1. /\ DOMAIN now = DOMAIN then \cup {<<a, k>>} /\ now[<<a, k>>] = disk
        /\ \A x \in DOMAIN then : x \in DOMAIN now /\ now[x] = then[x]
    BY <1>2
  <2> HIDE DEF now
  <2>2. k.def = def[a] /\ \A i \in Ins[a] : k.in[i] = Digest(i)
    <3>1. k = [def |-> def[a], in |-> [i \in Ins[a] |-> Digest(i)]]
      BY DEF NowKey
    <3> QED
      BY <3>1
  <2>3. MadeThen(now, a, k)
    <3>1. \A i \in Ins[a] : disk[i] # Absent /\ i \notin Dangling
      BY DEF Told, Digest
    <3>2. \A i \in Ins[a] \ Dirs : k.in[i] = {now[<<a, k>>][i]}
      BY <2>1, <2>2, <3>1 DEF Digest
    <3>3. ASSUME NEW m \in Actions, NEW i \in Ins[a] \cap Makes[m] \cap Dirs
          PROVE  \E q : k.in[i] = {q} /\ <<m, q>> \in DOMAIN now /\ now[<<m, q>>][i] = now[<<a, k>>][i]
      <4>0. Digest(i) # NoDigest /\ i \in Outs[m] /\ act[m] = "ok"
        BY DEF Told, Declared
      <4>1. Told(m) /\ Digest(i) = entry[m].key
        BY <4>0, NotedByMaker
      <4>2. PICK q : entry[m].key = {q} /\ <<m, q>> \in DOMAIN then /\ disk[i] = then[<<m, q>>][i]
        BY <4>0, <4>1 DEF AsThen
      <4> QED
        BY <2>1, <2>2, <3>3, <4>1, <4>2
    <3>4. \A o \in Makes[a] : disk[o] = Make(a, k.def, [i \in Ins[a] |-> now[<<a, k>>][i]], o)
      BY <2>1, <2>2 DEF Right, Whole
    <3> QED
      BY <2>1, <3>2, <3>3, <3>4 DEF MadeThen
  <2>4. ASSUME NEW b \in Actions, NEW h, <<b, h>> \in DOMAIN now PROVE MadeThen(now, b, h)
    <3>1. CASE <<b, h>> = <<a, k>>
      <4>1. b = a /\ h = k
        BY <3>1
      <4> QED
        BY <2>3, <4>1
    <3>2. CASE <<b, h>> \in DOMAIN then
      <4>1. MadeThen(then, b, h)
        BY <3>2 DEF Consistent
      <4>2. now[<<b, h>>] = then[<<b, h>>]
        BY <2>1, <3>2
      <4>3. ASSUME NEW m \in Actions, NEW i \in Ins[b] \cap Makes[m] \cap Dirs
            PROVE  \E q : h.in[i] = {q} /\ <<m, q>> \in DOMAIN now /\ now[<<m, q>>][i] = now[<<b, h>>][i]
        <5>1. PICK q : h.in[i] = {q} /\ <<m, q>> \in DOMAIN then /\ then[<<m, q>>][i] = then[<<b, h>>][i]
          BY <4>1, <4>3 DEF MadeThen
        <5> QED
          BY <2>1, <4>2, <5>1
      <4> QED
        BY <4>1, <4>2, <4>3 DEF MadeThen
    <3> QED
      BY <2>1, <2>4, <3>1, <3>2
  <2>5. Consistent(now)
    BY <2>4 DEF Consistent
  <2> QED
    BY <2>1, <2>5
<1> QED
  BY <1>1, <1>2

(* No run is remembered at first. *)
LEMMA DirInvInit == CacheInit => DirInv
<1> SUFFICES ASSUME CacheInit PROVE DirInv
  OBVIOUS
<1> DEFINE then == [x \in {} |-> x]
<1>1. DOMAIN then = {}
  OBVIOUS
<1> HIDE DEF then
<1>2. \A a \in Actions : act[a] = "off" /\ saved[a].key = {} /\ entry[a].key = {}
  BY DEF CacheInit, Empty, NoEntry
<1>3. Consistent(then) /\ \A a \in Actions : HoldsOf(then, a)
  BY <1>1, <1>2 DEF Consistent, HoldsOf, Remembered
<1> QED
  BY <1>3, KeyInvInit DEF DirInv

(* Every step but a fault keeps some memory of the runs that agrees with the disk. *)
LEMMA DirInvStep ==
  ASSUME Declared PROVE DirInv /\ [CacheNext]_cacheVars => DirInv'
<1> SUFFICES ASSUME DirInv, [CacheNext]_cacheVars, ~faulted'
             PROVE  \E now : Consistent(now) /\ \A a \in Actions : HoldsOf(now, a)'
  BY KeyInvStep DEF DirInv, Consistent, MadeThen
<1>f. ~faulted
  BY DEF CacheNext, cacheVars, EditFile, EditDef, Change, Load, Save, Hit, Miss, Skip, Prepare,
         PrepareFails, Fault, Succeed, Record, Fail, Kill, DirInv, KeyInv, ThereInv, OrderInv, CacheTypeOK
<1>0. /\ act \in [Actions -> Idle \cup {"off", "go", "running", "made"}] /\ KeyInv
      /\ Order /\ OrderInv /\ DOMAIN entry = Actions /\ disk \in [Paths -> Contents]
  BY DEF DirInv, KeyInv, ThereInv, OrderInv, CacheTypeOK
<1>t. PICK then : Consistent(then) /\ \A a \in Actions : HoldsOf(then, a)
  BY <1>f DEF DirInv
<1>1. ASSUME NEW p \in Outputs \cup Sources, NEW v, EditFile(p, v), p \in Sources \/ p \notin Dirs \cup Links \/ v = Absent
      PROVE  \A a \in Actions : HoldsOf(then, a)'
  <2> SUFFICES ASSUME NEW a \in Actions PROVE HoldsOf(then, a)'
    OBVIOUS
  <2>1. act[a] = "off" /\ act'[a] = "off" /\ saved' = saved /\ entry' = entry
        /\ \A q \in Paths : disk'[q] = IF q = p \/ (v = Absent /\ q \in Inside(p)) THEN v ELSE disk[q]
    BY <1>1 DEF EditFile, Change
  <2>2. \A o \in Makes[a] \cap (Dirs \cup Links) : disk'[o] = disk[o] \/ disk'[o] = Absent
    BY <1>0, <1>1, <2>1, PathFacts
  <2>3. Remembered(then, saved, a)
    BY <1>t, <2>1 DEF HoldsOf
  <2>4. Remembered(then, saved, a)'
    BY <2>1, <2>2, <2>3 DEF Remembered, Kept
  <2> QED
    BY <1>t, <2>1, <2>4 DEF HoldsOf
<1>2. ASSUME NEW a \in Actions, NEW d \in Defs[a], EditDef(a, d) PROVE \A b \in Actions : HoldsOf(then, b)'
  <2>1. \A b \in Actions : act[b] = "off"
    BY <1>2 DEF EditDef, Change
  <2> QED
    BY <1>t, <1>2, <2>1 DEF EditDef, Change, HoldsOf, Remembered, Kept
<1>3. ASSUME NEW lost \in BOOLEAN, Load(lost) PROVE \A a \in Actions : HoldsOf(then, a)'
  <2> SUFFICES ASSUME NEW a \in Actions PROVE HoldsOf(then, a)'
    OBVIOUS
  <2>1. act[a] = "off" /\ act'[a] = "todo" /\ disk' = disk /\ saved' = saved /\ (entry' = saved \/ entry' = Empty)
    BY <1>3 DEF Load
  <2>2. Remembered(then, saved, a)
    BY <1>t, <2>1 DEF HoldsOf
  <2>3. Empty[a].key = {}
    BY DEF Empty, NoEntry
  <2>4. Remembered(then, entry, a)'
    BY <2>1, <2>2, <2>3 DEF Remembered, Kept
  <2> QED
    BY <1>t, <2>1, <2>3, <2>4 DEF HoldsOf
<1>4. ASSUME Save PROVE \A a \in Actions : HoldsOf(then, a)'
  <2> SUFFICES ASSUME NEW a \in Actions PROVE HoldsOf(then, a)'
    OBVIOUS
  <2>1. act[a] \in Idle /\ act'[a] = "off" /\ disk' = disk /\ saved' = entry /\ entry' = Empty
    BY <1>4 DEF Save, Gone
  <2>2. Remembered(then, entry, a)
    BY <1>t, <2>1 DEF HoldsOf, Idle
  <2>3. Remembered(then, saved, a)' /\ Empty[a].key = {}
    BY <2>1, <2>2 DEF Remembered, Kept, Empty, NoEntry
  <2> QED
    BY <1>t, <2>1, <2>3 DEF HoldsOf
(* A step of one action. *)
<1>5. ASSUME NEW a \in Actions, act[a] # "ok", NEW w, act' = [act EXCEPT ![a] = w],
             UNCHANGED <<def, saved, entry>>, Frame(a), HoldsOf(then, a)'
      PROVE  \A b \in Actions : HoldsOf(then, b)'
  <2>1. \A b \in Actions \ {a} : act'[b] = act[b]
    BY <1>0, <1>5
  <2> QED
    BY <1>0, <1>t, <1>5, <2>1, OthersHold
<1>6. ASSUME NEW a \in Actions, Hit(a) PROVE \A b \in Actions : HoldsOf(then, b)'
  <2>1. act[a] = "todo" /\ act' = [act EXCEPT ![a] = "ok"] /\ UNCHANGED <<disk, def, saved, entry>>
        /\ IsCurrent(a, KeyOf(a)) /\ act'[a] = "ok" /\ Frame(a)
    BY <1>0, <1>6 DEF Hit, Ready, NoteDirs, Frame
  <2>2. Remembered(then, entry, a)
    BY <1>t, <2>1 DEF HoldsOf
  <2>3. AsThen(then, a)
    BY <1>0, <2>1, <2>2, HitIsAsThen
  <2>4. Remembered(then, entry, a)' /\ AsThen(then, a)'
    BY <2>1, <2>2, <2>3 DEF Remembered, Kept, AsThen
  <2>5. HoldsOf(then, a)'
    BY <1>t, <2>1, <2>4 DEF HoldsOf
  <2> QED
    BY <1>5, <2>1, <2>5
<1>7. ASSUME NEW a \in Actions, Miss(a) PROVE \A b \in Actions : HoldsOf(then, b)'
  <2>1. act[a] = "todo" /\ act' = [act EXCEPT ![a] = "go"] /\ UNCHANGED <<disk, def, saved, entry>>
        /\ act'[a] = "go" /\ Frame(a)
    BY <1>0, <1>7 DEF Miss, Ready, Frame
  <2>2. Remembered(then, entry, a)
    BY <1>t, <2>1 DEF HoldsOf
  <2>3. Remembered(then, entry, a)'
    BY <2>1, <2>2 DEF Remembered, Kept
  <2>5. HoldsOf(then, a)'
    BY <1>t, <2>1, <2>3 DEF HoldsOf
  <2> QED
    BY <1>5, <2>1, <2>5
<1>8. ASSUME NEW a \in Actions, Prepare(a) \/ Succeed(a) PROVE \A b \in Actions : HoldsOf(then, b)'
  <2>1. PICK w \in {"running", "made"} : act' = [act EXCEPT ![a] = w]
    BY <1>8 DEF Prepare, Succeed
  <2>2. UNCHANGED <<def, saved, entry>> /\ act[a] # "ok" /\ Frame(a)
    BY <1>8 DEF Prepare, Succeed, Frame
  <2>3. HoldsOf(then, a)'
    BY <1>0, <1>t, <2>1, <2>2 DEF HoldsOf
  <2> QED
    BY <1>5, <2>1, <2>2, <2>3
<1>9. ASSUME NEW a \in Actions, Skip(a) PROVE FALSE
  BY <1>t, <1>9 DEF Skip, HoldsOf
<1>10. ASSUME NEW a \in Actions, PrepareFails(a) PROVE FALSE
  BY <1>10 DEF PrepareFails, Fault
<1>11. ASSUME NEW a \in Actions, NEW left, Fail(a, left) PROVE FALSE
  BY <1>11 DEF Fail, Fault
<1>12. ASSUME NEW left, Kill(left) PROVE FALSE
  BY <1>12 DEF Kill
<1>13. ASSUME NEW a \in Actions, Record(a)
       PROVE  \E now : Consistent(now) /\ \A b \in Actions : HoldsOf(now, b)'
  <2>0. act[a] = "made" /\ act' = [act EXCEPT ![a] = "ok"] /\ UNCHANGED <<disk, def, saved>>
    BY <1>13 DEF Record
  <2>f. Frame(a) /\ act'[a] = "ok" /\ \A b \in Actions \ {a} : act'[b] = act[b]
    BY <1>0, <1>13, <2>0 DEF Record, NoteDirs, Frame
  <2>k. Right(a) /\ (key[a] = IF Told(a) THEN NowKey(a) ELSE NoKey) /\ (Told(a) \/ a \in Untold)
    BY <1>0, <2>0 DEF KeyInv, One, Working, Busy
  <2>n. CASE ~Told(a)
    <3>1. entry' = entry /\ a \in Untold
      BY <1>13, <2>k, <2>n DEF Record
    <3>2. Told(a)' = Told(a)
      BY <2>0, <2>f, OwnKept
    <3>3. entry'[a].key = {} /\ saved'[a].key = {}
      BY <1>t, <2>0, <3>1 DEF HoldsOf
    <3>4. HoldsOf(then, a)'
      BY <2>f, <2>n, <3>2, <3>3 DEF HoldsOf, Remembered
    <3> QED
      BY <1>5, <1>t, <2>0, <2>f, <3>1, <3>4
  <2> SUFFICES ASSUME Told(a) PROVE \E now : Consistent(now) /\ \A b \in Actions : HoldsOf(now, b)'
    BY <2>n
  <2>1. Told(a) /\ key[a] = NowKey(a) /\ key[a] # NoKey /\ Right(a) /\ a \notin Untold
    BY <1>0, <2>0, <2>k, UntoldIsNotTold DEF NowKey, Busy
  <2>2. entry' = [entry EXCEPT ![a] = [key |-> key[a], out |-> [o \in Outs[a] |-> Seen(o, key[a])]]]
    BY <1>13, <2>1 DEF Record
  <2>3. PICK k : NowKey(a) = {k}
    BY DEF NowKey
  <2>4. \A m \in Actions : Ins[a] \cap Outs[m] # {} => act[m] = "ok" /\ (Told(m) => AsThen(then, m))
    BY <1>0, <1>t, <2>0 DEF Order, Busy, HoldsOf
  <2>5. PICK now : /\ Consistent(now) /\ <<a, k>> \in DOMAIN now
                   /\ \A o \in Makes[a] : disk[o] = now[<<a, k>>][o]
                   /\ \A x \in DOMAIN then : x \in DOMAIN now /\ now[x] = then[x]
    BY <1>0, <1>t, <2>1, <2>3, <2>4, RunIsRemembered
  <2>6. ASSUME NEW b \in Actions, b # a PROVE HoldsOf(now, b)'
    <3>1. act'[b] = act[b] /\ entry'[b] = entry[b]
      BY <1>0, <2>0, <2>2, <2>6
    <3>2. HoldsOf(now, b)
      <4>1. \A h : Kept(then, saved, b, h) => Kept(now, saved, b, h)
        BY <2>5 DEF Kept
      <4>2. \A h : Kept(then, entry, b, h) => Kept(now, entry, b, h)
        BY <2>5 DEF Kept
      <4>3. AsThen(then, b) => AsThen(now, b)
        BY <2>5 DEF AsThen
      <4> QED
        BY <1>t, <4>1, <4>2, <4>3 DEF HoldsOf, Remembered
    <3> QED
      BY <1>0, <2>0, <2>6, <2>f, <3>1, <3>2, OthersHold
  <2>7. HoldsOf(now, a)'
    <3>1. act'[a] = "ok" /\ entry'[a].key = {k} /\ \A o \in Outs[a] : entry'[a].out[o] = Seen(o, key[a])
      BY <1>0, <2>0, <2>1, <2>2, <2>3
    <3>2. AsThen(now, a)'
      BY <2>0, <2>5, <3>1 DEF AsThen
    <3>p. \A o \in Makes[a] : o \in Outs[a] /\ disk[o] # Absent
      BY <1>0, <2>0 DEF Declared, KeyInv, ThereInv, Present
    <3>3. Kept(now, entry, a, k)'
      BY <2>0, <2>5, <3>1, <3>p DEF Kept, Seen
    <3>4. \A h : {h} = {k} => h = k
      OBVIOUS
    <3>5. Remembered(now, entry, a)'
      BY <3>1, <3>3, <3>4 DEF Remembered
    <3> QED
      BY <2>1, <3>1, <3>2, <3>5 DEF HoldsOf
  <2> QED
    BY <2>5, <2>6, <2>7
<1>14. ASSUME UNCHANGED cacheVars PROVE \A b \in Actions : HoldsOf(then, b)'
  <2>1. \A b \in Actions : Told(b)' = Told(b)
    BY <1>14 DEF cacheVars, Told, Digest
  <2>2. \A b \in Actions : AsThen(then, b)' <=> AsThen(then, b)
    BY <1>14 DEF cacheVars, AsThen
  <2>3. \A b \in Actions : Remembered(then, saved, b) => Remembered(then, saved, b)'
    BY <1>14 DEF cacheVars, Remembered, Kept
  <2>4. \A b \in Actions : Remembered(then, entry, b) => Remembered(then, entry, b)'
    BY <1>14 DEF cacheVars, Remembered, Kept
  <2> QED
    BY <1>t, <1>14, <2>1, <2>2, <2>3, <2>4 DEF cacheVars, HoldsOf
<1>15. CASE \E p \in Sources, v \in Values \cup {Absent} : EditFile(p, v)
  BY <1>1, <1>15, <1>t, GraphAssumption
<1>16. CASE \E p \in Outputs : EditFile(p, Absent)
  BY <1>1, <1>16, <1>t
<1>17. CASE \E p \in Outputs \ (Dirs \cup Links) : EditFile(p, Partial)
  BY <1>1, <1>17, <1>t
<1> QED
  BY <1>t, <1>2, <1>3, <1>4, <1>6, <1>7, <1>8, <1>9, <1>10, <1>11, <1>12, <1>13, <1>14, <1>15,
     <1>16, <1>17 DEF CacheNext

(* Until the first fault, an action that counts as done has the outputs its      *)
(* command makes of its inputs, directories and links among them, though no more *)
(* is looked at than their kind (cache.rs:238), if no action fills the directory *)
(* of another.                                                                   *)
THEOREM CacheDirsRight == ASSUME Declared PROVE CacheSpec => []DirsAreRight
<1>1. DirInv => DirsAreRight
  <2> SUFFICES ASSUME DirInv, ~faulted, NEW a \in Actions, act[a] = "ok" PROVE Right(a)
    BY DEF DirsAreRight, AsItLeftThem
  <2>1. PICK then : Consistent(then) /\ \A b \in Actions : HoldsOf(then, b)
    BY DEF DirInv
  <2>2. \A b \in Actions : act[b] = "ok" /\ Told(b) => AsThen(then, b)
    BY <2>1 DEF HoldsOf
  <2> QED
    BY <2>1, <2>2, DoneAsThenIsRight DEF DirInv
<1>2. DirInv /\ [CacheNext]_cacheVars => DirInv'
  BY DirInvStep
<1> QED
  BY <1>1, <1>2, DirInvInit, PTL DEF CacheSpec
====
