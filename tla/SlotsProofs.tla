---------------------------- MODULE SlotsProofs ----------------------------
(***************************************************************************)
(* What Slots keeps for every set of callers, every ranking, every number  *)
(* of slots and without the bound on arrivals.                             *)
(***************************************************************************)
EXTENDS Slots, FiniteSetTheorems, TLAPS

(* One step keeps the shape of the state of slots.rs. *)
LEMMA SlotsStep == SlotsTypeOK /\ [SlotsNext]_slotsVars => SlotsTypeOK'
<1> SUFFICES ASSUME SlotsTypeOK, [SlotsNext]_slotsVars
             PROVE  SlotsTypeOK'
  OBVIOUS
<1> USE DEF SlotsTypeOK, Callers, Waiter
<1>1. ASSUME NEW p \in Procs, Acquire(p) PROVE SlotsTypeOK'
  BY <1>1 DEF Acquire, AcquireFree, AcquireQueue
<1>2. ASSUME NEW p \in Procs, Woken(p) PROVE SlotsTypeOK'
  BY <1>2 DEF Woken
<1>3. ASSUME NEW p \in Procs, Release(p) PROVE SlotsTypeOK'
  BY <1>3 DEF Release, Receivers
<1>4. ASSUME NEW p \in Procs, GiveUp(p) PROVE SlotsTypeOK'
  BY <1>4 DEF GiveUp
<1>5. CASE UNCHANGED slotsVars
  BY <1>5 DEF slotsVars
<1>6. QED
  BY <1>1, <1>2, <1>3, <1>4, <1>5 DEF SlotsNext

(* The state of slots.rs always has its shape. *)
THEOREM SlotsTypes == SlotsSpec => []SlotsTypeOK
<1>1. SlotsInit => SlotsTypeOK
  BY SlotsAssumption DEF SlotsInit, SlotsTypeOK, Callers
<1>2. QED
  BY <1>1, SlotsStep, PTL DEF SlotsSpec

(* The set of callers with a slot is finite, so it can be counted. *)
LEMMA TakenFinite == IsFiniteSet(Taken)
BY SlotsAssumption, FS_Subset DEF Taken

(* The same set one step later. *)
LEMMA TakenFiniteNext == IsFiniteSet(Taken')
BY SlotsAssumption, FS_Subset DEF Taken

(* Moving one slot from a caller to another keeps the count of those taken. *)
LEMMA MoveOne ==
    ASSUME NEW S, IsFiniteSet(S), NEW a \in S, NEW b, b \notin S
    PROVE  Cardinality((S \ {a}) \cup {b}) = Cardinality(S)
<1>1. /\ IsFiniteSet(S \ {a})
      /\ Cardinality(S \ {a}) = Cardinality(S) - 1
  BY FS_RemoveElement
<1>2. Cardinality((S \ {a}) \cup {b}) = Cardinality(S \ {a}) + 1
  BY <1>1, FS_AddElement
<1>3. Cardinality(S) \in Nat
  BY FS_CardinalityType
<1>4. QED
  BY <1>1, <1>2, <1>3

(***************************************************************************)
(* If an acquire future is never dropped between being served and being    *)
(* polled, slots are conserved, whoever else gives up.                     *)
(***************************************************************************)
THEOREM SlotsAreConserved ==
    ASSUME "handed" \notin GiveUpIn
    PROVE  SlotsSpec => []SlotsConserved
<1>1. SlotsInit => SlotsConserved
  <2> SUFFICES ASSUME SlotsInit PROVE SlotsConserved
    OBVIOUS
  <2>1. Taken = {}
    BY DEF SlotsInit, Taken
  <2>2. Cardinality(Taken) = 0
    BY <2>1, FS_EmptySet
  <2>3. QED
    BY <2>2, SlotsAssumption DEF SlotsInit, SlotsConserved
<1>2. SlotsTypeOK /\ SlotsConserved /\ [SlotsNext]_slotsVars => SlotsConserved'
  <2> SUFFICES ASSUME SlotsTypeOK, SlotsConserved, [SlotsNext]_slotsVars
               PROVE  SlotsConserved'
    OBVIOUS
  <2> USE DEF SlotsTypeOK
  <2>0. Cardinality(Taken) \in Nat
    BY TakenFinite, FS_CardinalityType
  <2>1. ASSUME NEW p \in Procs, AcquireFree(p) PROVE SlotsConserved'
    <3>1. /\ p \notin Taken
          /\ Taken' = Taken \cup {p}
      BY <2>1 DEF AcquireFree, Taken
    <3>2. Cardinality(Taken') = Cardinality(Taken) + 1
      BY <3>1, TakenFinite, FS_AddElement
    <3>3. QED
      BY <2>0, <2>1, <3>2, SlotsAssumption DEF AcquireFree, SlotsConserved
  <2>2. ASSUME NEW p \in Procs, AcquireQueue(p) PROVE SlotsConserved'
    <3>1. Taken' = Taken
      BY <2>2 DEF AcquireQueue, Taken
    <3>2. QED
      BY <2>2, <3>1 DEF AcquireQueue, SlotsConserved
  <2>3. ASSUME NEW p \in Procs, Woken(p) PROVE SlotsConserved'
    <3>1. Taken' = Taken
      BY <2>3 DEF Woken, Taken
    <3>2. QED
      BY <2>3, <3>1 DEF Woken, SlotsConserved
  <2>4. ASSUME NEW p \in Procs, Release(p) PROVE SlotsConserved'
    <3>1. p \in Taken
      BY <2>4 DEF Release, Taken
    <3>2. ASSUME NEW w \in Receivers,
                 caller' = [caller EXCEPT ![p] = "out", ![w.who] = "handed"],
                 UNCHANGED free
          PROVE  SlotsConserved'
      <4>1. /\ w.who \in Procs
            /\ caller[w.who] = "queued"
        BY DEF Receivers, Receives, Waiter
      <4>2. /\ w.who \notin Taken
            /\ Taken' = (Taken \ {p}) \cup {w.who}
        BY <2>4, <3>2, <4>1 DEF Taken, Release
      <4>3. QED
        BY <3>1, <3>2, <4>2, TakenFinite, MoveOne DEF SlotsConserved
    <3>3. ASSUME free' = free + 1, caller' = [caller EXCEPT ![p] = "out"]
          PROVE  SlotsConserved'
      <4>1. Taken' = Taken \ {p}
        BY <3>3 DEF Taken
      <4>2. Cardinality(Taken') = Cardinality(Taken) - 1
        BY <3>1, <4>1, TakenFinite, FS_RemoveElement
      <4>3. QED
        BY <2>0, <3>3, <4>2, SlotsAssumption DEF SlotsConserved
    <3>4. QED
      BY <2>4, <3>2, <3>3 DEF Release
  <2>5. ASSUME NEW p \in Procs, GiveUp(p) PROVE SlotsConserved'
    <3>1. caller[p] = "queued"
      BY <2>5, SlotsAssumption DEF GiveUp
    <3>2. Taken' = Taken
      BY <2>5, <3>1 DEF GiveUp, Taken
    <3>3. QED
      BY <2>5, <3>2 DEF GiveUp, SlotsConserved
  <2>6. CASE UNCHANGED slotsVars
    BY <2>6 DEF slotsVars, SlotsConserved, Taken
  <2>7. QED
    BY <2>1, <2>2, <2>3, <2>4, <2>5, <2>6 DEF SlotsNext, Acquire
<1>3. QED
  BY <1>1, <1>2, SlotsTypes, PTL DEF SlotsSpec

(***************************************************************************)
(* NoLostWaiter is not inductive: that a new entry is the latest of its    *)
(* caller needs the arrival numbers in the heap to lie below `next', and   *)
(* that a queued caller finds no free slot needs the heap to be empty      *)
(* whenever one is free.                                                   *)
(***************************************************************************)
WaiterInv ==
    /\ SlotsTypeOK
    /\ NoLostWaiter
    /\ \A w \in waiting : w.arrival < next
    /\ free > 0 => waiting = {}

(* Every step of slots.rs keeps WaiterInv; no assumption on who gives up. *)
LEMMA WaiterInvStep == WaiterInv /\ [SlotsNext]_slotsVars => WaiterInv'
<1> SUFFICES ASSUME WaiterInv, [SlotsNext]_slotsVars, SlotsTypeOK'
             PROVE  WaiterInv'
  BY SlotsStep DEF WaiterInv
<1> USE DEF WaiterInv, SlotsTypeOK
<1>1. ASSUME NEW p \in Procs, AcquireFree(p) PROVE WaiterInv'
  BY <1>1 DEF AcquireFree, NoLostWaiter, Receivers, Receives
<1>2. ASSUME NEW p \in Procs, AcquireQueue(p) PROVE WaiterInv'
  <2> DEFINE new == [who |-> p, arrival |-> next]
  <2>1. free = 0 /\ free' = 0
    BY <1>2 DEF AcquireQueue
  <2>2. \A w \in waiting' : w.arrival < next'
    BY <1>2 DEF AcquireQueue, Waiter
  <2>3. ASSUME NEW q \in Procs, caller'[q] = "queued"
        PROVE  \E w \in Receivers' : w.who = q
    <3>1. CASE q = p
      <4>1. \A x \in waiting' : x.who = p => x.arrival <= new.arrival
        BY <1>2 DEF AcquireQueue, Waiter
      <4>2. new \in Receivers'
        BY <1>2, <4>1 DEF AcquireQueue, Receivers, Receives
      <4>3. QED
        BY <3>1, <4>2
    <3>2. CASE q # p
      <4>1. PICK w \in Receivers : w.who = q
        BY <1>2, <2>3, <3>2 DEF AcquireQueue, NoLostWaiter
      <4>2. w \in Receivers'
        BY <1>2, <3>2, <4>1 DEF AcquireQueue, Receivers, Receives
      <4>3. QED
        BY <4>1, <4>2
    <3>3. QED
      BY <3>1, <3>2
  <2>4. QED
    BY <2>1, <2>2, <2>3 DEF NoLostWaiter
<1>3. ASSUME NEW p \in Procs, Woken(p) PROVE WaiterInv'
  BY <1>3 DEF Woken, NoLostWaiter, Receivers, Receives
<1>4. ASSUME NEW p \in Procs, Release(p) PROVE WaiterInv'
  <2>1. ASSUME NEW w \in Receivers,
               \A x \in Receivers \ {w} : Before(w, x),
               waiting' = {x \in waiting : Before(w, x)},
               caller' = [caller EXCEPT ![p] = "out", ![w.who] = "handed"],
               UNCHANGED free
        PROVE  WaiterInv'
    <3>1. w.who \in Procs /\ caller[w.who] = "queued"
      BY DEF Receivers, Receives, Waiter
    <3>2. free' = 0
      BY <2>1, <3>1 DEF NoLostWaiter
    <3>3. ASSUME NEW q \in Procs, caller'[q] = "queued"
          PROVE  \E x \in Receivers' : x.who = q
      <4>1. caller[q] = "queued" /\ q # w.who /\ q # p
        BY <1>4, <2>1, <3>1, <3>3
      <4>2. PICK x \in Receivers : x.who = q
        BY <4>1 DEF NoLostWaiter
      <4>3. x \in Receivers'
        BY <2>1, <3>3, <4>1, <4>2 DEF Receivers, Receives
      <4>4. QED
        BY <4>2, <4>3
    <3>4. QED
      BY <1>4, <2>1, <3>2, <3>3 DEF NoLostWaiter, Release
  <2>2. ASSUME Receivers = {}, waiting' = {},
               caller' = [caller EXCEPT ![p] = "out"]
        PROVE  WaiterInv'
    BY <2>2 DEF NoLostWaiter
  <2>3. QED
    BY <1>4, <2>1, <2>2 DEF Release
<1>5. ASSUME NEW p \in Procs, GiveUp(p) PROVE WaiterInv'
  BY <1>5 DEF GiveUp, NoLostWaiter, Receivers, Receives
<1>6. CASE UNCHANGED slotsVars
  BY <1>6 DEF slotsVars, NoLostWaiter, Receivers, Receives
<1>7. QED
  BY <1>1, <1>2, <1>3, <1>4, <1>5, <1>6 DEF SlotsNext, Acquire

(***************************************************************************)
(* No caller waits in vain: a queued caller can be served by a release and *)
(* no slot lies free beside it, whoever gives up and whenever.             *)
(***************************************************************************)
THEOREM NobodyWaitsInVain == SlotsSpec => []NoLostWaiter
<1>1. SlotsInit => WaiterInv
  BY SlotsAssumption
     DEF SlotsInit, WaiterInv, SlotsTypeOK, Callers, NoLostWaiter
<1>2. WaiterInv => NoLostWaiter
  BY DEF WaiterInv
<1>3. QED
  BY <1>1, <1>2, WaiterInvStep, PTL DEF SlotsSpec

(* A caller has one entry that can receive, the last it made. *)
LEMMA OneReceiver ==
    ASSUME SlotsTypeOK, NEW w \in Receivers, NEW x \in Receivers, w.who = x.who
    PROVE  w = x
<1>1. w \in Waiter /\ x \in Waiter
  BY DEF Receivers, SlotsTypeOK
<1>2. w.arrival <= x.arrival /\ x.arrival <= w.arrival
  BY DEF Receivers, Receives
<1>3. w.arrival = x.arrival
  BY <1>1, <1>2 DEF Waiter
<1>4. QED
  BY <1>1, <1>3 DEF Waiter

(* Of those who wait, the one that is served has the greatest rank, or among *)
(* equals the earliest arrival; who comes to the door is let in if none wait. *)
LEMMA RankStep ==
    WaiterInv /\ SlotsNext =>
      /\ \A w, x \in Receivers :
            /\ caller'[w.who] = "handed"
            /\ caller'[x.who] = "queued"
            => \/ Rank[w.who] > Rank[x.who]
               \/ Rank[w.who] = Rank[x.who] /\ w.arrival < x.arrival
      /\ \A p \in Procs :
            /\ caller[p] = "out"
            /\ caller'[p] = "holding"
            => Receivers = {}
<1> DEFINE Served ==
        \A w, x \in Receivers : caller'[w.who] = "handed" /\ caller'[x.who] = "queued" =>
            \/ Rank[w.who] > Rank[x.who]
            \/ Rank[w.who] = Rank[x.who] /\ w.arrival < x.arrival
    Door == \A p \in Procs : caller[p] = "out" /\ caller'[p] = "holding" => Receivers = {}
<1> SUFFICES ASSUME WaiterInv, SlotsNext PROVE Served /\ Door
  OBVIOUS
<1> USE DEF WaiterInv, SlotsTypeOK
<1>0. \A w \in Receivers : w.who \in Procs /\ caller[w.who] = "queued"
  BY DEF Receivers, Receives, Waiter
<1>1. ASSUME NEW p \in Procs, AcquireFree(p) PROVE Served /\ Door
  BY <1>0, <1>1 DEF AcquireFree, Receivers
<1>2. ASSUME NEW p \in Procs, AcquireQueue(p) \/ Woken(p) \/ GiveUp(p) PROVE Served /\ Door
  BY <1>0, <1>2 DEF AcquireQueue, Woken, GiveUp
<1>3. ASSUME NEW p \in Procs, Release(p) PROVE Served /\ Door
  <2>1. Door
    BY <1>3 DEF Release, Receivers, Receives
  <2>2. CASE Receivers = {}
    BY <2>1, <2>2
  <2>3. CASE Receivers # {}
    <3>1. PICK g \in Receivers :
             /\ \A x \in Receivers \ {g} : Before(g, x)
             /\ caller' = [caller EXCEPT ![p] = "out", ![g.who] = "handed"]
      BY <1>3, <2>3 DEF Release
    <3>2. ASSUME NEW w \in Receivers, NEW x \in Receivers,
                 caller'[w.who] = "handed", caller'[x.who] = "queued"
          PROVE  Before(w, x)
      <4>1. w.who = g.who
        BY <1>0, <3>1, <3>2
      <4>2. w = g /\ x # g
        BY <3>1, <3>2, <4>1, OneReceiver
      <4> QED
        BY <3>1, <4>2
    <3> QED
      BY <2>1, <3>2 DEF Before
  <2> QED
    BY <2>2, <2>3
<1> QED
  BY <1>1, <1>2, <1>3 DEF SlotsNext, Acquire

(***************************************************************************)
(* A slot goes to the greatest rank that waits, to the earliest among      *)
(* equals, and to nobody who comes to the door while others wait.          *)
(***************************************************************************)
THEOREM GreatestRankIsFirst == SlotsSpec => GreatestRankFirst
<1>1. SlotsInit => WaiterInv
  BY SlotsAssumption
     DEF SlotsInit, WaiterInv, SlotsTypeOK, Callers, NoLostWaiter
<1>2. QED
  BY <1>1, WaiterInvStep, RankStep, PTL DEF SlotsSpec, GreatestRankFirst
=============================================================================
