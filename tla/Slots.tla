------------------------------- MODULE Slots -------------------------------
(***************************************************************************)
(* The --jobs slots of crates/fjfj-exec/src/slots.rs: a counting semaphore *)
(* that passes a released slot straight to the waiter with the greatest    *)
(* rank, the earliest arrival first among equals.                          *)
(*                                                                         *)
(* A caller of `acquire' is a process.  Its future may be dropped while it *)
(* waits; the heap keeps its entry until a release pops it and finds that  *)
(* nobody receives.  GiveUpIn says in which states a caller may be         *)
(* dropped: "queued" (not yet served) or "handed" (served by `send', but   *)
(* not polled since, so that it has not built its Slot yet).               *)
(***************************************************************************)
EXTENDS Integers, FiniteSets

CONSTANTS
    Procs,        \* callers of acquire
    Rank,         \* the rank each caller asks with
    Count,        \* the number of slots, options.jobs.max(1)
    GiveUpIn,     \* states in which an acquire future may be dropped
    MaxArrivals   \* bound on the arrival counter `next'

ASSUME SlotsAssumption ==
    /\ IsFiniteSet(Procs)
    /\ Rank \in [Procs -> Nat]
    /\ Count \in Nat \ {0}
    /\ GiveUpIn \subseteq {"queued", "handed"}
    /\ MaxArrivals \in Nat

VARIABLES
    free,      \* State.free
    next,      \* State.next, the arrival number of the next waiter
    waiting,   \* State.waiting, the heap: a set of Waiter
    caller     \* where each caller is

slotsVars == <<free, next, waiting, caller>>

(* A Waiter of the heap; rank is the rank of who pushed it. *)
Waiter == [who : Procs, arrival : Nat]

Callers == {"out", "queued", "handed", "holding"}

SlotsTypeOK ==
    /\ free \in Nat
    /\ next \in Nat
    /\ waiting \subseteq Waiter
    /\ caller \in [Procs -> Callers]

(* `send' succeeds: the receiver of this entry still exists.  A caller that *)
(* gave up and queued again has two entries; only the last can receive.     *)
Receives(w) ==
    /\ caller[w.who] = "queued"
    /\ \A x \in waiting : x.who = w.who => x.arrival <= w.arrival

(* Mutant of Before: arrival without Reverse, the newest first among equals. *)
BeforeNewest(w, x) ==
    \/ Rank[w.who] > Rank[x.who]
    \/ Rank[w.who] = Rank[x.who] /\ w.arrival > x.arrival

(* Ord for Waiter: w is popped before x. *)
Before(w, x) ==
    \/ Rank[w.who] > Rank[x.who]
    \/ Rank[w.who] = Rank[x.who] /\ w.arrival < x.arrival

Receivers == {w \in waiting : Receives(w)}

SlotsInit ==
    /\ free = Count
    /\ next = 0
    /\ waiting = {}
    /\ caller = [p \in Procs |-> "out"]

(* Mutant of AcquireFree: only the heap is looked at. *)
AcquireFreeUnguarded(p) ==
    /\ caller[p] = "out"
    /\ waiting = {}
    /\ free' = free - 1
    /\ caller' = [caller EXCEPT ![p] = "holding"]
    /\ UNCHANGED <<next, waiting>>

(* acquire when a slot is free and nobody waits. *)
AcquireFree(p) ==
    /\ caller[p] = "out"
    /\ free > 0 /\ waiting = {}
    /\ free' = free - 1
    /\ caller' = [caller EXCEPT ![p] = "holding"]
    /\ UNCHANGED <<next, waiting>>

(* acquire otherwise: push a Waiter and await its channel. *)
AcquireQueue(p) ==
    /\ caller[p] = "out"
    /\ ~(free > 0 /\ waiting = {})
    /\ next < MaxArrivals
    /\ waiting' = waiting \cup {[who |-> p, arrival |-> next]}
    /\ next' = next + 1
    /\ caller' = [caller EXCEPT ![p] = "queued"]
    /\ UNCHANGED free

Acquire(p) == AcquireFree(p) \/ AcquireQueue(p)

(* The awaited channel delivers: the caller builds its Slot. *)
Woken(p) ==
    /\ caller[p] = "handed"
    /\ caller' = [caller EXCEPT ![p] = "holding"]
    /\ UNCHANGED <<free, next, waiting>>

(* Mutant of Release: the result of `send' is not looked at. *)
ReleaseUnchecked(p) ==
    /\ caller[p] = "holding"
    /\ \/ \E w \in waiting :
            /\ \A x \in waiting \ {w} : Before(w, x)
            /\ waiting' = waiting \ {w}
            /\ caller' = [caller EXCEPT ![p] = "out",
                  ![w.who] = IF Receives(w) THEN "handed" ELSE @]
            /\ UNCHANGED free
       \/ /\ waiting = {}
          /\ free' = free + 1
          /\ caller' = [caller EXCEPT ![p] = "out"]
          /\ UNCHANGED waiting
    /\ UNCHANGED next

(* Mutant of Release: the slot goes back to `free', past those who wait. *)
ReleaseToAnyone(p) ==
    /\ caller[p] = "holding"
    /\ free' = free + 1
    /\ caller' = [caller EXCEPT ![p] = "out"]
    /\ UNCHANGED <<next, waiting>>

(* Slot::drop, release: pop entries until one receives the slot; if none    *)
(* does the heap is empty and the slot is free.                             *)
Release(p) ==
    /\ caller[p] = "holding"
    /\ \/ \E w \in Receivers :
            /\ \A x \in Receivers \ {w} : Before(w, x)
            /\ waiting' = {x \in waiting : Before(w, x)}
            /\ caller' = [caller EXCEPT ![p] = "out", ![w.who] = "handed"]
            /\ UNCHANGED free
       \/ /\ Receivers = {}
          /\ waiting' = {}
          /\ free' = free + 1
          /\ caller' = [caller EXCEPT ![p] = "out"]
    /\ UNCHANGED next

(* The future of acquire is dropped while it awaits its channel. *)
GiveUp(p) ==
    /\ caller[p] \in GiveUpIn
    /\ caller' = [caller EXCEPT ![p] = "out"]
    /\ UNCHANGED <<free, next, waiting>>

SlotsNext ==
    \E p \in Procs : Acquire(p) \/ Woken(p) \/ Release(p) \/ GiveUp(p)

SlotsSpec == SlotsInit /\ [][SlotsNext]_slotsVars

(* The slots somebody has, or has been sent. *)
Taken == {p \in Procs : caller[p] \in {"handed", "holding"}}

(***************************************************************************)
(* No slot is lost and none is made up: the free ones and the ones taken   *)
(* are `count'.  (slots.rs: "A slot is passed to a waiter directly".)      *)
(***************************************************************************)
SlotsConserved == free + Cardinality(Taken) = Count

(***************************************************************************)
(* Nobody waits in vain: while a caller is queued no slot is free, and the *)
(* heap holds an entry that a release can still serve it through, however  *)
(* many callers gave up before it or around it.                            *)
(***************************************************************************)
NoLostWaiter ==
    \A p \in Procs : caller[p] = "queued" =>
        free = 0 /\ \E w \in Receivers : w.who = p

(***************************************************************************)
(* A slot reaches the waiting caller with the most work behind it: whoever *)
(* is served, no caller that goes on waiting has a greater rank, nor the   *)
(* same rank and an earlier arrival, and nobody who comes to the door is   *)
(* let past those who wait.                                                *)
(***************************************************************************)
GreatestRankFirst ==
    [][/\ \A w, x \in Receivers :
             /\ caller'[w.who] = "handed"
             /\ caller'[x.who] = "queued"
             => \/ Rank[w.who] > Rank[x.who]
                \/ Rank[w.who] = Rank[x.who] /\ w.arrival < x.arrival
       /\ \A p \in Procs :
             /\ caller[p] = "out"
             /\ caller'[p] = "holding"
             => Receivers = {}]_slotsVars
=============================================================================
