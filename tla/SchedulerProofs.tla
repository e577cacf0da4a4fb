-------------------------- MODULE SchedulerProofs --------------------------
(***************************************************************************)
(* What ActionScheduler keeps for every graph of actions, every number of  *)
(* slots, and whatever fails, hits the cache or panics: it uses the slots  *)
(* as Slots allows, it implements Build, it leaves nothing behind, and     *)
(* what is not made is explained.                                          *)
(***************************************************************************)
EXTENDS ActionScheduler, SlotsProofs

-----------------------------------------------------------------------------
(* The inductive invariant *)

(* Past its makers, which made what it reads. *)
Past == {"keyed", "slot", "runs", "records", "reports", "closes",
         "made", "hit", "failed", "skipped", "died"}

MakersMade == \A a \in Procs : act[a] \in Past => \A m \in Makers[a] : act[m] \in Good
MakersEnded == \A a \in Procs : act[a] = "blocked" => \A m \in Makers[a] : Ended(m)

(* Who has a slot, or waits for one. *)
SlotUse ==
    \A a \in Procs :
        /\ act[a] \in {"absent", "waits", "keyed"} \cup Ends => caller[a] = "out"
        /\ act[a] \in {"runs", "records", "reports"} /\ a \in Commands => caller[a] = "holding"
        /\ act[a] = "closes" /\ a \in Commands /\ result[a] \notin {"skipped", "died"}
              => caller[a] = "holding"
        /\ caller[a] \in {"queued", "handed"} => act[a] = "slot"

(* What a task that closes is going to return, and why. *)
Returns(a) == IF act[a] = "closes" THEN result[a] ELSE act[a]
Reasons ==
    \A a \in Procs :
        /\ act[a] = "closes" => result[a] \in {"made", "failed", "skipped", "died"}
        /\ Returns(a) = "skipped" => stopped /\ ~keepGoing
        /\ Returns(a) = "failed" => a \in failures \/ (stopped /\ ~keepGoing)
        /\ Returns(a) = "died" => a \in MayPanic

(* Failures: who reports or has reported one. *)
Tells(a) == act[a] = "reports" \/ a \in failures
Failures ==
    /\ \A a \in failures : Returns(a) = "failed"
    /\ \A a \in Procs \ Tests : Tells(a) => stopped
    /\ ~keepGoing => \A a, b \in Procs \ Tests : Tells(a) /\ Tells(b) => a = b
    /\ stopped => \E a \in Procs \ Tests : Tells(a)

(* Whoever has a task is needed, and has ended with the others if the build *)
(* has returned.                                                            *)
Needed == \A a \in Procs : act[a] # "absent" => \E r \in Requested : a \in Closure(r)
AllReturned == returned => \A r \in Requested : Ended(r)

(* What is not made needs something that failed, died or was skipped. *)
Explained ==
    \A a \in Procs : Ended(a) /\ act[a] \notin Good =>
        \E b \in Closure(a) : act[b] \in {"failed", "skipped", "died"}

SchedInv ==
    /\ SchedTypeOK /\ WaiterInv /\ MakersMade /\ MakersEnded /\ SlotUse
    /\ Reasons /\ Failures /\ Needed /\ AllReturned /\ Explained

-----------------------------------------------------------------------------
(* The slots *)

(* A task uses the slots by Acquire, Woken and Release only. *)
LEMMA SlotsSimulated == [SchedNext]_schedVars => [SlotsNext]_slotsVars
<1> SUFFICES ASSUME [SchedNext]_schedVars PROVE [SlotsNext]_slotsVars
    OBVIOUS
<1>1. ASSUME NEW a \in Procs, Step(a)
      PROVE  Acquire(a) \/ Woken(a) \/ Release(a) \/ UNCHANGED slotsVars
    BY <1>1 DEF Step, Start, DepsDone, CacheHit, CacheMiss, SlotHanded, TakeSlot, Succeed,
                Record, Fail, Push, Panic, Close
<1>2. CASE Return
    BY <1>2 DEF Return
<1>3. CASE UNCHANGED schedVars
    BY <1>3 DEF schedVars, slotsVars
<1> QED
    BY <1>1, <1>2, <1>3 DEF SchedNext, SlotsNext

(***************************************************************************)
(* The tasks of run.rs use the slots as slots.rs allows: what is proved of *)
(* Slots holds in the scheduler.                                           *)
(***************************************************************************)
THEOREM SchedulerUsesSlots == SchedSpec => SlotsSpec
<1>1. SchedInit => SlotsInit
    BY DEF SchedInit
<1> QED
    BY <1>1, SlotsSimulated, PTL DEF SchedSpec, SlotsSpec

-----------------------------------------------------------------------------
(* Types *)

(* The scheduler starts with the types. *)
LEMMA TypesInit == SchedInit => SchedTypeOK
    BY DEF SchedInit, SchedTypeOK, Places, Ends

(* Every step of the scheduler keeps the types. *)
LEMMA TypesStep == SchedTypeOK /\ [SchedNext]_schedVars => SchedTypeOK'
<1> SUFFICES ASSUME SchedTypeOK, [SchedNext]_schedVars PROVE SchedTypeOK'
    OBVIOUS
<1> USE DEF SchedTypeOK, Places, Ends, GoTo, CloseWith
<1>1. ASSUME NEW a \in Procs, Start(a) \/ DepsDone(a) \/ CacheHit(a) \/ CacheMiss(a)
      PROVE  SchedTypeOK'
    BY <1>1 DEF Start, DepsDone, CacheHit, CacheMiss
<1>2. ASSUME NEW a \in Procs, SlotHanded(a) \/ TakeSlot(a) \/ Succeed(a) \/ Record(a)
      PROVE  SchedTypeOK'
    BY <1>2 DEF SlotHanded, TakeSlot, Succeed, Record
<1>3. ASSUME NEW a \in Procs, Fail(a) PROVE SchedTypeOK'
    BY <1>3 DEF Fail
<1>4. ASSUME NEW a \in Procs, Push(a) \/ Panic(a) PROVE SchedTypeOK'
    BY <1>4 DEF Push, Panic
<1>5. ASSUME NEW a \in Procs, Close(a) PROVE SchedTypeOK'
    BY <1>5 DEF Close
<1>6. CASE Return
    BY <1>6 DEF Return
<1>7. CASE UNCHANGED schedVars
    BY <1>7 DEF schedVars
<1> QED
    BY <1>1, <1>2, <1>3, <1>4, <1>5, <1>6, <1>7 DEF SchedNext, Step

(***************************************************************************)
(* A task is in one of its places or has ended in one of the ways run.rs   *)
(* knows, a panic among them.                                              *)
(***************************************************************************)
THEOREM SchedulerTypes == SchedSpec => []SchedTypeOK
    BY TypesInit, TypesStep, PTL DEF SchedSpec

-----------------------------------------------------------------------------
(* Steps *)

(* A step of one task leaves the places of the others, and never goes back *)
(* from an end.                                                            *)
LEMMA OneMoves ==
    ASSUME SchedTypeOK, NEW a \in Procs, Step(a)
    PROVE  /\ \A b \in Procs \ {a} : act'[b] = act[b] /\ result'[b] = result[b]
           /\ ~Ended(a) /\ act'[a] # "absent"
           /\ keepGoing' = keepGoing /\ returned' = returned
           /\ stopped => stopped'
           /\ failures \subseteq failures'
    BY DEF SchedTypeOK, Step, Start, DepsDone, CacheHit, CacheMiss, SlotHanded, TakeSlot,
           Succeed, Record, Fail, Push, Panic, Close, GoTo, CloseWith, Ended, Ends

(* How a task moves: where from and where to. *)
LEMMA Moves ==
    ASSUME SchedTypeOK, Reasons, NEW a \in Procs, Step(a)
    PROVE  \/ act[a] = "absent" /\ act'[a] = "waits"
           \/ /\ act[a] = "waits" /\ \A m \in Makers[a] : Ended(m)
              /\ \/ act'[a] = "blocked" /\ \E m \in Makers[a] : act[m] \notin Good
                 \/ act'[a] \in {"skipped", "keyed"} /\ \A m \in Makers[a] : act[m] \in Good
           \/ act[a] \in Past /\ act'[a] \in Past
    BY DEF SchedTypeOK, Step, Start, DepsDone, CacheHit, CacheMiss, SlotHanded, TakeSlot,
           Succeed, Record, Fail, Push, Panic, Close, GoTo, CloseWith, Past, Reasons

(* What the makers of an action made stays made, and what ended has ended. *)
LEMMA MakersStep ==
    ASSUME SchedTypeOK, Reasons, MakersMade, MakersEnded, NEW a \in Procs, Step(a)
    PROVE  MakersMade' /\ MakersEnded'
<1>0. Makers \in [Procs -> SUBSET Procs]
    BY SchedulerAssumption
<1>1. \A b \in Procs : (act[b] \in Good => act'[b] \in Good) /\ (Ended(b) => Ended(b)')
    BY OneMoves DEF Ended, Ends, Good
<1>2. MakersMade'
    BY <1>0, <1>1, OneMoves, Moves DEF MakersMade, Past
<1>3. MakersEnded'
    BY <1>0, <1>1, OneMoves, Moves DEF MakersEnded, Past
<1> QED
    BY <1>2, <1>3

(* A released slot is handed to a task that is queued for it. *)
LEMMA SlotUseStep ==
    ASSUME SchedTypeOK, SlotsTypeOK, Reasons, SlotUse, NEW a \in Procs, Step(a)
    PROVE  SlotUse'
<1> USE DEF SchedTypeOK, SlotsTypeOK, SlotUse, GoTo, CloseWith, Ends, Places, Callers
<1>1. CASE Start(a) \/ DepsDone(a) \/ CacheHit(a)
    BY <1>1 DEF Start, DepsDone, CacheHit, slotsVars
<1>2. CASE CacheMiss(a)
    BY <1>2 DEF CacheMiss, Acquire, AcquireFree, AcquireQueue, slotsVars
<1>3. CASE SlotHanded(a)
    BY <1>3 DEF SlotHanded, Woken
<1>4. CASE TakeSlot(a) \/ Succeed(a) \/ Record(a)
    BY <1>4 DEF TakeSlot, Succeed, Record, slotsVars
<1>5. CASE Fail(a)
    BY <1>5 DEF Fail, slotsVars
<1>6. CASE Push(a) \/ Panic(a)
    BY <1>6 DEF Push, Panic, slotsVars
<1>7. CASE Close(a)
    <2>1. act[a] = "closes" /\ act' = [act EXCEPT ![a] = result[a]] /\ result' = result
        BY <1>7 DEF Close
    <2>2. caller'[a] = "out"
        <3>1. CASE caller[a] = "holding"
            BY <1>7, <2>1, <3>1 DEF Close, Release, Receivers, Receives
        <3>2. CASE caller[a] # "holding"
            BY <1>7, <2>1, <3>2 DEF Close, slotsVars
        <3> QED
            BY <3>1, <3>2
    <2>3. \A b \in Procs \ {a} : caller'[b] = caller[b]
                \/ (caller[b] = "queued" /\ caller'[b] = "handed")
        BY <1>7 DEF Close, Release, Receivers, Receives, slotsVars
    <2> QED
        BY <2>1, <2>2, <2>3 DEF Reasons, Returns
<1> QED
    BY <1>1, <1>2, <1>3, <1>4, <1>5, <1>6, <1>7 DEF Step

(* A task ends as it does for a reason: the build has stopped, or its       *)
(* failure is among the reported.                                           *)
LEMMA ReasonsStep ==
    ASSUME SchedTypeOK, Reasons, Failures, NEW a \in Procs, Step(a)
    PROVE  Reasons'
<1> USE DEF SchedTypeOK, Reasons, Returns, GoTo, CloseWith, Ends, Places
<1>1. CASE Start(a) \/ DepsDone(a) \/ CacheHit(a)
    BY <1>1 DEF Start, DepsDone, CacheHit, SkipIfStopped
<1>2. CASE CacheMiss(a) \/ SlotHanded(a) \/ TakeSlot(a) \/ Succeed(a) \/ Record(a)
    BY <1>2 DEF CacheMiss, SlotHanded, TakeSlot, Succeed, Record, SkipIfStopped
<1>3. CASE Fail(a)
    BY <1>3 DEF Fail
<1>4. CASE Push(a) \/ Panic(a)
    BY <1>4 DEF Push, Panic
<1>5. CASE Close(a)
    BY <1>5 DEF Close
<1> QED
    BY <1>1, <1>2, <1>3, <1>4, <1>5 DEF Step

(* Only who swaps `stopped' first reports, or a test, or all if the build   *)
(* is to go on.                                                             *)
LEMMA FailuresStep ==
    ASSUME SchedTypeOK, Reasons, Failures, NEW a \in Procs, Step(a)
    PROVE  Failures'
<1> USE DEF SchedTypeOK, Failures, Tells, Returns, GoTo, CloseWith, Ends, Places
<1>1. CASE Start(a) \/ DepsDone(a) \/ CacheHit(a)
    BY <1>1 DEF Start, DepsDone, CacheHit
<1>2. CASE CacheMiss(a) \/ SlotHanded(a) \/ TakeSlot(a) \/ Succeed(a) \/ Record(a)
    BY <1>2 DEF CacheMiss, SlotHanded, TakeSlot, Succeed, Record
<1>3. CASE Fail(a)
    BY <1>3 DEF Fail
<1>4. CASE Push(a) \/ Panic(a)
    BY <1>4 DEF Push, Panic
<1>5. CASE Close(a)
    BY <1>5 DEF Close
<1> QED
    BY <1>1, <1>2, <1>3, <1>4, <1>5 DEF Step

(* What an action needs holds itself, its makers and what they need. *)
LEMMA ClosureFacts ==
    ASSUME NEW a \in Procs
    PROVE  /\ a \in Closure(a) /\ Closure(a) \subseteq Procs
           /\ \A r \in Procs : a \in Closure(r) => Makers[a] \subseteq Closure(r)
           /\ \A m \in Makers[a] : Closure(m) \subseteq Closure(a)
<1>0. \A b \in Procs : Makers[b] \subseteq Procs
    BY SchedulerAssumption
<1>1. a \in Closure(a) /\ Closure(a) \subseteq Procs
    BY DEF Closure
<1>2. ASSUME NEW r \in Procs, a \in Closure(r), NEW m \in Makers[a] PROVE m \in Closure(r)
    <2> SUFFICES ASSUME NEW S \in SUBSET Procs, r \in S, \A c \in S : Makers[c] \subseteq S
                 PROVE  m \in S
        BY <1>0 DEF Closure
    <2>1. a \in S
        BY <1>2 DEF Closure
    <2> QED
        BY <1>2, <2>1
<1>3. ASSUME NEW m \in Makers[a], NEW b \in Closure(m) PROVE b \in Closure(a)
    <2> SUFFICES ASSUME NEW S \in SUBSET Procs, a \in S, \A c \in S : Makers[c] \subseteq S
                 PROVE  b \in S
        BY <1>0 DEF Closure
    <2>1. m \in S
        BY <1>3
    <2> QED
        BY <1>3, <2>1 DEF Closure
<1> QED
    BY <1>1, <1>2, <1>3

(* Scheduler::run is called for what is requested and for makers. *)
LEMMA NeededStep ==
    ASSUME SchedTypeOK, Needed, NEW a \in Procs, Step(a)
    PROVE  Needed'
<1>0. Requested \subseteq Procs
    BY SchedulerAssumption
<1>1. ASSUME act[a] = "absent" PROVE \E r \in Requested : a \in Closure(r)
    <2>1. Start(a)
        BY <1>1 DEF Step, Start, DepsDone, CacheHit, CacheMiss, SlotHanded, TakeSlot,
                    Succeed, Record, Fail, Push, Panic, Close
    <2>2. CASE a \in Requested
        BY <2>2, ClosureFacts
    <2>3. CASE a \notin Requested
        <3>1. PICK b \in Procs : act[b] = "waits" /\ a \in Makers[b]
            BY <2>1, <2>3 DEF Start
        <3>2. PICK r \in Requested : b \in Closure(r)
            BY <3>1 DEF Needed
        <3> QED
            BY <1>0, <3>1, <3>2, ClosureFacts
    <2> QED
        BY <2>2, <2>3
<1> QED
    BY <1>1, OneMoves DEF Needed, Closure

(* join_all waits for all that was requested. *)
LEMMA AllReturnedStep ==
    ASSUME SchedTypeOK, AllReturned, NEW a \in Procs, Step(a)
    PROVE  AllReturned'
    BY OneMoves, SchedulerAssumption DEF AllReturned, Ended

(* A task is blocked by a maker, which is explained. *)
LEMMA ExplainedStep ==
    ASSUME SchedTypeOK, Reasons, Explained, NEW a \in Procs, Step(a)
    PROVE  Explained'
<1> DEFINE Bad == {"failed", "skipped", "died"}
<1>0. \A b \in Procs : Makers[b] \subseteq Procs /\ Closure(b) \subseteq Procs
    BY SchedulerAssumption, ClosureFacts
<1>1. \A b \in Procs : act[b] \in Bad => act'[b] \in Bad
    BY OneMoves DEF Ended, Ends
<1> SUFFICES ASSUME NEW b \in Procs, Ended(b)', act'[b] \notin Good
             PROVE  \E c \in Closure(b) : act'[c] \in Bad
    BY DEF Explained, Closure, Good
<1>2. CASE b # a
    <2>1. act'[b] = act[b]
        BY <1>2, OneMoves
    <2>2. PICK c \in Closure(b) : act[c] \in Bad
        BY <2>1 DEF Explained, Ended
    <2> QED
        BY <1>0, <1>1, <2>2
<1>3. CASE b = a /\ act'[a] = "blocked"
    <2>1. PICK m \in Makers[a] : Ended(m) /\ act[m] \notin Good
        BY <1>3, Moves DEF Past
    <2>2. PICK c \in Closure(m) : act[c] \in Bad
        BY <1>0, <2>1 DEF Explained
    <2>3. c \in Closure(a)
        BY <2>1, <2>2, ClosureFacts
    <2> QED
        BY <1>0, <1>1, <1>3, <2>3, <2>2
<1>4. CASE b = a /\ act'[a] # "blocked"
    <2>1. act'[a] \in Bad
        BY <1>4 DEF Ended, Ends, Good
    <2> QED
        BY <1>4, <2>1, ClosureFacts
<1> QED
    BY <1>2, <1>3, <1>4

-----------------------------------------------------------------------------
(* The invariant *)

(* The invariant holds before the first task. *)
LEMMA SchedInvInit == SchedInit => SchedInv
<1> SUFFICES ASSUME SchedInit PROVE SchedInv
    OBVIOUS
<1>1. WaiterInv
    BY SlotsAssumption
    DEF SchedInit, SlotsInit, WaiterInv, SlotsTypeOK, Callers, NoLostWaiter
<1>2. MakersMade /\ MakersEnded /\ SlotUse /\ Reasons /\ Failures
    BY DEF SchedInit, SlotsInit, MakersMade, MakersEnded, SlotUse, Reasons, Failures,
           Returns, Tells, Past, Ends
<1>3. Needed /\ AllReturned /\ Explained
    BY DEF SchedInit, Needed, AllReturned, Explained, Ended, Ends
<1> QED
    BY <1>1, <1>2, <1>3, TypesInit DEF SchedInv

(* Every step of the scheduler keeps the invariant. *)
LEMMA SchedInvStep == SchedInv /\ [SchedNext]_schedVars => SchedInv'
<1> SUFFICES ASSUME SchedInv, [SchedNext]_schedVars PROVE SchedInv'
    OBVIOUS
<1>1. SchedTypeOK' /\ WaiterInv'
    BY TypesStep, SlotsSimulated, WaiterInvStep DEF SchedInv
<1>2. ASSUME NEW a \in Procs, Step(a) PROVE SchedInv'
    BY <1>1, <1>2, MakersStep, SlotUseStep, ReasonsStep, FailuresStep, NeededStep,
       AllReturnedStep, ExplainedStep
    DEF SchedInv, WaiterInv
<1>3. CASE Return
    <2>1. UNCHANGED <<act, result, stopped, failures, keepGoing, caller>>
        BY <1>3 DEF Return, slotsVars
    <2>2. AllReturned'
        BY <1>3 DEF Return, AllReturned, Ended
    <2>3. MakersMade' /\ MakersEnded' /\ SlotUse' /\ Reasons' /\ Failures'
        BY <2>1 DEF SchedInv, MakersMade, MakersEnded, SlotUse, Reasons, Failures, Returns,
                    Tells, Ended
    <2>4. Needed' /\ Explained'
        BY <2>1 DEF SchedInv, Needed, Explained, Ended, Closure
    <2> QED
        BY <1>1, <2>2, <2>3, <2>4 DEF SchedInv
<1>4. CASE UNCHANGED schedVars
    <2>1. UNCHANGED <<act, result, stopped, failures, keepGoing, caller, returned>>
        BY <1>4 DEF schedVars
    <2>2. MakersMade' /\ MakersEnded' /\ SlotUse' /\ Reasons' /\ Failures'
        BY <2>1 DEF SchedInv, MakersMade, MakersEnded, SlotUse, Reasons, Failures, Returns,
                    Tells, Ended
    <2>3. Needed' /\ Explained' /\ AllReturned'
        BY <2>1 DEF SchedInv, Needed, Explained, AllReturned, Ended, Closure
    <2> QED
        BY <1>1, <2>2, <2>3 DEF SchedInv
<1> QED
    BY <1>2, <1>3, <1>4 DEF SchedNext

(* The parts of the invariant, of slots, makers, reasons and failures, hold
   throughout a build. *)
THEOREM SchedulerInvariant == SchedSpec => []SchedInv
    BY SchedInvInit, SchedInvStep, PTL DEF SchedSpec

-----------------------------------------------------------------------------
(* The refinement *)

(* What the abstract build sees of a task, place by place. *)
LEMMA StatusCases ==
    ASSUME SchedInv, NEW a \in Procs
    PROVE  /\ Status(a) = "todo" <=>
                \/ act[a] \in {"absent", "waits", "keyed", "slot"}
                \/ act[a] = "closes" /\ result[a] = "skipped"
           /\ Status(a) = "busy" <=>
                \/ act[a] \in {"runs", "records", "reports"}
                \/ act[a] = "closes" /\ result[a] \in {"made", "failed"}
           /\ Status(a) = "made" <=> act[a] \in Good
           /\ Status(a) = "lost" <=>
                \/ act[a] \in {"failed", "skipped", "blocked", "died"}
                \/ act[a] = "closes" /\ result[a] = "died"
           /\ Status(a) \in {"todo", "busy", "made", "lost"}
<1>1. act[a] \in Places \cup Ends /\ (act[a] = "closes" =>
            result[a] \in {"made", "failed", "skipped", "died"})
    BY DEF SchedInv, SchedTypeOK, Reasons
<1> QED
    BY <1>1 DEF Status, Places, Ends, Good

(* The same one step later. *)
LEMMA StatusCasesNext ==
    ASSUME SchedInv', NEW a \in Procs
    PROVE  /\ Status(a)' = "todo" <=>
                \/ act'[a] \in {"absent", "waits", "keyed", "slot"}
                \/ act'[a] = "closes" /\ result'[a] = "skipped"
           /\ Status(a)' = "busy" <=>
                \/ act'[a] \in {"runs", "records", "reports"}
                \/ act'[a] = "closes" /\ result'[a] \in {"made", "failed"}
           /\ Status(a)' = "made" <=> act'[a] \in Good
           /\ Status(a)' = "lost" <=>
                \/ act'[a] \in {"failed", "skipped", "blocked", "died"}
                \/ act'[a] = "closes" /\ result'[a] = "died"
           /\ Status(a)' \in {"todo", "busy", "made", "lost"}
<1>1. act'[a] \in Places \cup Ends /\ (act'[a] = "closes" =>
            result'[a] \in {"made", "failed", "skipped", "died"})
    BY DEF SchedInv, SchedTypeOK, Reasons
<1> QED
    BY <1>1 DEF Status, Places, Ends, Good

(* A command that is given a slot finds a place among the busy ones: those  *)
(* hold slots too, and there are --jobs of them.                            *)
LEMMA RoomForOne ==
    ASSUME SchedInv, SlotsConserved, NEW a \in Procs, act[a] = "slot", caller[a] = "holding"
    PROVE  Cardinality({b \in Commands : [c \in Procs |-> Status(c)][b] = "busy"}) < Count
<1> DEFINE Busy == {b \in Commands : [c \in Procs |-> Status(c)][b] = "busy"}
<1>0. Commands \subseteq Procs
    BY SchedulerAssumption
<1>1. Busy \subseteq Taken \ {a}
    <2> SUFFICES ASSUME NEW b \in Busy PROVE b \in Taken \ {a}
        OBVIOUS
    <2>1. b \in Procs /\ b \in Commands /\ Status(b) = "busy"
        BY <1>0
    <2>2. caller[b] = "holding" /\ b # a
        BY <2>1, StatusCases DEF SchedInv, SlotUse
    <2> QED
        BY <2>1, <2>2 DEF Taken
<1>2. a \in Taken /\ IsFiniteSet(Taken)
    BY TakenFinite DEF Taken
<1>3. IsFiniteSet(Taken \ {a}) /\ Cardinality(Taken \ {a}) = Cardinality(Taken) - 1
    BY <1>2, FS_RemoveElement
<1>4. Cardinality(Busy) <= Cardinality(Taken \ {a})
    BY <1>1, <1>3, FS_Subset
<1>5. Cardinality(Taken) \in Nat /\ Cardinality(Busy) \in Nat
    BY <1>1, <1>2, <1>3, FS_Subset, FS_CardinalityType
<1>6. Cardinality(Taken) <= Count
    BY <1>5, SlotsAssumption DEF SlotsConserved, SchedInv, WaiterInv, SlotsTypeOK
<1> QED
    BY <1>3, <1>4, <1>5, <1>6, SlotsAssumption

(* Build counts as the modules it extends do. *)
LEMMA SameCount == \A S : B!Cardinality(S) = Cardinality(S)
    BY DEF B!Cardinality, Cardinality

(* One task changes its status, or none does. *)
LEMMA StatusMoves ==
    ASSUME SchedInv, SchedInv', NEW a \in Procs, Step(a)
    PROVE  [c \in Procs |-> Status(c)]' = [[c \in Procs |-> Status(c)] EXCEPT ![a] = Status(a)']
<1>1. \A b \in Procs \ {a} : Status(b)' = Status(b)
    BY OneMoves DEF Status, SchedInv
<1> QED
    BY <1>1

(* Each step of a task is a step of the build, or none it can see. *)
LEMMA BuildStep ==
    ASSUME SchedInv, SchedInv', SlotsConserved, NEW a \in Procs, Step(a)
    PROVE  [B!BuildNext]_(B!buildVars)
<1> DEFINE st == [c \in Procs |-> Status(c)]
<1>0. /\ st' = [st EXCEPT ![a] = Status(a)'] /\ keepGoing' = keepGoing
      /\ \A b \in Procs : st[b] = Status(b)
      /\ Makers[a] \subseteq Procs
    BY StatusMoves, OneMoves, SchedulerAssumption DEF SchedInv
<1>a. act[a] \in Past => \A m \in Makers[a] : st[m] = "made"
    BY <1>0, StatusCases DEF SchedInv, MakersMade
<1>b. ASSUME Status(a)' = Status(a), failures' = failures, stopped' = stopped
      PROVE  [B!BuildNext]_(B!buildVars)
    <2>1. st' = st
        BY <1>0, <1>b
    <2> QED
        BY <1>0, <1>b, <2>1 DEF B!buildVars
<1> HIDE DEF st
<1>1. CASE Start(a) \/ SlotHanded(a) \/ Succeed(a) \/ Record(a)
    <2>1. Status(a)' = Status(a) /\ failures' = failures /\ stopped' = stopped
        BY <1>1, StatusCases, StatusCasesNext
        DEF Start, SlotHanded, Succeed, Record, GoTo, CloseWith, SchedInv, SchedTypeOK
    <2> QED
        BY <1>b, <2>1
<1>2. CASE DepsDone(a)
    <2>1. Status(a) = "todo" /\ failures' = failures /\ stopped' = stopped
        BY <1>2, StatusCases DEF DepsDone
    <2>2. CASE act'[a] = "keyed"
        BY <1>b, <2>1, <2>2, StatusCasesNext
    <2>3. CASE act'[a] # "keyed"
        <3>1. Status(a)' = "lost" /\ ((\E m \in Makers[a] : st[m] = "lost")
                                        \/ (stopped /\ ~keepGoing))
            <4>1. act'[a] \in {"blocked", "skipped"}
                BY <1>2, <2>3 DEF DepsDone, GoTo, SchedInv, SchedTypeOK
            <4>2. CASE act'[a] = "blocked"
                <5>1. PICK m \in Makers[a] : Ended(m) /\ act[m] \notin Good
                    BY <1>2, <4>2 DEF DepsDone, GoTo, SchedInv, SchedTypeOK
                <5>2. Status(m) = "lost"
                    BY <1>0, <5>1, StatusCases DEF Ended, Ends, Good
                <5> QED
                    BY <1>0, <4>2, <5>1, <5>2, StatusCasesNext
            <4>3. CASE act'[a] = "skipped"
                BY <1>2, <4>3, StatusCasesNext
                DEF DepsDone, GoTo, SchedInv, SchedTypeOK, SkipIfStopped
            <4> QED
                BY <4>1, <4>2, <4>3
        <3>2. B!Lose(a)
            BY <1>0, <2>1, <3>1 DEF B!Lose, st
        <3> QED
            BY <3>2 DEF B!BuildNext
    <2> QED
        BY <2>2, <2>3
<1>3. CASE CacheHit(a)
    <2>1. Status(a) = "todo" /\ Status(a)' = "made" /\ act[a] \in Past
        BY <1>3, StatusCases, StatusCasesNext
        DEF CacheHit, GoTo, SchedInv, SchedTypeOK, Good, Past
    <2>2. B!Reuse(a)
        BY <1>0, <1>3, <1>a, <2>1 DEF B!Reuse, B!Made, CacheHit, st
    <2> QED
        BY <2>2 DEF B!BuildNext
<1>4. CASE CacheMiss(a)
    <2>1. Status(a) = "todo" /\ act[a] \in Past /\ failures' = failures /\ stopped' = stopped
        BY <1>4, StatusCases DEF CacheMiss, Past
    <2>2. CASE a \in Commands
        <3>1. Status(a)' = "todo"
            BY <1>4, <2>2, StatusCasesNext DEF CacheMiss, GoTo, SchedInv, SchedTypeOK
        <3> QED
            BY <1>b, <2>1, <3>1
    <2>3. CASE a \notin Commands
        <3>1. Status(a)' = "busy"
            BY <1>4, <2>3, StatusCasesNext DEF CacheMiss, GoTo, SchedInv, SchedTypeOK
        <3>2. B!Begin(a)
            BY <1>0, <1>a, <2>1, <2>3, <3>1 DEF B!Begin, B!Made, st
        <3> QED
            BY <3>2 DEF B!BuildNext
    <2> QED
        BY <2>2, <2>3
<1>5. CASE TakeSlot(a)
    <2>1. Status(a) = "todo" /\ act[a] \in Past /\ failures' = failures /\ stopped' = stopped
        BY <1>5, StatusCases DEF TakeSlot, Past
    <2>2. CASE SkipIfStopped
        <3>1. Status(a)' = "todo"
            BY <1>5, <2>2, StatusCasesNext DEF TakeSlot, CloseWith, GoTo, SchedInv, SchedTypeOK
        <3> QED
            BY <1>b, <2>1, <3>1
    <2>3. CASE ~SkipIfStopped
        <3>1. Status(a)' = "busy"
            BY <1>5, <2>3, StatusCasesNext DEF TakeSlot, GoTo, SchedInv, SchedTypeOK
        <3>2. Cardinality({b \in Commands : st[b] = "busy"}) < Count
            BY <1>5, RoomForOne DEF TakeSlot, st
        <3>3. B!Begin(a)
            BY <1>0, <1>a, <2>1, <2>3, <3>1, <3>2, SameCount DEF B!Begin, B!Made, SkipIfStopped, st
        <3> QED
            BY <3>3 DEF B!BuildNext
    <2> QED
        BY <2>2, <2>3
<1>6. CASE Fail(a)
    <2>1. Status(a) = "busy" /\ Status(a)' = "busy" /\ failures' = failures
        BY <1>6, StatusCases, StatusCasesNext
        DEF Fail, GoTo, CloseWith, SchedInv, SchedTypeOK
    <2>2. CASE stopped' = stopped
        BY <1>b, <2>1, <2>2
    <2>3. CASE stopped' # stopped
        <3>1. stopped' = TRUE /\ a \notin Tests
            BY <1>6, <2>3 DEF Fail, SchedInv, SchedTypeOK
        <3>2. st' = st
            BY <1>0, <2>1 DEF st
        <3>3. B!Halt(a)
            BY <1>0, <2>1, <3>1, <3>2 DEF B!Halt, st
        <3> QED
            BY <3>3 DEF B!BuildNext
    <2> QED
        BY <2>2, <2>3
<1>7. CASE Push(a)
    <2>1. /\ Status(a) = "busy" /\ Status(a)' = "busy" /\ stopped' = stopped
          /\ failures' = failures \cup {a}
        BY <1>7, StatusCases, StatusCasesNext
        DEF Push, GoTo, CloseWith, SchedInv, SchedTypeOK
    <2>2. a \notin failures /\ (a \in Tests \/ stopped)
        BY <1>7 DEF Push, SchedInv, Failures, Tells, Returns
    <2>3. keepGoing \/ a \in Tests \/ failures \subseteq Tests
        BY <1>7, <2>2 DEF Push, SchedInv, Failures, Tells, SchedTypeOK
    <2>4. st' = st
        BY <1>0, <2>1 DEF st
    <2>5. B!Report(a)
        BY <1>0, <2>1, <2>2, <2>3, <2>4 DEF B!Report, st
    <2> QED
        BY <2>5 DEF B!BuildNext
<1>8. CASE Panic(a)
    <2>1. /\ Status(a) \in {"todo", "busy"} /\ Status(a)' = "lost" /\ act[a] \in Past
          /\ a \in MayPanic /\ failures' = failures /\ stopped' = stopped
        BY <1>8, StatusCases, StatusCasesNext
        DEF Panic, GoTo, CloseWith, SchedInv, SchedTypeOK, Past
    <2>2. B!Die(a)
        BY <1>0, <1>a, <2>1 DEF B!Die, B!Made, st
    <2> QED
        BY <2>2 DEF B!BuildNext
<1>9. CASE Close(a)
    <2>1. /\ act[a] = "closes" /\ act'[a] = result[a] /\ Returns(a) = result[a]
          /\ failures' = failures /\ stopped' = stopped /\ result' = result
        BY <1>9 DEF Close, GoTo, SchedInv, SchedTypeOK, Returns
    <2>2. CASE result[a] = "made"
        <3>1. Status(a) = "busy" /\ Status(a)' = "made" /\ a \notin failures
            BY <2>1, <2>2, StatusCases, StatusCasesNext DEF SchedInv, Failures, Good
        <3>2. B!Make(a)
            BY <1>0, <2>1, <3>1 DEF B!Make, st
        <3> QED
            BY <3>2 DEF B!BuildNext
    <2>3. CASE result[a] = "failed"
        <3>1. /\ Status(a) = "busy" /\ Status(a)' = "lost"
              /\ a \in failures \/ (stopped /\ ~keepGoing)
            BY <2>1, <2>3, StatusCases, StatusCasesNext DEF SchedInv, Reasons
        <3>2. B!Lose(a)
            BY <1>0, <2>1, <3>1 DEF B!Lose, st
        <3> QED
            BY <3>2 DEF B!BuildNext
    <2>4. CASE result[a] = "skipped"
        <3>1. Status(a) = "todo" /\ Status(a)' = "lost" /\ stopped /\ ~keepGoing
            BY <2>1, <2>4, StatusCases, StatusCasesNext DEF SchedInv, Reasons
        <3>2. B!Lose(a)
            BY <1>0, <2>1, <3>1 DEF B!Lose, st
        <3> QED
            BY <3>2 DEF B!BuildNext
    <2>5. CASE result[a] = "died"
        BY <1>b, <2>1, <2>5, StatusCases, StatusCasesNext
    <2> QED
        BY <2>1, <2>2, <2>3, <2>4, <2>5 DEF SchedInv, Reasons
<1> QED
    BY <1>1, <1>2, <1>3, <1>4, <1>5, <1>6, <1>7, <1>8, <1>9 DEF Step

(* In the scheduler no slot is lost: no acquire future is dropped. *)
LEMMA SchedulerSlotsConserved == SchedSpec => []SlotsConserved
<1>1. "handed" \notin GiveUpIn
    BY SchedulerAssumption
<1>2. SlotsSpec => []SlotsConserved
    BY <1>1, SlotsAreConserved
<1> QED
    BY <1>2, SchedulerUsesSlots, PTL

(***************************************************************************)
(* The refinement: tasks, cache lookups, slots, `stopped' and failures     *)
(* together are a Build.                                                   *)
(***************************************************************************)
THEOREM SchedulerIsABuild == SchedSpec => IsABuild
<1>1. SchedInit => B!BuildInit
    <2> SUFFICES ASSUME SchedInit PROVE B!BuildInit
        OBVIOUS
    <2>1. \A a \in Procs : Status(a) = "todo"
        BY SchedInvInit, StatusCases DEF SchedInit
    <2>2. [a \in Procs |-> Status(a)] = [a \in Procs |-> "todo"]
        BY <2>1
    <2> QED
        BY <2>2, Zenon DEF SchedInit, B!BuildInit
<1>2. SchedInv /\ SchedInv' /\ SlotsConserved /\ [SchedNext]_schedVars
        => [B!BuildNext]_(B!buildVars)
    <2> SUFFICES ASSUME SchedInv, SchedInv', SlotsConserved, [SchedNext]_schedVars
                 PROVE  [B!BuildNext]_(B!buildVars)
        OBVIOUS
    <2>1. CASE Return
        BY <2>1 DEF Return, B!buildVars, Status
    <2>2. CASE UNCHANGED schedVars
        BY <2>2 DEF schedVars, B!buildVars, Status
    <2> QED
        BY <2>1, <2>2, BuildStep DEF SchedNext
<1> QED
    BY <1>1, <1>2, SchedulerInvariant, SchedulerSlotsConserved, PTL
    DEF SchedSpec, IsABuild, B!BuildSpec

-----------------------------------------------------------------------------
(***************************************************************************)
(* execute leaves nothing behind: when it returns everything that anyone   *)
(* asked for has ended, and every slot is back.                            *)
(***************************************************************************)
THEOREM SchedulerLeavesNothing == SchedSpec => []NothingLeft
<1>1. SchedInv /\ SlotsConserved => NothingLeft
    <2> SUFFICES ASSUME SchedInv, SlotsConserved, returned
                 PROVE  /\ \A a \in UNION {Closure(r) : r \in Requested} : Ended(a)
                        /\ free = Count /\ waiting = {}
        BY DEF NothingLeft
    <2> DEFINE Over == {b \in Procs : Ended(b)}
    <2>0. Requested \subseteq Procs /\ \A b \in Procs : Makers[b] \subseteq Procs
        BY SchedulerAssumption
    <2>1. \A c \in Over : Makers[c] \subseteq Over
        <3>1. \A c \in Over : act[c] = "blocked" \/ act[c] \in Past
            BY DEF Ended, Ends, Past
        <3> QED
            BY <2>0, <3>1 DEF SchedInv, MakersMade, MakersEnded, Ended, Good, Ends
    <2>2. \A r \in Requested : Closure(r) \subseteq Over
        BY <2>0, <2>1 DEF Closure, SchedInv, AllReturned
    <2>3. \A a \in Procs : act[a] = "absent" \/ Ended(a)
        BY <2>2 DEF SchedInv, Needed
    <2>4. Taken = {}
        BY <2>3 DEF Taken, SchedInv, SlotUse, Ended
    <2>5. free = Count
        <3>1. Cardinality(Taken) = 0
            BY <2>4, FS_EmptySet
        <3> QED
            BY <3>1, SlotsAssumption DEF SlotsConserved, SchedInv, WaiterInv, SlotsTypeOK
    <2>6. waiting = {}
        BY <2>5, SlotsAssumption DEF SchedInv, WaiterInv
    <2> QED
        BY <2>2, <2>5, <2>6
<1> QED
    BY <1>1, SchedulerInvariant, SchedulerSlotsConserved, PTL

(***************************************************************************)
(* What is requested and not made needs an action whose failure is         *)
(* reported, or one whose task panicked.                                   *)
(***************************************************************************)
THEOREM SchedulerExplains == SchedSpec => []LostIsExplained
<1>1. SchedInv => LostIsExplained
    <2> SUFFICES ASSUME SchedInv, returned, keepGoing \/ failures \subseteq Tests,
                        NEW r \in Requested, act[r] \notin Good
                 PROVE  \E b \in Closure(r) : b \in failures \/ act[b] = "died"
        BY DEF LostIsExplained
    <2>0. r \in Procs /\ Ended(r) /\ Requested \subseteq Procs
        BY SchedulerAssumption DEF SchedInv, AllReturned
    <2>1. PICK b \in Closure(r) : act[b] \in {"failed", "skipped", "died"}
        BY <2>0 DEF SchedInv, Explained
    <2>2. b \in Procs
        BY <2>0, <2>1, ClosureFacts
    <2>3. ASSUME stopped, ~keepGoing PROVE FALSE
        <3>1. PICK c \in Procs \ Tests : Tells(c)
            BY <2>3 DEF SchedInv, Failures
        <3>2. act[c] = "reports"
            BY <2>3, <3>1 DEF Tells
        <3>3. PICK q \in Requested : c \in Closure(q)
            BY <3>1, <3>2 DEF SchedInv, Needed
        <3>4. \A d \in {x \in Procs : Ended(x)} : Makers[d] \subseteq {x \in Procs : Ended(x)}
            <4>1. \A d \in Procs : Ended(d) => act[d] = "blocked" \/ act[d] \in Past
                BY DEF Ended, Ends, Past
            <4> QED
                BY <4>1, SchedulerAssumption
                DEF SchedInv, MakersMade, MakersEnded, Ended, Good, Ends
        <3>5. Ended(c)
            BY <2>0, <3>3, <3>4 DEF Closure, SchedInv, AllReturned
        <3> QED
            BY <3>2, <3>5 DEF Ended, Ends
    <2>4. Returns(b) = act[b]
        BY <2>1 DEF Returns
    <2> QED
        BY <2>1, <2>2, <2>3, <2>4 DEF SchedInv, Reasons
<1> QED
    BY <1>1, SchedulerInvariant, PTL
=============================================================================
