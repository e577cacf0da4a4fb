----------------------------- MODULE BzlLoader -----------------------------
(***************************************************************************)
(* The sharing of .bzl files between threads, BzlLoader::loaded of         *)
(* crates/fjfj-starlark/src/loader.rs: the first thread to ask for a file  *)
(* evaluates it, others sleep until it is done, and a load that comes back *)
(* to a file being evaluated is refused as a cycle.  A file is the list of *)
(* the files it loads; that the text of a file may be missing or wrong is  *)
(* left out, so the only error is a cycle, and what loads it.              *)
(***************************************************************************)
EXTENDS Integers, Sequences, FiniteSets

CONSTANTS
    Threads,
    Files,
    Loads,     \* Loads[f]: the files f loads, in order
    Nobody     \* no thread

ASSUME LoaderAssumption ==
    /\ Loads \in [Files -> Seq(Files)]
    /\ Nobody \notin Threads

VARIABLES
    slot,      \* Slot.state of each file
    waiting,   \* BzlLoader.waiting: whom each thread waits for, or Nobody
    pc,        \* where each thread is
    want,      \* the file it is asking for, while it looks, sleeps or wakes
    stack      \* the files it is evaluating, outermost first, and how far it is

loaderVars == <<slot, waiting, pc, want, stack>>

Empty == [st |-> "empty"]
Running(t) == [st |-> "running", owner |-> t]
Done(res) == [st |-> "done", result |-> res]

Results == {"ok", "cycle"}
Frames == [file : Files, at : Nat \ {0}, result : Results]

LoaderInit ==
    /\ slot = [f \in Files |-> Empty]
    /\ waiting = [t \in Threads |-> Nobody]
    /\ pc = [t \in Threads |-> "idle"]
    /\ \E f \in Files : want = [t \in Threads |-> f]
    /\ stack = [t \in Threads |-> <<>>]

Top(t) == stack[t][Len(stack[t])]

(* A thread that is loading a package asks for a file. *)
Start(t, f) ==
    /\ pc[t] = "idle"
    /\ pc' = [pc EXCEPT ![t] = "look"]
    /\ want' = [want EXCEPT ![t] = f]
    /\ UNCHANGED <<slot, waiting, stack>>

(* `loaded' returns to the load statement of the file below it, if any: an  *)
(* error ends the evaluation of that file.                                  *)
Returned(below, res) ==
    IF below = <<>> THEN below
    ELSE [below EXCEPT ![Len(below)] =
            [file |-> @.file, at |-> @.at + 1, result |-> res]]

Resumes(below) == IF below = <<>> THEN "idle" ELSE "evaluate"

Return(t, res) ==
    /\ pc' = [pc EXCEPT ![t] = Resumes(stack[t])]
    /\ stack' = [stack EXCEPT ![t] = Returned(@, res)]

(* SlotState::Done *)
LookDone(t) ==
    /\ pc[t] = "look" /\ slot[want[t]].st = "done"
    /\ Return(t, slot[want[t]].result)
    /\ UNCHANGED <<slot, waiting, want>>

(* Mutant: only the owner itself is asked whether it waits for this thread. *)
ClosesDirectly(t, owner) == waiting[owner] = t

(* The walk along `waiting' from owner comes to t. *)
Closes(t, owner) ==
    \A S \in SUBSET Threads :
        owner \in S /\ (\A u \in S : waiting[u] \in Threads => waiting[u] \in S)
        => t \in S

(* SlotState::Running of this thread, or of one that waits for this one. *)
LookCycle(t) ==
    /\ pc[t] = "look" /\ slot[want[t]].st = "running"
    /\ LET owner == slot[want[t]].owner IN owner = t \/ Closes(t, owner)
    /\ Return(t, "cycle")
    /\ UNCHANGED <<slot, waiting, want>>

(* Mutant: the file it waits for is noted, not the thread. *)
LookSleepOnFile(t) ==
    /\ pc[t] = "look" /\ slot[want[t]].st = "running"
    /\ LET owner == slot[want[t]].owner IN owner # t /\ ~Closes(t, owner)
    /\ waiting' = [waiting EXCEPT ![t] = want[t]]
    /\ pc' = [pc EXCEPT ![t] = "asleep"]
    /\ UNCHANGED <<slot, want, stack>>

(* SlotState::Running of another thread: note whom it waits for, and sleep. *)
LookSleep(t) ==
    /\ pc[t] = "look" /\ slot[want[t]].st = "running"
    /\ LET owner == slot[want[t]].owner IN
       /\ owner # t /\ ~Closes(t, owner)
       /\ waiting' = [waiting EXCEPT ![t] = owner]
    /\ pc' = [pc EXCEPT ![t] = "asleep"]
    /\ UNCHANGED <<slot, want, stack>>

(* SlotState::Empty: the file is this thread's to evaluate. *)
LookEmpty(t) ==
    /\ pc[t] = "look" /\ slot[want[t]] = Empty
    /\ slot' = [slot EXCEPT ![want[t]] = Running(t)]
    /\ stack' = [stack EXCEPT ![t] =
          Append(@, [file |-> want[t], at |-> 1, result |-> "ok"])]
    /\ pc' = [pc EXCEPT ![t] = "evaluate"]
    /\ UNCHANGED <<waiting, want>>

(* Condvar::wait may return for no reason. *)
Spurious(t) ==
    /\ pc[t] = "asleep"
    /\ pc' = [pc EXCEPT ![t] = "woken"]
    /\ UNCHANGED <<slot, waiting, want, stack>>

(* The thread has the slot's lock again: it waits for nobody, and looks. *)
Woken(t) ==
    /\ pc[t] = "woken"
    /\ waiting' = [waiting EXCEPT ![t] = Nobody]
    /\ pc' = [pc EXCEPT ![t] = "look"]
    /\ UNCHANGED <<slot, want, stack>>

(* The next load statement of the file being evaluated. *)
NextLoad(t) ==
    /\ pc[t] = "evaluate" /\ Top(t).result = "ok"
    /\ Top(t).at <= Len(Loads[Top(t).file])
    /\ want' = [want EXCEPT ![t] = Loads[Top(t).file][Top(t).at]]
    /\ pc' = [pc EXCEPT ![t] = "look"]
    /\ UNCHANGED <<slot, waiting, stack>>

(* Mutant: a file is done although one it loads is not. *)
FinishAnyway(t) ==
    /\ pc[t] = "evaluate"
    /\ Top(t).result = "ok" => Top(t).at > Len(Loads[Top(t).file])
    /\ slot' = [slot EXCEPT ![Top(t).file] = Done("ok")]
    /\ pc' = [pc EXCEPT ![t] = "notify"]
    /\ UNCHANGED <<waiting, want, stack>>

(* The evaluation is over, at the end of the file or at a load that failed. *)
Finish(t) ==
    /\ pc[t] = "evaluate"
    /\ Top(t).result = "ok" => Top(t).at > Len(Loads[Top(t).file])
    /\ slot' = [slot EXCEPT ![Top(t).file] = Done(Top(t).result)]
    /\ pc' = [pc EXCEPT ![t] = "notify"]
    /\ UNCHANGED <<waiting, want, stack>>

(* notify_all, and `loaded' returns.  Who is woken still stands in          *)
(* `waiting' until it runs.                                                 *)
Notify(t) ==
    /\ pc[t] = "notify"
    /\ LET below == SubSeq(stack[t], 1, Len(stack[t]) - 1)
           wake == {u \in Threads : pc[u] = "asleep" /\ want[u] = Top(t).file}
       IN
       /\ pc' = [u \in Threads |->
                   IF u \in wake THEN "woken" ELSE IF u = t THEN Resumes(below) ELSE pc[u]]
       /\ stack' = [stack EXCEPT ![t] = Returned(below, Top(t).result)]
    /\ UNCHANGED <<slot, waiting, want>>

Step(t) ==
    \/ LookDone(t) \/ LookCycle(t) \/ LookSleep(t) \/ LookEmpty(t)
    \/ Woken(t) \/ NextLoad(t) \/ Finish(t) \/ Notify(t)

LoaderNext ==
    \E t \in Threads : Step(t) \/ Spurious(t) \/ \E f \in Files : Start(t, f)

LoaderSpec == LoaderInit /\ [][LoaderNext]_loaderVars

(* Every thread runs, and wakes for no reason only so often.  No package    *)
(* has to be loaded.                                                        *)
LoaderFairSpec ==
    /\ LoaderSpec
    /\ \A t \in Threads : WF_loaderVars(Step(t))
    /\ <>[][\A t \in Threads : ~Spurious(t)]_loaderVars

-----------------------------------------------------------------------------
(* Properties *)

LoaderTypeOK ==
    /\ slot \in [Files -> {Empty} \cup [st : {"running"}, owner : Threads]
                                  \cup [st : {"done"}, result : Results]]
    /\ waiting \in [Threads -> Threads \cup {Nobody}]
    /\ pc \in [Threads -> {"idle", "look", "asleep", "woken", "evaluate", "notify"}]
    /\ want \in [Threads -> Files]
    /\ stack \in [Threads -> Seq(Frames)]

LoadsFile(f, g) == \E i \in DOMAIN Loads[f] : Loads[f][i] = g

(* g is loaded by f, through others or directly. *)
Needs(f, g) ==
    \A S \in SUBSET Files :
        /\ \A h \in Files : LoadsFile(f, h) => h \in S
        /\ \A e \in S, h \in Files : LoadsFile(e, h) => h \in S
        => g \in S

(* Loading f cannot end well: it is on a load cycle, or needs a file that is. *)
Doomed(f) == \E g \in Files : (g = f \/ Needs(f, g)) /\ Needs(g, g)

(***************************************************************************)
(* A cycle is found whichever thread closes it: a file is done, and ok,    *)
(* only if every file it loads is, so that none on a cycle ever is.        *)
(***************************************************************************)
CyclesAreFound ==
    \A f \in Files : slot[f] = Done("ok") =>
        /\ ~Doomed(f)
        /\ \A i \in DOMAIN Loads[f] : slot[Loads[f][i]] = Done("ok")

(***************************************************************************)
(* The walk along `waiting', made with two locks held, comes to an end:    *)
(* in any set of threads there is one that waits for none of them.         *)
(***************************************************************************)
WalksEnd ==
    \A S \in SUBSET Threads : S # {} => \E t \in S : waiting[t] \notin S

(***************************************************************************)
(* "neither thread waits forever": a thread that asks for a file is given  *)
(* it, or an error.                                                        *)
(***************************************************************************)
LoadsEnd == \A t \in Threads : pc[t] # "idle" ~> pc[t] = "idle"

(***************************************************************************)
(* "A load that comes back to a file being evaluated is a cycle", and no   *)
(* other load: a file fails only if it is on a load cycle or needs one     *)
(* that is.                                                                *)
(***************************************************************************)
NoFalseCycle == \A f \in Files : slot[f] = Done("cycle") => Doomed(f)
=============================================================================
