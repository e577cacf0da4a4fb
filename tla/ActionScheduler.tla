-------------------------- MODULE ActionScheduler --------------------------
(***************************************************************************)
(* The actions of one build run by crates/fjfj-exec/src/run.rs: `execute'  *)
(* asks for the actions that make what was requested, each of which asks   *)
(* for the actions that make its inputs.  An action is a task: it waits    *)
(* for those, looks in the action cache, takes one of the --jobs slots (of *)
(* module Slots, which this one extends) if it runs a command, runs, and   *)
(* reports how it ended.                                                   *)
(*                                                                         *)
(* What an action does to files is not here: that it fails, or that the    *)
(* cache has it, is a choice.                                              *)
(***************************************************************************)
EXTENDS Slots

CONSTANTS
    Requested,   \* the actions that make the requested artifacts
    Makers,      \* Makers[a]: the actions that make inputs of a, but for a
    Commands,    \* ActionKind::Spawn
    Tests,       \* mnemonic TestRunner
    MayFail,     \* the actions that may fail
    MayHit,      \* the actions the cache may have
    MayPanic     \* the actions whose task may panic

ASSUME SchedulerAssumption ==
    /\ Requested \subseteq Procs
    /\ Makers \in [Procs -> SUBSET Procs]
    /\ Commands \subseteq Procs /\ Tests \subseteq Commands
    /\ MayFail \subseteq Procs /\ MayHit \subseteq Procs /\ MayPanic \subseteq Procs
    /\ GiveUpIn = {} /\ MaxArrivals >= Cardinality(Procs)

VARIABLES
    act,        \* where the task of each action is; "absent" from the memo
    result,     \* what it is about to return
    stopped,    \* Scheduler.stopped
    failures,   \* Scheduler.failures: the actions of the failures
    returned,   \* execute has returned
    keepGoing   \* --keep_going

schedVars == <<free, next, waiting, caller, act, result, stopped, failures, returned,
               keepGoing>>

(* What a task returns: it ran, was in the cache, failed, was skipped, lacks *)
(* an input, or panicked.  "made" and "hit" are Ok.                          *)
Ends == {"made", "hit", "failed", "skipped", "blocked", "died"}
Good == {"made", "hit"}

Places == {"absent", "waits", "keyed", "slot", "runs", "records",
           "reports", "closes"}

Ended(a) == act[a] \in Ends

SchedInit ==
    /\ SlotsInit
    /\ act = [a \in Procs |-> "absent"]
    /\ result = [a \in Procs |-> "made"]
    /\ stopped = FALSE
    /\ failures = {}
    /\ returned = FALSE
    /\ keepGoing \in BOOLEAN

GoTo(a, place) == act' = [act EXCEPT ![a] = place]

(* The task goes on to drop what it holds and returns end. *)
CloseWith(a, end) ==
    /\ GoTo(a, "closes")
    /\ result' = [result EXCEPT ![a] = end]

(* Scheduler::run: the first to ask for the action spawns its task. *)
Start(a) ==
    /\ act[a] = "absent"
    /\ a \in Requested \/ \E b \in Procs : act[b] = "waits" /\ a \in Makers[b]
    /\ GoTo(a, "waits")
    /\ UNCHANGED <<slotsVars, result, stopped, failures, returned, keepGoing>>

(* skip_if_stopped *)
SkipIfStopped == stopped /\ ~keepGoing

(* Mutant: try_join_all, which ends at the first error. *)
DepsDoneEarly(a) ==
    /\ act[a] = "waits"
    /\ \/ /\ \E m \in Makers[a] : Ended(m) /\ act[m] \notin Good
          /\ GoTo(a, "blocked")
       \/ /\ \A m \in Makers[a] : act[m] \in Good
          /\ GoTo(a, IF SkipIfStopped THEN "skipped" ELSE "keyed")
    /\ UNCHANGED <<slotsVars, result, stopped, failures, returned, keepGoing>>

(* join_all: every action it waits for has ended, well or not. *)
DepsDone(a) ==
    /\ act[a] = "waits"
    /\ \A m \in Makers[a] : Ended(m)
    /\ IF \E m \in Makers[a] : act[m] \notin Good THEN GoTo(a, "blocked")
       ELSE IF SkipIfStopped THEN GoTo(a, "skipped")
       ELSE GoTo(a, "keyed")
    /\ UNCHANGED <<slotsVars, result, stopped, failures, returned, keepGoing>>

(* is_current *)
CacheHit(a) ==
    /\ act[a] = "keyed" /\ a \in MayHit
    /\ GoTo(a, "hit")
    /\ UNCHANGED <<slotsVars, result, stopped, failures, returned, keepGoing>>

(* Not current: a command asks for a slot, another action runs at once. *)
CacheMiss(a) ==
    /\ act[a] = "keyed"
    /\ IF a \in Commands
       THEN GoTo(a, "slot") /\ Acquire(a)
       ELSE GoTo(a, "runs") /\ UNCHANGED slotsVars
    /\ UNCHANGED <<result, stopped, failures, returned, keepGoing>>

(* The channel of a queued acquire delivers. *)
SlotHanded(a) ==
    /\ act[a] = "slot" /\ Woken(a)
    /\ UNCHANGED <<act, result, stopped, failures, returned, keepGoing>>

(* Mutant: `stopped' is not looked at again once the slot is there. *)
TakeSlotUnchecked(a) ==
    /\ act[a] = "slot" /\ caller[a] = "holding"
    /\ GoTo(a, "runs")
    /\ UNCHANGED <<slotsVars, result, stopped, failures, returned, keepGoing>>

(* With the slot held, has the build stopped in the meantime? *)
TakeSlot(a) ==
    /\ act[a] = "slot" /\ caller[a] = "holding"
    /\ IF SkipIfStopped THEN CloseWith(a, "skipped")
       ELSE GoTo(a, "runs") /\ UNCHANGED result
    /\ UNCHANGED <<slotsVars, stopped, failures, returned, keepGoing>>

(* execute_one gives Ok: what the action makes is there. *)
Succeed(a) ==
    /\ act[a] = "runs"
    /\ GoTo(a, "records")
    /\ UNCHANGED <<slotsVars, result, stopped, failures, returned, keepGoing>>

(* The action is recorded in the cache and counted. *)
Record(a) ==
    /\ act[a] = "records"
    /\ CloseWith(a, "made")
    /\ UNCHANGED <<slotsVars, stopped, failures, returned, keepGoing>>

(* Mutant: --keep_going reports the first failure only. *)
FailFirstOnly(a) ==
    /\ act[a] = "runs" /\ a \in MayFail
    /\ stopped' = (stopped \/ a \notin Tests)
    /\ IF a \in Tests \/ ~stopped
       THEN GoTo(a, "reports") /\ UNCHANGED result
       ELSE CloseWith(a, "failed")
    /\ UNCHANGED <<slotsVars, failures, returned, keepGoing>>

(* execute_one gives a Failure: `stopped' is swapped, but not for a test. *)
Fail(a) ==
    /\ act[a] = "runs" /\ a \in MayFail
    /\ LET first == a \in Tests \/ ~stopped IN
       /\ stopped' = (stopped \/ a \notin Tests)
       /\ IF first \/ keepGoing
          THEN GoTo(a, "reports") /\ UNCHANGED result
          ELSE CloseWith(a, "failed")
    /\ UNCHANGED <<slotsVars, failures, returned, keepGoing>>

(* The failure is pushed. *)
Push(a) ==
    /\ act[a] = "reports"
    /\ failures' = failures \cup {a}
    /\ CloseWith(a, "failed")
    /\ UNCHANGED <<slotsVars, stopped, returned, keepGoing>>

(* Mutant: the JoinError is handed on, not made a Failure. *)
PanicRaw(a) ==
    /\ act[a] \in {"keyed", "runs", "records"} /\ a \in MayPanic
    /\ CloseWith(a, "join error")
    /\ UNCHANGED <<slotsVars, stopped, failures, returned, keepGoing>>

(* A panic of the task, or of a blocking step it waits for, unwinds it; who *)
(* awaits it gets a stray failure.                                          *)
Panic(a) ==
    /\ act[a] \in {"keyed", "runs", "records"} /\ a \in MayPanic
    /\ CloseWith(a, "died")
    /\ UNCHANGED <<slotsVars, stopped, failures, returned, keepGoing>>

(* Mutant: a task that does not end well keeps its slot. *)
CloseLeaky(a) ==
    /\ act[a] = "closes"
    /\ GoTo(a, result[a])
    /\ IF caller[a] = "holding" /\ result[a] \in Good
       THEN Release(a) ELSE UNCHANGED slotsVars
    /\ UNCHANGED <<result, stopped, failures, returned, keepGoing>>

(* The slot, if the task holds one, is dropped, and the task has ended. *)
Close(a) ==
    /\ act[a] = "closes"
    /\ GoTo(a, result[a])
    /\ IF caller[a] = "holding" THEN Release(a) ELSE UNCHANGED slotsVars
    /\ UNCHANGED <<result, stopped, failures, returned, keepGoing>>

(* join_all of the requested actions: the failures are taken. *)
Return ==
    /\ ~returned
    /\ \A a \in Requested : Ended(a)
    /\ returned' = TRUE
    /\ UNCHANGED <<slotsVars, act, result, stopped, failures, keepGoing>>

Step(a) ==
    \/ Start(a) \/ DepsDone(a) \/ CacheHit(a) \/ CacheMiss(a)
    \/ SlotHanded(a) \/ TakeSlot(a) \/ Succeed(a) \/ Record(a) \/ Fail(a)
    \/ Push(a) \/ Panic(a) \/ Close(a)

SchedNext == Return \/ \E a \in Procs : Step(a)

SchedSpec == SchedInit /\ [][SchedNext]_schedVars

(* The runtime polls every task that is ready, and a command ends. *)
SchedFairness ==
    /\ WF_schedVars(Return)
    /\ \A a \in Procs : WF_schedVars(Step(a))

SchedFairSpec == SchedSpec /\ SchedFairness

-----------------------------------------------------------------------------
(* Properties *)

SchedTypeOK ==
    /\ act \in [Procs -> Places \cup Ends]
    /\ result \in [Procs -> Ends]
    /\ stopped \in BOOLEAN /\ returned \in BOOLEAN /\ keepGoing \in BOOLEAN
    /\ failures \subseteq Procs

(* What the abstract build sees of an action.  One that was given a slot    *)
(* only to find the build stopped has not begun.                            *)
Status(a) ==
    CASE act[a] \in {"absent", "waits", "keyed", "slot"} -> "todo"
      [] act[a] \in {"runs", "records", "reports"} -> "busy"
      [] act[a] = "closes" -> CASE result[a] = "skipped" -> "todo"
                                [] result[a] = "died" -> "lost"
                                [] OTHER -> "busy"
      [] act[a] \in Good -> "made"
      [] OTHER -> "lost"

B == INSTANCE Build WITH
    Actions <- Procs, Jobs <- Count, Fragile <- MayPanic,
    status <- [a \in Procs |-> Status(a)], reported <- failures, halted <- stopped

(***************************************************************************)
(* The tasks, the cache lookups and the slots together are a Build: what   *)
(* an action reads is made before it begins, at most --jobs commands run,  *)
(* no command begins after a failure has stopped the build, one failure is *)
(* reported unless --keep_going, and none is dropped but for it and for    *)
(* the tasks that panicked.                                                *)
(***************************************************************************)
IsABuild == B!BuildSpec

(* The actions a needs, itself among them: closure_size counts them. *)
Closure(a) ==
    {b \in Procs : \A S \in SUBSET Procs :
        a \in S /\ (\A c \in S : Makers[c] \subseteq S) => b \in S}

(***************************************************************************)
(* execute leaves nothing behind: when it returns, and the cache is saved  *)
(* and the sandboxes are removed, every action that anyone asked for has   *)
(* ended and every slot is back.                                           *)
(***************************************************************************)
NothingLeft ==
    returned =>
        /\ \A a \in UNION {Closure(r) : r \in Requested} : Ended(a)
        /\ free = Count /\ waiting = {}

(***************************************************************************)
(* "It was built unless one of the targets it needs failed"                *)
(* (build_command.rs): when execute returns, a requested action that is    *)
(* not made needs one whose failure is reported, with the one hole it has: *)
(* a task that panicked hands its failure to who awaits it and to nobody   *)
(* else.  Asked only when results are listed: under --keep_going, or when  *)
(* nothing but tests failed.                                               *)
(***************************************************************************)
LostIsExplained ==
    returned /\ (keepGoing \/ failures \subseteq Tests) =>
        \A r \in Requested :
            \/ act[r] \in Good
            \/ \E b \in Closure(r) : b \in failures \/ act[b] = "died"

(***************************************************************************)
(* The build ends, however its actions end.                                *)
(***************************************************************************)
BuildEnds == <>returned
=============================================================================
