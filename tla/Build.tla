------------------------------- MODULE Build -------------------------------
(***************************************************************************)
(* What running the actions of a build promises, whatever the interleaving *)
(* of its tasks: an action begins once the actions that make its inputs    *)
(* have made them, no more than Jobs commands at a time, no command after  *)
(* the build has stopped; and what is not made is accounted for.           *)
(* ActionScheduler implements it.                                          *)
(***************************************************************************)
EXTENDS Integers, FiniteSets

CONSTANTS
    Actions,    \* the actions of the build
    Makers,     \* Makers[a]: the actions that make the inputs of a
    Commands,   \* the actions that run a command
    Tests,      \* the actions that run a test, whose failure is a result
    Jobs,       \* --jobs
    Fragile     \* the actions whose task may die

VARIABLES
    status,     \* "todo", "busy", "made" or "lost"
    reported,   \* the actions whose failure is reported
    halted,     \* an action other than a test has failed
    keepGoing   \* --keep_going

buildVars == <<status, reported, halted, keepGoing>>

Made(a) == status[a] = "made"

BuildInit ==
    /\ status = [a \in Actions |-> "todo"]
    /\ reported = {}
    /\ halted = FALSE
    /\ keepGoing \in BOOLEAN

(* The outputs are as the last build left them. *)
Reuse(a) ==
    /\ status[a] = "todo"
    /\ \A m \in Makers[a] : Made(m)
    /\ status' = [status EXCEPT ![a] = "made"]
    /\ UNCHANGED <<reported, halted, keepGoing>>

(* An action without a command may begin in a build that has stopped, if it *)
(* was about to when that happened.                                         *)
Begin(a) ==
    /\ status[a] = "todo"
    /\ \A m \in Makers[a] : Made(m)
    /\ a \in Commands =>
         /\ Cardinality({b \in Commands : status[b] = "busy"}) < Jobs
         /\ keepGoing \/ ~halted
    /\ status' = [status EXCEPT ![a] = "busy"]
    /\ UNCHANGED <<reported, halted, keepGoing>>

Make(a) ==
    /\ status[a] = "busy" /\ a \notin reported
    /\ status' = [status EXCEPT ![a] = "made"]
    /\ UNCHANGED <<reported, halted, keepGoing>>

(* A failure other than a test's stops the build. *)
Halt(a) ==
    /\ status[a] = "busy" /\ a \notin Tests
    /\ halted' = TRUE
    /\ UNCHANGED <<status, reported, keepGoing>>

(* Without keepGoing only the first failure is reported, and every test's. *)
Report(a) ==
    /\ status[a] = "busy" /\ a \notin reported
    /\ a \in Tests \/ halted
    /\ keepGoing \/ a \in Tests \/ reported \subseteq Tests
    /\ reported' = reported \cup {a}
    /\ UNCHANGED <<status, halted, keepGoing>>

(* An action that began and is lost is reported, or the build has stopped   *)
(* for another; one that did not begin lacks an input, or the build has     *)
(* stopped.                                                                 *)
Lose(a) ==
    /\ \/ status[a] = "busy" /\ (a \in reported \/ (halted /\ ~keepGoing))
       \/ status[a] = "todo" /\ \E m \in Makers[a] : status[m] = "lost"
       \/ status[a] = "todo" /\ halted /\ ~keepGoing
    /\ status' = [status EXCEPT ![a] = "lost"]
    /\ UNCHANGED <<reported, halted, keepGoing>>

(* A task that dies takes its action with it, and nothing is reported. *)
Die(a) ==
    /\ a \in Fragile /\ status[a] \in {"todo", "busy"}
    /\ \A m \in Makers[a] : Made(m)
    /\ status' = [status EXCEPT ![a] = "lost"]
    /\ UNCHANGED <<reported, halted, keepGoing>>

BuildNext ==
    \E a \in Actions :
        Reuse(a) \/ Begin(a) \/ Make(a) \/ Halt(a) \/ Report(a) \/ Lose(a)
        \/ Die(a)

BuildSpec == BuildInit /\ [][BuildNext]_buildVars
=============================================================================
