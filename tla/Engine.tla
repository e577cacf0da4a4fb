------------------------------- MODULE Engine -------------------------------
(***************************************************************************)
(* The demand-driven memoising graph of crates/fjfj-engine/src/lib.rs.     *)
(*                                                                         *)
(* A client asks for a key at the current version (Engine::get).  A node   *)
(* that is not up to date gets a computation, a task of its own, which     *)
(* verifies what the node held or computes it, asking for other keys on    *)
(* the way (Ctx::get).  Requests for one key share its computation; the    *)
(* last request to go aborts it.  Meanwhile the world that leaf keys read  *)
(* changes and is announced with Engine::invalidate.                       *)
(*                                                                         *)
(* A step is what happens between two points where another thread can      *)
(* interfere: one critical section of a node's state lock or of `waits',   *)
(* one atomic operation, or one read of the world.                         *)
(***************************************************************************)
EXTENDS Integers, Sequences, FiniteSets

CONSTANTS
    Keys,           \* the keys of the graph
    Leaves,         \* the keys whose computation reads the world
    Values,         \* what a leaf may find in the world
    Clients,        \* callers of Engine::get
    Tasks,          \* identities of computations; bounds how many exist at once
    None,           \* no Evaluated: Option::None
    Wants(_, _),    \* Wants(k, got): the keys k asks for, once it has read got
    Outcome(_, _, _), \* Outcome(k, got, world): what compute returns
    Outcomes,       \* the outcomes of Outcome
    MaxVersion,     \* bound on the version counter
    MaxFaults,      \* bound on how often clients give up and computations panic
    MidPoll,        \* whether an abort may find its task in the middle of a poll
    Quiet,          \* the world changes only while no request is in flight
    MayPanic        \* whether a computation may panic

VARIABLES
    version,   \* Inner.version
    nodes,     \* Inner.nodes: the keys that have a node
    node,      \* Node.state of each key
    dirty,     \* Node.dirty
    task,      \* Computation and the locals of its `run'
    req,       \* evaluate_now in progress: by requester and key
    client,    \* the callers of Engine::get
    world,     \* what the leaves read
    inv,       \* Engine::invalidate in progress
    faults     \* how many requests were given up and tasks panicked, for the bound

engineVars == <<version, nodes, node, dirty, task, req, client, world, inv, faults>>

-----------------------------------------------------------------------------
(* Types *)

Versions == Nat

(* Error::Cycle, and the error a waiter gets from a task that panicked or was *)
(* cancelled.  The wording of errors, and so the keys of a cycle, is left out. *)
Cycle == <<"err", "cycle">>
Broken == <<"err", "panicked">>

AnyOutcome == Outcomes \cup {Cycle, Broken}

(* What a computation has read so far. *)
Gots == UNION {[S -> AnyOutcome] : S \in SUBSET Keys}

ASSUME EngineAssumption ==
    /\ Leaves \subseteq Keys
    /\ MaxVersion \in Nat /\ MaxFaults \in Nat
    /\ MidPoll \in BOOLEAN /\ Quiet \in BOOLEAN /\ MayPanic \in BOOLEAN
    /\ Clients \cap Tasks = {}
    /\ \A k \in Keys, got \in Gots, w \in [Leaves -> Values] :
          Outcome(k, got, w) \in AnyOutcome

Only(got, S) == [d \in S |-> got[d]]

(* A computation goes by what it reads, and asks for finitely many keys:    *)
(* having read more it wants no less, what it never wanted makes no         *)
(* difference, and of the world a leaf reads its own entry.                 *)
ASSUME ComputeAssumption ==
    /\ IsFiniteSet(Keys)
    /\ \A k \in Keys, got \in Gots :
          /\ Wants(k, got) \subseteq Keys
          /\ \A S \in SUBSET DOMAIN got :
                /\ Wants(k, Only(got, S)) \subseteq Wants(k, got)
                /\ Wants(k, Only(got, S)) \subseteq S => Wants(k, got) \subseteq S
          /\ \A u, w \in [Leaves -> Values] :
                (k \in Leaves => u[k] = w[k]) => Outcome(k, got, u) = Outcome(k, got, w)

(* Each dependency and its changed_at when it was read. *)
Deps == Seq([dep : Keys, seen : Versions])

Evaluated ==
    [outcome : AnyOutcome, changed_at : Versions, verified_at : Versions,
     deps : Deps]

ASSUME NoneAssumption == None \notin Evaluated

(* Result<Arc<Evaluated>, Error>, and what a dropped request leaves. *)
Good(ev) == [is |-> "ok", ev |-> ev]
Bad(e) == [is |-> "err", err |-> e]
Nothing == [is |-> "dropped"]
Results == {Nothing} \cup [is : {"ok"}, ev : Evaluated]
                     \cup [is : {"err"}, err : AnyOutcome]

Empty == [st |-> "empty"]
Done(ev) == [st |-> "done", ev |-> ev]
Running(t) == [st |-> "running", task |-> t]

NoneGot == [d \in {} |-> Cycle]
Free == [pc |-> "free"]

NoReq == [mode |-> "none"]
Look == [mode |-> "look"]
Await(t) == [mode |-> "await", task |-> t]
Other(t) == [mode |-> "other", task |-> t]
Drop(t, res) == [mode |-> "drop", task |-> t, result |-> res]

Requesters == Clients \cup Tasks
NoReqs == [k \in Keys |-> NoReq]
Idle == [pc |-> "idle"]
Still == [pc |-> "idle"]

-----------------------------------------------------------------------------
(* State functions *)

VersionOf(r) == IF r \in Clients THEN client[r].version ELSE task[r].version

Pending(t) == {d \in Keys : req[t][d].mode # "none"}

(* The task ended and whatever it was asking for has been dropped. *)
Finished(t) == task[t].pc = "done" /\ Pending(t) = {}

(* Computation.waiters: the requests that hold a Waiter of t. *)
Waiters(t) ==
    {r \in Requesters : \E k \in Keys : req[r][k] = Await(t)}

(* r is inside Drop for Waiter, which no await interrupts. *)
InDrop(r) == \E k \in Keys : req[r][k].mode = "drop"

Active == {"verify", "compute", "write"}

(* r takes steps of its own.  An aborted task may go on only if the abort   *)
(* found it in the middle of a poll.                                        *)
Steps(r) ==
    /\ ~InDrop(r)
    /\ r \in Tasks => task[r].pc \in Active /\ task[r].abort # "yes"

(* What compute asks for next, all of it at once (Ctx::get_all). *)
ToAsk(t) == (Wants(task[t].key, task[t].got) \ DOMAIN task[t].got) \ Pending(t)

(* The task has returned Poll::Pending: it only awaits computations that    *)
(* have not finished.                                                       *)
Blocked(t) ==
    /\ Pending(t) # {}
    /\ \A d \in Pending(t) :
          req[t][d].mode \in {"await", "other"} /\ ~Finished(req[t][d].task)
    /\ task[t].pc = "compute" => ToAsk(t) = {}

(* Inner.waits: k is waiting on d.  The guard lives as long as the request. *)
WaitsOn(k, d) ==
    \E t \in Tasks : task[t].pc # "free" /\ task[t].key = k /\ d \in Pending(t)

(* Mutant: only a wait of a key on itself is a cycle. *)
ReachesSelf(to, from) == to = from

(* `reaches': from can be reached from to along wait edges. *)
Reaches(to, from) ==
    \A S \in SUBSET Keys :
        /\ to \in S
        /\ \A k \in S, d \in Keys : WaitsOn(k, d) => d \in S
        => from \in S

(* A computation nobody refers to is dropped with its last Arc. *)
Garbage(t, N, R, T) ==
    /\ T[t].pc = "done"
    /\ R[t] = NoReqs
    /\ \A k \in Keys : N[k] # Running(t)
    /\ \A r \in Requesters, k \in Keys :
          R[r][k].mode \in {"await", "other", "drop"} => R[r][k].task # t

Commit(N, R, T) ==
    /\ node' = N
    /\ req' = R
    /\ task' = [t \in Tasks |-> IF Garbage(t, N, R, T) THEN Free ELSE T[t]]

-----------------------------------------------------------------------------
EngineInit ==
    /\ version = 0
    /\ nodes = {}
    /\ node = [k \in Keys |-> Empty]
    /\ dirty = [k \in Keys |-> FALSE]
    /\ task = [t \in Tasks |-> Free]
    /\ req = [r \in Requesters |-> NoReqs]
    /\ client = [c \in Clients |-> Idle]
    /\ world \in [Leaves -> Values]
    /\ inv = Still
    /\ faults = 0

(* Nothing is in flight: no request, no task, no invalidation. *)
AtRest ==
    /\ inv = Still
    /\ \A c \in Clients : client[c].pc # "busy"
    /\ \A t \in Tasks : task[t] = Free
    /\ \A r \in Requesters : req[r] = NoReqs

-----------------------------------------------------------------------------
(* Clients *)

(* Engine::get: find or make the node, read the version.  `settled' says    *)
(* that no change of the world was being announced at the time.             *)
Get(c, k) ==
    /\ client[c].pc # "busy" /\ req[c] = NoReqs
    /\ Quiet => inv = Still
    /\ nodes' = nodes \cup {k}
    /\ client' = [client EXCEPT ![c] =
          [pc |-> "busy", key |-> k, version |-> version, settled |-> inv = Still]]
    /\ req' = [req EXCEPT ![c][k] = Look]
    /\ UNCHANGED <<version, node, dirty, task, world, inv, faults>>

-----------------------------------------------------------------------------
(* An answer to the request of r for k *)

(* Mutant: a dependency that could be evaluated is taken for unchanged. *)
VerifiedUnchecked(T, res) ==
    IF res.is = "ok" THEN [T EXCEPT !.at = @ + 1]
    ELSE [T EXCEPT !.pc = "compute", !.at = 1]

(* evaluate returns to the loop of `run' that verifies dependencies in      *)
(* order and stops at the first that changed.                               *)
Verified(T, res) ==
    IF res.is = "ok" /\ res.ev.changed_at <= T.previous.deps[T.at].seen
    THEN [T EXCEPT !.at = @ + 1]
    ELSE [T EXCEPT !.pc = "compute", !.at = 1]

(* Ctx::get returns to compute; a failed evaluate is no dependency. *)
ReadBy(T, k, res) ==
    IF res.is = "ok"
    THEN [T EXCEPT !.got = [d \in DOMAIN @ \cup {k} |->
                              IF d = k THEN res.ev.outcome ELSE @[d]],
                   !.deps = Append(@, [dep |-> k, seen |-> res.ev.changed_at])]
    ELSE [T EXCEPT !.got = [d \in DOMAIN @ \cup {k} |->
                              IF d = k THEN res.err ELSE @[d]]]

Resumed(T, k, res) ==
    IF T.pc = "verify" THEN Verified(T, res) ELSE ReadBy(T, k, res)

(* The value a client gets: the outcome, or the error of the evaluation. *)
ValueOf(res) == IF res.is = "ok" THEN res.ev.outcome ELSE res.err

(* The request of r for k ends with res; N, T and R otherwise as given. *)
Answer(r, k, res, N, R, T) ==
    IF r \in Clients
    THEN /\ client' = IF res = Nothing THEN client
                      ELSE [client EXCEPT ![r] =
                              [pc |-> "got", key |-> k, version |-> client[r].version,
                               settled |-> client[r].settled, value |-> ValueOf(res)]]
         /\ Commit(N, [R EXCEPT ![r][k] = NoReq], T)
    ELSE /\ Commit(N, [R EXCEPT ![r][k] = NoReq],
                   IF res = Nothing THEN T
                   ELSE [T EXCEPT ![r] = Resumed(@, k, res)])
         /\ UNCHANGED client

-----------------------------------------------------------------------------
(* evaluate_now, one pass of its loop with the state lock held *)

UpToDate(k, v) ==
    /\ node[k].st = "done"
    /\ node[k].ev.verified_at >= v
    /\ ~dirty[k]

(* Step::Done *)
LookDone(r, k) ==
    /\ Steps(r) /\ req[r][k] = Look
    /\ UpToDate(k, VersionOf(r))
    /\ Answer(r, k, Good(node[k].ev), node, req, task)
    /\ UNCHANGED <<version, nodes, dirty, world, inv, faults>>

(* Step::Await of a computation of this version, Step::Other of another's. *)
LookRunning(r, k) ==
    /\ Steps(r) /\ req[r][k] = Look
    /\ node[k].st = "running"
    /\ LET t == node[k].task IN
       req' = [req EXCEPT ![r][k] =
                 IF task[t].version = VersionOf(r) THEN Await(t) ELSE Other(t)]
    /\ UNCHANGED <<version, nodes, node, dirty, task, client, world, inv, faults>>

(* Where `run' begins. *)
Begin(previous, isDirty) ==
    IF previous # None /\ ~isDirty THEN "verify" ELSE "compute"

(* Spawn a computation and wait for it. *)
LookSpawn(r, k) ==
    /\ Steps(r) /\ req[r][k] = Look
    /\ node[k].st # "running"
    /\ ~UpToDate(k, VersionOf(r))
    /\ \E u \in Tasks : task[u] = Free
    /\ LET previous == IF node[k].st = "done" THEN node[k].ev ELSE None
           t == CHOOSE u \in Tasks : task[u] = Free
       IN
       /\ task' = [task EXCEPT ![t] =
             [pc |-> Begin(previous, dirty[k]), key |-> k,
              version |-> VersionOf(r), previous |-> previous,
              dirty |-> dirty[k], at |-> 1, got |-> NoneGot, deps |-> <<>>,
              outcome |-> Cycle, result |-> Nothing, abort |-> "no"]]
       /\ node' = [node EXCEPT ![k] = Running(t)]
       /\ req' = [req EXCEPT ![r][k] = Await(t)]
    /\ dirty' = [dirty EXCEPT ![k] = FALSE]
    /\ UNCHANGED <<version, nodes, client, world, inv, faults>>

(* The awaited future is ready.  The Waiter is dropped: unless it is the    *)
(* last of a computation the node still holds there is nothing more to do;  *)
(* a node never goes back to a computation, so looking now is looking later. *)
AwaitDone(r, k) ==
    /\ Steps(r) /\ req[r][k].mode = "await"
    /\ LET t == req[r][k].task IN
       /\ Finished(t)
       /\ IF Waiters(t) = {r} /\ node[k] = Running(t)
          THEN /\ req' = [req EXCEPT ![r][k] = Drop(t, task[t].result)]
               /\ UNCHANGED <<node, task, client>>
          ELSE Answer(r, k, task[t].result, node, req, task)
    /\ UNCHANGED <<version, nodes, dirty, world, inv, faults>>

(* Mutant: woken only while the node still holds that computation. *)
OtherDoneMissed(r, k) ==
    /\ Steps(r) /\ req[r][k].mode = "other"
    /\ Finished(req[r][k].task)
    /\ node[k] = Running(req[r][k].task)
    /\ Commit(node, [req EXCEPT ![r][k] = Look], task)
    /\ UNCHANGED <<version, nodes, dirty, client, world, inv, faults>>

(* The other version's computation ended: look again. *)
OtherDone(r, k) ==
    /\ Steps(r) /\ req[r][k].mode = "other"
    /\ Finished(req[r][k].task)
    /\ Commit(node, [req EXCEPT ![r][k] = Look], task)
    /\ UNCHANGED <<version, nodes, dirty, client, world, inv, faults>>

(* The task ends with res; the locals of `run' are gone. *)
Ended(T, res) ==
    [T EXCEPT !.pc = "done", !.result = res, !.at = 1, !.got = NoneGot,
              !.deps = <<>>, !.outcome = Cycle]

-----------------------------------------------------------------------------
(* Giving up *)

(* Mutant: the last Waiter does not put the node back. *)
DroppedSilently(r, k) == NoReq

(* A request dropped where it stands; the last Waiter of a running          *)
(* computation has yet to take the state lock.                              *)
Dropped(r, k) ==
    LET q == req[r][k] IN
    IF q.mode = "await" /\ Waiters(q.task) = {r} /\ node[k] = Running(q.task)
    THEN Drop(q.task, Nothing) ELSE NoReq

(* Mutant: the abandoned computation is not aborted. *)
AbortOfNothing(t) == {"no"}

(* AbortHandle::abort: a task that is pending, or scheduled, is cancelled;   *)
(* one that a worker is polling goes on to its next pending await.          *)
AbortOf(t) ==
    IF Blocked(t) THEN {"yes"} ELSE IF InDrop(t) THEN {"mid"}
    ELSE IF MidPoll THEN {"mid", "yes"} ELSE {"yes"}

(* Mutant: a node that held nothing goes back to Done. *)
BackUnchecked(T) == Done(T.previous)

(* What the node goes back to when its computation is abandoned. *)
Back(T) == IF T.previous = None THEN Empty ELSE Done(T.previous)

(* Mutant: the change the abandoned computation was to pick up is lost. *)
StillDirtyLost(isDirty, T) == isDirty

(* ... and it is as dirty as the computation found it, or more. *)
StillDirty(isDirty, T) == isDirty \/ T.dirty

(* Drop for Waiter, with the state lock held. *)
DropWaiter(r, k) ==
    /\ req[r][k].mode = "drop"
    /\ LET t == req[r][k].task
           res == req[r][k].result
       IN
       \/ /\ node[k] = Running(t) /\ Waiters(t) = {}
          /\ LET back == [node EXCEPT ![k] = Back(task[t])]
             IN \/ /\ task[t].pc = "done"
                   /\ Answer(r, k, res, back, req, task)
                \/ /\ task[t].pc # "done"
                   /\ \E a \in AbortOf(t) :
                        Answer(r, k, res, back, req, [task EXCEPT ![t].abort = a])
          /\ dirty' = [dirty EXCEPT ![k] = StillDirty(@, task[t])]
       \/ /\ ~(node[k] = Running(t) /\ Waiters(t) = {})
          /\ Answer(r, k, res, node, req, task)
          /\ UNCHANGED dirty
    /\ UNCHANGED <<version, nodes, world, inv, faults>>

(* The future of Engine::get is dropped. *)
Cancel(c) ==
    /\ client[c].pc = "busy" /\ ~InDrop(c)
    /\ faults < MaxFaults
    /\ faults' = faults + 1
    /\ client' = [client EXCEPT ![c] = Idle]
    /\ Commit(node, [req EXCEPT ![c] = [k \in Keys |-> Dropped(c, k)]], task)
    /\ UNCHANGED <<version, nodes, dirty, world, inv>>

(* The runtime drops the future of an aborted task, and its requests. *)
TaskDropped(t) ==
    /\ task[t].pc \in Active
    /\ \/ task[t].abort = "yes"
       \/ task[t].abort = "mid" /\ Blocked(t)
    /\ Commit(node, [req EXCEPT ![t] = [k \in Keys |-> Dropped(t, k)]],
              [task EXCEPT ![t] = Ended(@, Bad(Broken))])
    /\ UNCHANGED <<version, nodes, dirty, client, world, inv, faults>>

-----------------------------------------------------------------------------
(* `run', the body of a computation *)

(* The next dependency of what the node held: wait_on, then evaluate.  A    *)
(* cycle ends the computation and leaves the node as it is.                 *)
VerifyNext(t) ==
    /\ task[t].pc = "verify" /\ Steps(t)
    /\ Pending(t) = {}
    /\ task[t].at <= Len(task[t].previous.deps)
    /\ LET d == task[t].previous.deps[task[t].at].dep IN
       IF Reaches(d, task[t].key)
       THEN Commit(node, req, [task EXCEPT ![t] = Ended(@, Bad(Cycle))])
       ELSE Commit(node, [req EXCEPT ![t][d] = Look], task)
    /\ UNCHANGED <<version, nodes, dirty, client, world, inv, faults>>

(* The node now holds ev and the task ends with it. *)
Publish(t, ev) ==
    /\ Commit([node EXCEPT ![task[t].key] = Done(ev)], req,
              [task EXCEPT ![t] = Ended(@, Good(ev))])
    /\ UNCHANGED <<version, nodes, dirty, client, world, inv, faults>>

(* No dependency changed: only verified_at moves (early cutoff). *)
Keep(t) ==
    /\ task[t].pc = "verify" /\ Steps(t)
    /\ Pending(t) = {}
    /\ task[t].at > Len(task[t].previous.deps)
    /\ Publish(t, [task[t].previous EXCEPT !.verified_at = task[t].version])

(* Ctx::get of one key: its node, then wait_on.  A refused wait is an error *)
(* for compute and no dependency.                                           *)
Ask(t, d) ==
    /\ task[t].pc = "compute" /\ Steps(t)
    /\ d \in ToAsk(t)
    /\ nodes' = nodes \cup {d}
    /\ IF Reaches(d, task[t].key)
       THEN Commit(node, req, [task EXCEPT ![t] = Resumed(@, d, Bad(Cycle))])
       ELSE Commit(node, [req EXCEPT ![t][d] = Look], task)
    /\ UNCHANGED <<version, dirty, client, world, inv, faults>>

(* compute returns; a leaf has read the world. *)
Compute(t) ==
    /\ task[t].pc = "compute" /\ Steps(t)
    /\ Pending(t) = {} /\ ToAsk(t) = {}
    /\ Commit(node, req, [task EXCEPT ![t].pc = "write", ![t].got = NoneGot,
                 ![t].outcome = Outcome(task[t].key, task[t].got, world)])
    /\ UNCHANGED <<version, nodes, dirty, client, world, inv, faults>>

(* An equal outcome keeps changed_at. *)
ChangedAt(T) ==
    IF T.previous # None /\ T.previous.outcome = T.outcome
    THEN T.previous.changed_at ELSE T.version

(* The end of `run': the node's state is overwritten, whatever it is. *)
Write(t) ==
    /\ task[t].pc = "write" /\ Steps(t)
    /\ Publish(t, [outcome |-> task[t].outcome, changed_at |-> ChangedAt(task[t]),
                   verified_at |-> task[t].version, deps |-> task[t].deps])

(* compute panics: the task ends, its requests are dropped. *)
Panic(t) ==
    /\ MayPanic /\ faults < MaxFaults
    /\ faults' = faults + 1
    /\ task[t].pc = "compute" /\ Steps(t)
    /\ Commit(node, [req EXCEPT ![t] = [k \in Keys |-> Dropped(t, k)]],
              [task EXCEPT ![t] = Ended(@, Bad(Broken))])
    /\ UNCHANGED <<version, nodes, dirty, client, world, inv>>

-----------------------------------------------------------------------------
(* The world, and Engine::invalidate *)

(* What a leaf reads changes; whoever changed it will say so. *)
Change(l, v) ==
    /\ inv = Still
    /\ Quiet => AtRest
    /\ version < MaxVersion
    /\ world[l] # v
    /\ world' = [world EXCEPT ![l] = v]
    /\ inv' = [pc |-> "changed", key |-> l]
    /\ client' = [c \in Clients |->
          IF client[c].pc = "busy" THEN [client[c] EXCEPT !.settled = FALSE] ELSE Idle]
    /\ UNCHANGED <<version, nodes, node, dirty, task, req, faults>>

(* invalidate: the node, if the graph has it, and a new version. *)
Bump ==
    /\ inv.pc = "changed"
    /\ version' = version + 1
    /\ inv' = [pc |-> "bumped", key |-> inv.key, found |-> inv.key \in nodes]
    /\ UNCHANGED <<nodes, node, dirty, task, req, client, world, faults>>

(* invalidate: the dirty flag, after the version. *)
MarkDirty ==
    /\ inv.pc = "bumped"
    /\ dirty' = [dirty EXCEPT ![inv.key] = @ \/ inv.found]
    /\ inv' = Still
    /\ UNCHANGED <<version, nodes, node, task, req, client, world, faults>>

(* Engine::next_version on its own. *)
NextVersion ==
    /\ inv = Still
    /\ Quiet => AtRest
    /\ version < MaxVersion
    /\ version' = version + 1
    /\ UNCHANGED <<nodes, node, dirty, task, req, client, world, inv, faults>>

-----------------------------------------------------------------------------
Evaluate(r, k) ==
    \/ LookDone(r, k) \/ LookRunning(r, k) \/ LookSpawn(r, k)
    \/ AwaitDone(r, k) \/ OtherDone(r, k) \/ DropWaiter(r, k)

Run(t) ==
    \/ VerifyNext(t) \/ Keep(t) \/ Compute(t) \/ Write(t) \/ TaskDropped(t)
    \/ \E d \in Keys : Ask(t, d)

EngineNext ==
    \/ \E c \in Clients, k \in Keys : Get(c, k)
    \/ \E c \in Clients : Cancel(c)
    \/ \E r \in Requesters, k \in Keys : Evaluate(r, k)
    \/ \E t \in Tasks : Run(t) \/ Panic(t)
    \/ \E l \in Leaves, v \in Values : Change(l, v)
    \/ Bump \/ MarkDirty \/ NextVersion

EngineSpec == EngineInit /\ [][EngineNext]_engineVars

(* The runtime polls every task that is ready, and a caller polls the       *)
(* request it has made and takes its answer.  Nobody has to ask, to cancel  *)
(* or to change anything, and a command asks for so many keys and no more.  *)
EngineFairness ==
    /\ \A r \in Requesters, k \in Keys : WF_engineVars(Evaluate(r, k))
    /\ \A t \in Tasks : WF_engineVars(Run(t))

EngineFairSpec ==
    /\ EngineSpec /\ EngineFairness
    /\ <>[][\A c \in Clients, k \in Keys : ~Get(c, k)]_engineVars

-----------------------------------------------------------------------------
(* Properties *)

TaskRecord ==
    [pc : Active \cup {"done"}, key : Keys, version : Versions,
     previous : Evaluated \cup {None}, dirty : BOOLEAN, at : Nat \ {0},
     got : Gots,
     deps : Deps, outcome : AnyOutcome,
     result : Results, abort : {"no", "mid", "yes"}]

NodeState ==
    {Empty} \cup [st : {"done"}, ev : Evaluated]
            \cup [st : {"running"}, task : Tasks]

Request ==
    {NoReq, Look} \cup [mode : {"await", "other"}, task : Tasks]
                  \cup [mode : {"drop"}, task : Tasks, result : Results]

ClientState ==
    {Idle}
    \cup [pc : {"busy"}, key : Keys, version : Versions, settled : BOOLEAN]
    \cup [pc : {"got"}, key : Keys, version : Versions, settled : BOOLEAN,
          value : AnyOutcome]

InvState ==
    {Still} \cup [pc : {"changed"}, key : Leaves]
            \cup [pc : {"bumped"}, key : Leaves, found : BOOLEAN]

EngineTypeOK ==
    /\ version \in Versions /\ faults \in Nat
    /\ nodes \subseteq Keys
    /\ node \in [Keys -> NodeState]
    /\ dirty \in [Keys -> BOOLEAN]
    /\ task \in [Tasks -> TaskRecord \cup {Free}]
    /\ req \in [Requesters -> [Keys -> Request]]
    /\ client \in [Clients -> ClientState]
    /\ world \in [Leaves -> Values]
    /\ inv \in InvState

(* What computing everything anew in world w gives, for each key whose      *)
(* computation is not cyclic: as many rounds as there are keys, each adding *)
(* the keys all of whose wants are known.                                   *)
NextRound(known, w) ==
    [k \in {k \in Keys : Wants(k, known) \subseteq DOMAIN known} |->
        Outcome(k, Only(known, Wants(k, known)), w)]

Rounds(w) ==
    LET Round[n \in 0..Cardinality(Keys)] ==
          IF n = 0 THEN NoneGot ELSE NextRound(Round[n - 1], w)
    IN Round

ScratchIn(w) == Rounds(w)[Cardinality(Keys)]
Scratch == ScratchIn(world)

(***************************************************************************)
(* Engine::get gives the value of the key: a request made when no change   *)
(* was being announced, and during which none happened, returns what a     *)
(* computation from nothing would.                                         *)
(***************************************************************************)
FreshResult ==
    \A c \in Clients :
        /\ client[c].pc = "got" /\ client[c].settled
        /\ client[c].key \in DOMAIN Scratch
        => client[c].value = Scratch[client[c].key]

(***************************************************************************)
(* CurrentDeps of spec/Fjfj/Engine.lean: a node verified at the current    *)
(* version observed the changed_at its dependencies have now.              *)
(***************************************************************************)
CurrentDeps ==
    \A k \in Keys :
        node[k].st = "done" /\ inv = Still /\ node[k].ev.verified_at = version =>
            \A i \in DOMAIN node[k].ev.deps :
                LET e == node[k].ev.deps[i] IN
                node[e.dep].st = "done" => node[e.dep].ev.changed_at = e.seen

(***************************************************************************)
(* "All reads of one evaluation are taken at one version" (lib.rs:14), as  *)
(* NoFutureReads of spec/Fjfj/Engine.lean puts it: a node verified at a    *)
(* version observed nothing newer.  It does not hold where a new version   *)
(* overlaps a request: evaluate takes whatever a node was verified at      *)
(* since, and so an evaluation of the older version reads of both.         *)
(***************************************************************************)
NoFutureReads ==
    \A k \in Keys : node[k].st = "done" =>
        \A i \in DOMAIN node[k].ev.deps :
            node[k].ev.deps[i].seen <= node[k].ev.verified_at

(***************************************************************************)
(* An in-flight computation is shared by everything that asks for it: no   *)
(* two computations of one key go on at a time, but for one that was       *)
(* aborted.                                                                *)
(***************************************************************************)
OneComputation ==
    \A t, u \in Tasks :
        /\ task[t].pc \in Active /\ task[u].pc \in Active
        /\ task[t].abort = "no" /\ task[u].abort = "no"
        /\ task[t].key = task[u].key
        => t = u

(***************************************************************************)
(* A request that would wait on itself, by any route, is refused: in any   *)
(* set of keys one waits on none of the others, so that the waits come to  *)
(* an end.                                                                 *)
(***************************************************************************)
WaitsAcyclic ==
    \A S \in SUBSET Keys : S # {} =>
        \E k \in S : \A d \in S : ~WaitsOn(k, d)

(***************************************************************************)
(* A node that is Running has a computation of its own key that somebody   *)
(* will collect: a request waits for it, or the last one to wait is about  *)
(* to put the node back.  Otherwise the node would be wedged.              *)
(***************************************************************************)
RunningIsHeld ==
    \A k \in Keys : node[k].st = "running" =>
        LET t == node[k].task IN
        /\ task[t].pc # "free" /\ task[t].key = k /\ task[t].abort = "no"
        /\ \E r \in Requesters :
              /\ req[r][k].mode \in {"await", "drop"}
              /\ req[r][k].task = t

(***************************************************************************)
(* No request hangs: it is answered, or its caller gives it up.            *)
(***************************************************************************)
RequestsEnd ==
    \A c \in Clients : client[c].pc = "busy" ~> client[c].pc # "busy"
=============================================================================
