--------------------------- MODULE EngineProofs ---------------------------
(***************************************************************************)
(* What Engine keeps to for every graph, every number of clients and       *)
(* tasks and every interleaving, with cancellation, panics and changes of  *)
(* the world at any time: its types, that the waits are acyclic, and that  *)
(* a node that is Running has a computation that somebody collects.  And,  *)
(* if the world changes only while nothing is in flight: a key has one     *)
(* computation at a time.                                                  *)
(***************************************************************************)
EXTENDS Engine, TLAPS

(* The parts of the state that Commit replaces.  Beside their types: a task *)
(* that verifies has something to verify, a free task asks for nothing, and *)
(* a running node has a computation.                                        *)
Nodes == [Keys -> NodeState]
Reqs == [Requesters -> [Keys -> Request]]
TaskMap == [Tasks -> TaskRecord \cup {Free}]

HasPrevious(T) == \A t \in Tasks : T[t].pc = "verify" => T[t].previous # None
FreeIsQuiet(R, T) == \A t \in Tasks : T[t].pc = "free" => R[t] = NoReqs
RunningHasTask(N, T) ==
    \A k \in Keys : N[k].st = "running" => T[N[k].task].pc # "free"

Sound(N, R, T) ==
    /\ N \in Nodes /\ R \in Reqs /\ T \in TaskMap
    /\ HasPrevious(T) /\ FreeIsQuiet(R, T) /\ RunningHasTask(N, T)

(* A client that will be given an answer for k is busy with k. *)
Awaits(q) ==
    \/ q.mode \in {"look", "await", "other"}
    \/ q.mode = "drop" /\ q.result # Nothing
Asking(R, C) ==
    \A c \in Clients, k \in Keys :
        Awaits(R[c][k]) => C[c].pc = "busy" /\ C[c].key = k

(* Every wait edge of R and T is one there is now. *)
NoNewWait(R, T) ==
    \A t \in Tasks, d \in Keys :
        T[t].pc # "free" /\ R[t][d].mode # "none" =>
            /\ task[t].pc # "free" /\ req[t][d].mode # "none"
            /\ T[t].key = task[t].key

(* The other variables. *)
RestOK ==
    /\ version \in Versions /\ faults \in Nat
    /\ nodes \subseteq Keys
    /\ dirty \in [Keys -> BOOLEAN]
    /\ client \in [Clients -> ClientState]
    /\ world \in [Leaves -> Values]
    /\ inv \in InvState

EngineInv == RestOK /\ Sound(node, req, task) /\ Asking(req, client)

(* The inductive invariant holds the types of the engine's state. *)
LEMMA InvIsType == EngineInv => EngineTypeOK
    BY DEF EngineInv, RestOK, Sound, Nodes, Reqs, TaskMap, EngineTypeOK

-----------------------------------------------------------------------------
(* Records *)

(* A computation begins having read nothing. *)
LEMMA NoneGotType == NoneGot \in Gots
<1>1. NoneGot \in [{} -> AnyOutcome]
    BY DEF NoneGot
<1> QED
    BY <1>1 DEF Gots

(* A value that Ctx::get returns is added to what compute has read. *)
LEMMA GotType ==
    ASSUME NEW g \in Gots, NEW k \in Keys, NEW o \in AnyOutcome
    PROVE  [d \in DOMAIN g \cup {k} |-> IF d = k THEN o ELSE g[d]] \in Gots
<1>1. PICK S \in SUBSET Keys : g \in [S -> AnyOutcome]
    BY DEF Gots
<1>2. [d \in DOMAIN g \cup {k} |-> IF d = k THEN o ELSE g[d]] \in [S \cup {k} -> AnyOutcome]
    BY <1>1
<1> QED
    BY <1>2 DEF Gots

(* An element of a sequence, such as a recorded dependency. *)
LEMMA ElementType ==
    ASSUME NEW S, NEW q \in Seq(S), NEW i \in 1..Len(q)
    PROVE  q[i] \in S
    OBVIOUS

(* An identity is free, or stands for a computation. *)
LEMMA FreeOrRecord ==
    ASSUME NEW T \in TaskRecord \cup {Free}
    PROVE  T.pc = "free" <=> T \notin TaskRecord
    BY DEF TaskRecord, Free, Active

(* A computation that ends is still one, of the same key. *)
LEMMA EndedType ==
    ASSUME NEW T \in TaskRecord, NEW res \in Results
    PROVE  /\ Ended(T, res) \in TaskRecord
           /\ Ended(T, res).key = T.key /\ Ended(T, res).pc = "done"
<1>1. NoneGot \in Gots /\ <<>> \in Deps /\ Cycle \in AnyOutcome /\ 1 \in Nat \ {0}
    BY NoneGotType DEF Deps, AnyOutcome
<1> QED
    BY <1>1 DEF Ended, TaskRecord

(* What an evaluation returns: an Evaluated or an error. *)
LEMMA ResultForms ==
    ASSUME NEW res \in Results
    PROVE  /\ res.is = "ok" => res.ev \in Evaluated
           /\ res.is = "err" => res.err \in AnyOutcome
           /\ res # Nothing => res.is \in {"ok", "err"}
    BY DEF Results, Nothing

(* An answer to verify or to compute keeps the computation and its key. *)
LEMMA ResumedType ==
    ASSUME NEW T \in TaskRecord, NEW k \in Keys, NEW res \in Results, res # Nothing
    PROVE  /\ Resumed(T, k, res) \in TaskRecord
           /\ Resumed(T, k, res).key = T.key
           /\ T.pc # "verify" => Resumed(T, k, res).pc = T.pc
           /\ Resumed(T, k, res).pc = "verify" =>
                T.pc = "verify" /\ Resumed(T, k, res).previous = T.previous
<1>0. T.got \in Gots /\ T.deps \in Deps /\ T.at \in Nat \ {0} /\ 1 \in Nat \ {0}
    BY DEF TaskRecord
<1>1. CASE T.pc = "verify"
    <2>1. /\ [T EXCEPT !.at = @ + 1] \in TaskRecord
          /\ [T EXCEPT !.at = @ + 1].key = T.key
          /\ [T EXCEPT !.at = @ + 1].previous = T.previous
        BY <1>0 DEF TaskRecord
    <2>2. /\ [T EXCEPT !.pc = "compute", !.at = 1] \in TaskRecord
          /\ [T EXCEPT !.pc = "compute", !.at = 1].key = T.key
          /\ [T EXCEPT !.pc = "compute", !.at = 1].pc = "compute"
        BY <1>0 DEF TaskRecord, Active
    <2> QED
        BY <1>1, <2>1, <2>2 DEF Resumed, Verified
<1>2. CASE T.pc # "verify" /\ res.is = "ok"
    <2> DEFINE g == [d \in DOMAIN T.got \cup {k} |->
                        IF d = k THEN res.ev.outcome ELSE T.got[d]]
               e == [dep |-> k, seen |-> res.ev.changed_at]
               ds == Append(T.deps, e)
    <2>1. res.ev.outcome \in AnyOutcome /\ res.ev.changed_at \in Versions
        BY <1>2, ResultForms DEF Evaluated
    <2>2. g \in Gots
        BY <1>0, <2>1, GotType
    <2>3. e \in [dep : Keys, seen : Versions]
        BY <2>1
    <2>4. ds \in Deps
        BY <1>0, <2>3 DEF Deps
    <2>5. Resumed(T, k, res) = [T EXCEPT !.got = g, !.deps = ds]
        BY <1>2 DEF Resumed, ReadBy
    <2> HIDE DEF g, ds
    <2> QED
        BY <1>2, <2>2, <2>4, <2>5 DEF TaskRecord
<1>3. CASE T.pc # "verify" /\ res.is = "err"
    <2> DEFINE g == [d \in DOMAIN T.got \cup {k} |->
                        IF d = k THEN res.err ELSE T.got[d]]
    <2>1. res.err \in AnyOutcome
        BY <1>3, ResultForms
    <2>2. g \in Gots
        BY <1>0, <2>1, GotType
    <2>3. Resumed(T, k, res) = [T EXCEPT !.got = g]
        BY <1>3 DEF Resumed, ReadBy
    <2> HIDE DEF g
    <2> QED
        BY <1>3, <2>2, <2>3 DEF TaskRecord
<1> QED
    BY <1>1, <1>2, <1>3, ResultForms

-----------------------------------------------------------------------------
(* Changes to one entry *)

(* evaluate_now moves one request on; no wait is new unless it began one. *)
LEMMA PutReq ==
    ASSUME NEW N, NEW R, NEW T, Sound(N, R, T),
           NEW r \in Requesters, NEW k \in Keys, NEW q \in Request,
           r \in Tasks => T[r].pc # "free"
    PROVE  /\ Sound(N, [R EXCEPT ![r][k] = q], T)
           /\ NoNewWait(R, T) /\ (R[r][k].mode # "none" \/ q.mode = "none")
                => NoNewWait([R EXCEPT ![r][k] = q], T)
    BY DEF Sound, Reqs, Nodes, TaskMap, FreeIsQuiet, NoNewWait, Requesters

(* The same for all the requests of one requester, as when it is dropped. *)
LEMMA PutRow ==
    ASSUME NEW N, NEW R, NEW T, Sound(N, R, T),
           NEW r \in Requesters, NEW row \in [Keys -> Request],
           r \in Tasks => T[r].pc # "free"
    PROVE  /\ Sound(N, [R EXCEPT ![r] = row], T)
           /\ /\ NoNewWait(R, T)
              /\ \A k \in Keys : row[k].mode # "none" => R[r][k].mode # "none"
              => NoNewWait([R EXCEPT ![r] = row], T)
    BY DEF Sound, Reqs, Nodes, TaskMap, FreeIsQuiet, NoNewWait, Requesters

(* `run' moves on; the wait edges stand as long as the key is the same. *)
LEMMA PutTask ==
    ASSUME NEW N, NEW R, NEW T, Sound(N, R, T),
           NEW t \in Tasks, T[t].pc # "free", NEW X \in TaskRecord,
           X.pc = "verify" => X.previous # None
    PROVE  /\ Sound(N, R, [T EXCEPT ![t] = X])
           /\ NoNewWait(R, T) /\ X.key = T[t].key => NoNewWait(R, [T EXCEPT ![t] = X])
<1>1. X.pc # "free"
    BY DEF TaskRecord, Active
<1> QED
    BY <1>1 DEF Sound, Reqs, Nodes, TaskMap, FreeIsQuiet, HasPrevious, RunningHasTask,
                NoNewWait

(* Node.state is written; one that is Running has its computation. *)
LEMMA PutNode ==
    ASSUME NEW N, NEW R, NEW T, Sound(N, R, T), NEW k \in Keys, NEW n \in NodeState,
           n.st = "running" => T[n.task].pc # "free"
    PROVE  Sound([N EXCEPT ![k] = n], R, T)
    BY DEF Sound, Nodes, RunningHasTask

(* What each state of a node carries. *)
LEMMA NodeForms ==
    ASSUME NEW n \in NodeState
    PROVE  /\ n.st = "done" => n.ev \in Evaluated
           /\ n.st = "running" => n.task \in Tasks /\ n = Running(n.task)
    BY DEF NodeState, Empty, Running

(* Freeing the computations that nobody refers to any more. *)
LEMMA CommitSound ==
    ASSUME NEW N, NEW R, NEW T, Sound(N, R, T), Commit(N, R, T)
    PROVE  /\ Sound(node', req', task')
           /\ NoNewWait(R, T) => NoNewWait(req', task')
<1>1. \A t \in Tasks : task'[t] = T[t] \/ (task'[t] = Free /\ R[t] = NoReqs)
    BY DEF Commit, Garbage
<1>2. task' \in TaskMap
    BY <1>1 DEF Sound, TaskMap, Commit
<1>3. Free.pc = "free"
    BY DEF Free
<1>4. HasPrevious(task')
    BY <1>1, <1>3 DEF HasPrevious, Sound
<1>5. FreeIsQuiet(req', task')
    BY <1>1 DEF FreeIsQuiet, Sound, Commit
<1>6. NoNewWait(R, T) => NoNewWait(req', task')
    BY <1>1, <1>3 DEF NoNewWait, Commit
<1>7. RunningHasTask(node', task')
    <2> SUFFICES ASSUME NEW k \in Keys, node'[k].st = "running"
                 PROVE  task'[node'[k].task].pc # "free"
        BY DEF RunningHasTask
    <2>1. node' = N /\ N[k] \in NodeState /\ T[N[k].task].pc # "free"
        BY DEF Commit, Sound, Nodes, RunningHasTask
    <2>2. N[k].task \in Tasks /\ N[k] = Running(N[k].task)
        BY <2>1, NodeForms
    <2>3. ~Garbage(N[k].task, N, R, T)
        BY <2>2 DEF Garbage
    <2> QED
        BY <2>1, <2>2, <2>3 DEF Commit
<1> QED
    BY <1>2, <1>4, <1>5, <1>6, <1>7 DEF Sound, Commit

(* No request is a state a request may be in, and waits for nothing. *)
LEMMA NoReqType == NoReq \in Request /\ NoReq.mode = "none"
    BY DEF NoReq, Request

(* A request that has begun is answered. *)
LEMMA AnswerSound ==
    ASSUME NEW N, NEW R, NEW T, Sound(N, R, T), NoNewWait(R, T),
           client \in [Clients -> ClientState],
           NEW r \in Requesters, NEW k \in Keys, NEW res \in Results,
           r \in Tasks => T[r].pc # "free",
           Asking(R, client),
           r \in Clients /\ res # Nothing => client[r].pc = "busy" /\ client[r].key = k,
           Answer(r, k, res, N, R, T)
    PROVE  /\ Sound(node', req', task') /\ NoNewWait(req', task')
           /\ client' \in [Clients -> ClientState] /\ Asking(req', client')
<1> DEFINE R1 == [R EXCEPT ![r][k] = NoReq]
<1>1. Sound(N, R1, T) /\ NoNewWait(R1, T)
    BY PutReq, NoReqType
<1>0. R1 \in Reqs /\ \A q \in Requesters, d \in Keys :
                        R1[q][d] = IF q = r /\ d = k THEN NoReq ELSE R[q][d]
    BY DEF Sound, Reqs, Requesters, NoReq, Request
<1>a. ~Awaits(NoReq) /\ Clients \subseteq Requesters
    BY DEF Awaits, NoReq, Requesters
<1>2. CASE r \in Clients
    <2>1. Commit(N, R1, T)
        BY <1>2 DEF Answer
    <2>2. res # Nothing => ValueOf(res) \in AnyOutcome
        BY ResultForms DEF ValueOf, Evaluated
    <2>3. client[r].pc = "busy" => client[r].version \in Versions /\ client[r].settled \in BOOLEAN
        BY <1>2 DEF ClientState, Idle
    <2>4. client' \in [Clients -> ClientState]
        BY <1>2, <2>2, <2>3 DEF Answer, ClientState
    <2>5. Asking(req', client')
        BY <1>0, <1>a, <1>2, <2>1 DEF Answer, Commit, Asking
    <2> QED
        BY <1>1, <2>1, <2>4, <2>5, CommitSound
<1>3. CASE r \notin Clients
    <2>1. r \in Tasks /\ T[r] \in TaskRecord
        BY <1>3, FreeOrRecord DEF Requesters, Sound, TaskMap
    <2>a. Asking(req', client')
        <3>1. req' = R1 /\ client' = client
            BY <1>3 DEF Answer, Commit
        <3> HIDE DEF R1
        <3> QED
            BY <1>0, <1>a, <3>1 DEF Asking
    <2>2. CASE res = Nothing
        BY <1>1, <1>3, <2>a, <2>2, CommitSound DEF Answer
    <2>3. CASE res # Nothing
        <3> DEFINE X == Resumed(T[r], k, res)
        <3>1. /\ X \in TaskRecord /\ X.key = T[r].key
              /\ X.pc = "verify" => T[r].pc = "verify" /\ X.previous = T[r].previous
            BY <2>1, <2>3, ResumedType
        <3>2. X.pc = "verify" => X.previous # None
            BY <2>1, <3>1 DEF Sound, HasPrevious
        <3>3. Commit(N, R1, [T EXCEPT ![r] = X]) /\ UNCHANGED client
            BY <1>3, <2>3 DEF Answer
        <3> HIDE DEF X
        <3>4. Sound(N, R1, [T EXCEPT ![r] = X]) /\ NoNewWait(R1, [T EXCEPT ![r] = X])
            BY <1>1, <2>1, <3>1, <3>2, PutTask
        <3> QED
            BY <2>a, <3>3, <3>4, CommitSound
    <2> QED
        BY <2>2, <2>3
<1> QED
    BY <1>2, <1>3

-----------------------------------------------------------------------------
(* What a step has to keep *)

StepOK == EngineInv' /\ NoNewWait(req', task')

(* A step that leaves requests and computations alone adds no wait. *)
LEMMA SameWaits == NoNewWait(req, task)
    BY DEF NoNewWait

(* What each state of a request carries. *)
LEMMA RequestForms ==
    ASSUME NEW q \in Request
    PROVE  /\ q.mode \in {"await", "other", "drop"} => q.task \in Tasks
           /\ q.mode = "drop" => q.result \in Results
           /\ q.mode # "none" => q # NoReq
    BY DEF Request, NoReq, Look

(* Who asks exists: a computation that is not freed, or a client that is    *)
(* busy with that key.                                                      *)
LEMMA Asker ==
    ASSUME EngineInv, NEW r \in Requesters, NEW k \in Keys, req[r][k].mode # "none"
    PROVE  /\ req[r][k] \in Request
           /\ r \in Tasks => task[r] \in TaskRecord /\ task[r].pc # "free"
           /\ r \in Clients /\ Awaits(req[r][k]) =>
                client[r].pc = "busy" /\ client[r].key = k
<1>1. req[r][k] \in Request
    BY DEF EngineInv, Sound, Reqs
<1>2. ASSUME r \in Tasks PROVE task[r].pc # "free"
    <2>1. NoReqs[k].mode = "none"
        BY DEF NoReqs, NoReq
    <2> QED
        BY <1>2, <2>1 DEF EngineInv, Sound, FreeIsQuiet
<1>3. r \in Tasks => task[r] \in TaskRecord
    BY <1>2, FreeOrRecord DEF EngineInv, Sound, TaskMap
<1> QED
    BY <1>1, <1>2, <1>3 DEF EngineInv, Asking

(* A client asks for its own key only: one request changes. *)
LEMMA AskingPut ==
    ASSUME NEW R \in Reqs, NEW C, Asking(R, C), NEW r \in Requesters, NEW k \in Keys,
           NEW q, Awaits(q) /\ r \in Clients => C[r].pc = "busy" /\ C[r].key = k
    PROVE  Asking([R EXCEPT ![r][k] = q], C)
    BY DEF Asking, Reqs, Requesters

(* ... or those of a task, which are no client's. *)
LEMMA AskingRow ==
    ASSUME NEW R \in Reqs, NEW C, Asking(R, C), NEW t \in Tasks, NEW row
    PROVE  Asking([R EXCEPT ![t] = row], C)
    BY EngineAssumption DEF Asking, Reqs, Requesters

(* A step that only answers. *)
LEMMA FromAnswer ==
    ASSUME EngineInv, NEW N, NEW T, Sound(N, req, T), NoNewWait(req, T),
           NEW r \in Requesters, NEW k \in Keys, NEW res \in Results,
           r \in Tasks => T[r].pc # "free",
           r \in Clients /\ res # Nothing => client[r].pc = "busy" /\ client[r].key = k,
           Answer(r, k, res, N, req, T),
           dirty' \in [Keys -> BOOLEAN], UNCHANGED <<version, nodes, world, inv, faults>>
    PROVE  StepOK
<1>1. client \in [Clients -> ClientState] /\ Asking(req, client)
    BY DEF EngineInv, RestOK
<1>2. /\ Sound(node', req', task') /\ NoNewWait(req', task')
      /\ client' \in [Clients -> ClientState] /\ Asking(req', client')
    BY <1>1, AnswerSound
<1> QED
    BY <1>2 DEF StepOK, EngineInv, RestOK

(* A step that only commits. *)
LEMMA FromCommit ==
    ASSUME NEW N, NEW R, NEW T, Sound(N, R, T), NoNewWait(R, T), Commit(N, R, T),
           Asking(R, client'), RestOK'
    PROVE  StepOK
<1>1. Sound(node', req', task') /\ NoNewWait(req', task')
    BY CommitSound
<1>2. req' = R
    BY DEF Commit
<1> QED
    BY <1>1, <1>2 DEF StepOK, EngineInv

-----------------------------------------------------------------------------
(* Requests *)

(* Engine::get. *)
LEMMA GetStep ==
    ASSUME EngineInv, NEW c \in Clients, NEW k \in Keys, Get(c, k)
    PROVE  StepOK
<1>1. Look \in Request /\ c \in Requesters /\ c \notin Tasks
    BY EngineAssumption DEF Look, Request, Requesters
<1>2. Sound(node, req', task)
    BY <1>1, PutReq DEF Get, EngineInv
<1>3. NoNewWait(req', task)
    <2>1. \A t \in Tasks : req'[t] = req[t]
        BY <1>1 DEF Get, EngineInv, Sound, Reqs
    <2> QED
        BY <2>1 DEF NoNewWait
<1>4. client' \in [Clients -> ClientState]
    BY DEF Get, EngineInv, RestOK, ClientState
<1>5. Asking(req', client')
    <2> SUFFICES ASSUME NEW b \in Clients, NEW j \in Keys, Awaits(req'[b][j])
                 PROVE  client'[b].pc = "busy" /\ client'[b].key = j
        BY DEF Asking
    <2>1. client \in [Clients -> ClientState] /\ req \in Reqs /\ b \in Requesters
        BY DEF EngineInv, RestOK, Sound, Requesters
    <2>2. CASE b # c
        BY <2>1, <2>2 DEF Get, EngineInv, Asking, Reqs
    <2>3. CASE b = c
        <3>1. j = k
            BY <2>1, <2>3 DEF Get, NoReqs, NoReq, Awaits, Reqs
        <3> QED
            BY <2>1, <2>3, <3>1 DEF Get
    <2> QED
        BY <2>2, <2>3
<1> QED
    BY <1>2, <1>3, <1>4, <1>5 DEF Get, StepOK, EngineInv, RestOK

(* evaluate_now finds the node up to date. *)
LEMMA LookDoneStep ==
    ASSUME EngineInv, NEW r \in Requesters, NEW k \in Keys, LookDone(r, k)
    PROVE  StepOK
<1>1. req[r][k].mode # "none" /\ Awaits(req[r][k])
    BY DEF LookDone, Look, Awaits
<1>2. node[k].ev \in Evaluated
    BY NodeForms DEF LookDone, UpToDate, EngineInv, Sound, Nodes
<1>3. Good(node[k].ev) \in Results
    BY <1>2 DEF Good, Results
<1>4. dirty' \in [Keys -> BOOLEAN]
    BY DEF LookDone, EngineInv, RestOK
<1>5. /\ r \in Tasks => task[r].pc # "free"
      /\ r \in Clients => client[r].pc = "busy" /\ client[r].key = k
    BY <1>1, Asker
<1>6. /\ Answer(r, k, Good(node[k].ev), node, req, task)
      /\ UNCHANGED <<version, nodes, world, inv, faults>>
    BY DEF LookDone
<1>7. Sound(node, req, task)
    BY DEF EngineInv
<1> QED
    BY <1>3, <1>4, <1>5, <1>6, <1>7, SameWaits, FromAnswer

(* A request that goes on with q. *)
LEMMA ContinueStep ==
    ASSUME EngineInv, NEW r \in Requesters, NEW k \in Keys,
           Awaits(req[r][k]), req[r][k].mode # "none", NEW q \in Request,
           UNCHANGED <<version, nodes, dirty, client, world, inv, faults>>,
           \/ req' = [req EXCEPT ![r][k] = q] /\ UNCHANGED <<node, task>>
           \/ Commit(node, [req EXCEPT ![r][k] = q], task)
    PROVE  StepOK
<1> DEFINE R == [req EXCEPT ![r][k] = q]
<1>1. /\ r \in Tasks => task[r].pc # "free"
      /\ r \in Clients => client[r].pc = "busy" /\ client[r].key = k
    BY Asker
<1>2. Sound(node, R, task) /\ NoNewWait(R, task)
    BY <1>1, SameWaits, PutReq DEF EngineInv
<1>3. Asking(R, client) /\ client' = client
    BY <1>1, AskingPut DEF EngineInv, Sound
<1>4. RestOK'
    BY DEF EngineInv, RestOK
<1>5. CASE Commit(node, R, task)
    BY <1>2, <1>3, <1>4, <1>5, FromCommit
<1>6. CASE req' = R /\ UNCHANGED <<node, task>>
    BY <1>2, <1>3, <1>4, <1>6 DEF StepOK, EngineInv
<1> QED
    BY <1>5, <1>6

(* evaluate_now joins a computation, or waits for another version's. *)
LEMMA LookRunningStep ==
    ASSUME EngineInv, NEW r \in Requesters, NEW k \in Keys, LookRunning(r, k)
    PROVE  StepOK
<1>1. req[r][k].mode # "none" /\ Awaits(req[r][k])
    BY DEF LookRunning, Look, Awaits
<1>2. node[k].task \in Tasks
    BY NodeForms DEF LookRunning, EngineInv, Sound, Nodes
<1>3. Await(node[k].task) \in Request /\ Other(node[k].task) \in Request
    BY <1>2 DEF Await, Other, Request
<1> DEFINE q == IF task[node[k].task].version = VersionOf(r)
                THEN Await(node[k].task) ELSE Other(node[k].task)
<1>4. q \in Request
    BY <1>3
<1>5. /\ req' = [req EXCEPT ![r][k] = q] /\ UNCHANGED <<node, task>>
      /\ UNCHANGED <<version, nodes, dirty, client, world, inv, faults>>
    BY DEF LookRunning
<1> HIDE DEF q
<1> QED
    BY <1>1, <1>4, <1>5, ContinueStep

(* The computation of another version ended. *)
LEMMA OtherDoneStep ==
    ASSUME EngineInv, NEW r \in Requesters, NEW k \in Keys, OtherDone(r, k)
    PROVE  StepOK
<1>1. req[r][k].mode # "none" /\ Awaits(req[r][k])
    BY DEF OtherDone, Awaits
<1>2. Look \in Request
    BY DEF Look, Request
<1>3. /\ Commit(node, [req EXCEPT ![r][k] = Look], task)
      /\ UNCHANGED <<version, nodes, dirty, client, world, inv, faults>>
    BY DEF OtherDone
<1> QED
    BY <1>1, <1>2, <1>3, ContinueStep

(* The computation waited for ended. *)
LEMMA AwaitDoneStep ==
    ASSUME EngineInv, NEW r \in Requesters, NEW k \in Keys, AwaitDone(r, k)
    PROVE  StepOK
<1> DEFINE t == req[r][k].task
<1>1. req[r][k].mode # "none" /\ Awaits(req[r][k]) /\ req[r][k].mode = "await"
    BY DEF AwaitDone, Awaits
<1>0. /\ req[r][k] \in Request
      /\ r \in Tasks => task[r].pc # "free"
      /\ r \in Clients => client[r].pc = "busy" /\ client[r].key = k
    BY <1>1, Asker
<1>2. t \in Tasks
    BY <1>0, <1>1, RequestForms
<1>3. task[t].pc = "done"
    BY DEF AwaitDone, Finished
<1>4. task[t].result \in Results
    <2>1. task[t] \in TaskRecord
        BY <1>2, <1>3, FreeOrRecord DEF EngineInv, Sound, TaskMap
    <2> QED
        BY <2>1 DEF TaskRecord
<1>5. Drop(t, task[t].result) \in Request
    BY <1>2, <1>4 DEF Drop, Request
<1>6. dirty' \in [Keys -> BOOLEAN]
    BY DEF AwaitDone, EngineInv, RestOK
<1> HIDE DEF t
<1>7. CASE /\ req' = [req EXCEPT ![r][k] = Drop(t, task[t].result)]
           /\ UNCHANGED <<node, task, client>>
    <2>1. UNCHANGED <<version, nodes, dirty, client, world, inv, faults>>
        BY <1>7 DEF AwaitDone
    <2> QED
        BY <1>1, <1>5, <1>7, <2>1, ContinueStep
<1>8. CASE Answer(r, k, task[t].result, node, req, task)
    <2>1. UNCHANGED <<version, nodes, world, inv, faults>> /\ Sound(node, req, task)
        BY DEF AwaitDone, EngineInv
    <2> QED
        BY <1>0, <1>4, <1>6, <1>8, <2>1, SameWaits, FromAnswer
<1> QED
    BY <1>7, <1>8 DEF AwaitDone, t

(* evaluate_now spawns a computation, under a free identity. *)
LEMMA LookSpawnStep ==
    ASSUME EngineInv, NEW r \in Requesters, NEW k \in Keys, LookSpawn(r, k)
    PROVE  StepOK
<1> DEFINE previous == IF node[k].st = "done" THEN node[k].ev ELSE None
           t == CHOOSE u \in Tasks : task[u] = Free
           X == [pc |-> Begin(previous, dirty[k]), key |-> k,
                 version |-> VersionOf(r), previous |-> previous,
                 dirty |-> dirty[k], at |-> 1, got |-> NoneGot, deps |-> <<>>,
                 outcome |-> Cycle, result |-> Nothing, abort |-> "no"]
<1>1. req[r][k].mode # "none" /\ Awaits(req[r][k])
    BY DEF LookSpawn, Look, Awaits
<1>2. /\ r \in Tasks => task[r] \in TaskRecord /\ task[r].pc # "free"
      /\ r \in Clients => client[r].pc = "busy" /\ client[r].key = k
    BY <1>1, Asker
<1>3. t \in Tasks /\ task[t] = Free /\ task[t].pc = "free"
    BY DEF LookSpawn, Free
<1>4. X \in TaskRecord /\ (X.pc = "verify" => X.previous # None) /\ X.pc # "free"
    <2>1. previous \in Evaluated \cup {None}
        BY NodeForms DEF EngineInv, Sound, Nodes
    <2>2. VersionOf(r) \in Versions
        <3>1. r \in Clients => client[r].version \in Versions
            BY <1>2 DEF EngineInv, RestOK, ClientState, Idle
        <3>2. r \in Tasks => task[r].version \in Versions
            BY <1>2 DEF TaskRecord
        <3> QED
            BY <3>1, <3>2 DEF VersionOf, Requesters
    <2>3. dirty[k] \in BOOLEAN
        BY DEF EngineInv, RestOK
    <2>4. Begin(previous, dirty[k]) = "verify" => previous # None
        BY DEF Begin
    <2>5. Begin(previous, dirty[k]) \in {"verify", "compute"}
        BY DEF Begin
    <2>6. NoneGot \in Gots /\ <<>> \in Deps /\ Cycle \in AnyOutcome /\ 1 \in Nat \ {0}
          /\ Nothing \in Results
        BY NoneGotType DEF Deps, AnyOutcome, Results
    <2> HIDE DEF previous
    <2> QED
        BY <2>1, <2>2, <2>3, <2>4, <2>5, <2>6 DEF TaskRecord, Active
<1>5. /\ task' = [task EXCEPT ![t] = X]
      /\ node' = [node EXCEPT ![k] = Running(t)]
      /\ req' = [req EXCEPT ![r][k] = Await(t)]
      /\ dirty' = [dirty EXCEPT ![k] = FALSE]
      /\ UNCHANGED <<version, nodes, client, world, inv, faults>>
    BY DEF LookSpawn
<1> HIDE DEF t, X, previous
<1>6. r # t /\ Await(t) \in Request /\ Running(t) \in NodeState
    BY <1>2, <1>3 DEF Await, Request, Running, NodeState
<1>7. req \in Reqs /\ task \in TaskMap /\ node \in Nodes /\ t \in Requesters
    BY <1>3 DEF EngineInv, Sound, Requesters
<1>8. req' \in Reqs /\ task' \in TaskMap /\ node' \in Nodes
    BY <1>3, <1>4, <1>5, <1>6, <1>7 DEF Reqs, TaskMap, Nodes
<1>9. HasPrevious(task')
    BY <1>4, <1>5, <1>7 DEF EngineInv, Sound, HasPrevious, TaskMap
<1>10. FreeIsQuiet(req', task')
    <2> SUFFICES ASSUME NEW u \in Tasks, task'[u].pc = "free" PROVE req'[u] = NoReqs
        BY DEF FreeIsQuiet
    <2>1. u # t /\ task[u].pc = "free" /\ u # r
        BY <1>2, <1>4, <1>5, <1>7 DEF TaskMap
    <2> QED
        BY <1>5, <1>7, <2>1 DEF EngineInv, Sound, FreeIsQuiet, Reqs, Requesters
<1>11. RunningHasTask(node', task')
    <2> SUFFICES ASSUME NEW j \in Keys, node'[j].st = "running"
                 PROVE  task'[node'[j].task].pc # "free"
        BY DEF RunningHasTask
    <2>1. CASE j = k
        BY <1>3, <1>4, <1>5, <1>7, <2>1 DEF Running, Nodes, TaskMap
    <2>2. CASE j # k
        <3>1. node'[j] = node[j] /\ task[node[j].task].pc # "free"
            BY <1>5, <1>7, <2>2 DEF EngineInv, Sound, RunningHasTask, Nodes
        <3>2. node[j].task \in Tasks
            BY <1>7, <3>1, NodeForms DEF Nodes
        <3> QED
            BY <1>4, <1>5, <1>7, <3>1, <3>2 DEF TaskMap
    <2> QED
        BY <2>1, <2>2
<1>12. Asking(req', client')
    BY <1>2, <1>5, <1>7, AskingPut DEF EngineInv
<1>13. NoNewWait(req', task')
    <2> SUFFICES ASSUME NEW u \in Tasks, NEW d \in Keys,
                        task'[u].pc # "free", req'[u][d].mode # "none"
                 PROVE  /\ task[u].pc # "free" /\ req[u][d].mode # "none"
                        /\ task'[u].key = task[u].key
        BY DEF NoNewWait
    <2>1. req[u][d].mode # "none"
        BY <1>1, <1>5, <1>7 DEF Reqs, Requesters
    <2>2. task[u].pc # "free"
        BY <2>1, Asker DEF Requesters
    <2> QED
        BY <1>3, <1>5, <1>7, <2>1, <2>2 DEF TaskMap
<1>14. RestOK'
    BY <1>5 DEF EngineInv, RestOK
<1> QED
    BY <1>8, <1>9, <1>10, <1>11, <1>12, <1>13, <1>14 DEF StepOK, EngineInv, Sound

-----------------------------------------------------------------------------
(* Giving up *)

(* What dropping a request leaves of it awaits nothing. *)
LEMMA DroppedForms ==
    ASSUME EngineInv, NEW r \in Requesters, NEW k \in Keys
    PROVE  /\ Dropped(r, k) \in Request /\ ~Awaits(Dropped(r, k))
           /\ Dropped(r, k).mode # "none" => req[r][k].mode # "none"
<1>1. NoReq \in Request /\ ~Awaits(NoReq) /\ NoReq.mode = "none"
    BY DEF NoReq, Request, Awaits
<1>2. ASSUME req[r][k].mode = "await"
      PROVE  /\ Drop(req[r][k].task, Nothing) \in Request
             /\ ~Awaits(Drop(req[r][k].task, Nothing))
    <2>1. req[r][k].task \in Tasks
        BY <1>2, RequestForms DEF EngineInv, Sound, Reqs
    <2>2. Nothing \in Results
        BY DEF Results
    <2> QED
        BY <2>1, <2>2 DEF Drop, Request, Awaits
<1> QED
    BY <1>1, <1>2 DEF Dropped

(* Drop for Waiter. *)
LEMMA DropWaiterStep ==
    ASSUME EngineInv, NEW r \in Requesters, NEW k \in Keys, DropWaiter(r, k)
    PROVE  StepOK
<1> DEFINE t == req[r][k].task
           res == req[r][k].result
           back == [node EXCEPT ![k] = Back(task[t])]
<1>1. req[r][k].mode = "drop" /\ req[r][k].mode # "none"
    BY DEF DropWaiter
<1>2. /\ r \in Tasks => task[r].pc # "free"
      /\ r \in Clients /\ res # Nothing => client[r].pc = "busy" /\ client[r].key = k
    BY <1>1, Asker DEF Awaits
<1>3. t \in Tasks /\ res \in Results
    BY <1>1, Asker, RequestForms
<1>4. UNCHANGED <<version, nodes, world, inv, faults>> /\ Sound(node, req, task)
    BY DEF DropWaiter, EngineInv
<1>5. dirty' \in [Keys -> BOOLEAN]
    BY DEF DropWaiter, EngineInv, RestOK, StillDirty
<1>6. CASE Answer(r, k, res, node, req, task)
    BY <1>2, <1>3, <1>4, <1>5, <1>6, SameWaits, FromAnswer
<1>7. CASE node[k] = Running(t)
    <2>1. task[t] \in TaskRecord /\ task[t].pc # "free"
        BY <1>3, <1>4, <1>7, FreeOrRecord DEF Sound, RunningHasTask, Running, TaskMap
    <2>2. Back(task[t]) \in NodeState /\ Back(task[t]).st # "running"
        <3>1. task[t].previous \in Evaluated \cup {None}
            BY <2>1 DEF TaskRecord
        <3> QED
            BY <3>1 DEF Back, Empty, Done, NodeState
    <2>3. Sound(back, req, task)
        BY <1>4, <2>2, PutNode
    <2> HIDE DEF back
    <2>4. CASE Answer(r, k, res, back, req, task)
        BY <1>2, <1>3, <1>4, <1>5, <2>3, <2>4, SameWaits, FromAnswer
    <2>5. ASSUME NEW a \in AbortOf(t),
                 Answer(r, k, res, back, req, [task EXCEPT ![t].abort = a])
          PROVE  StepOK
        <3> DEFINE X == [task[t] EXCEPT !.abort = a]
                   T == [task EXCEPT ![t] = X]
        <3>1. a \in {"no", "mid", "yes"}
            BY DEF AbortOf
        <3>2. /\ X \in TaskRecord /\ X.key = task[t].key
              /\ X.pc = task[t].pc /\ X.previous = task[t].previous
            BY <2>1, <3>1 DEF TaskRecord
        <3>3. X.pc = "verify" => X.previous # None
            BY <1>3, <1>4, <3>2 DEF Sound, HasPrevious
        <3>4. [task EXCEPT ![t].abort = a] = T
            OBVIOUS
        <3> HIDE DEF X
        <3>5. Sound(back, req, T) /\ NoNewWait(req, T)
            BY <1>3, <2>1, <2>3, <3>2, <3>3, SameWaits, PutTask
        <3>6. r \in Tasks => T[r].pc # "free"
            BY <1>2, <1>3, <1>4, <2>1, <3>2 DEF Sound, TaskMap
        <3> HIDE DEF T
        <3> QED
            BY <1>2, <1>3, <1>4, <1>5, <2>5, <3>4, <3>5, <3>6, FromAnswer
    <2> QED
        BY <1>6, <2>4, <2>5 DEF DropWaiter, back
<1> QED
    BY <1>6, <1>7 DEF DropWaiter

(* The future of Engine::get is dropped. *)
LEMMA CancelStep ==
    ASSUME EngineInv, NEW c \in Clients, Cancel(c)
    PROVE  StepOK
<1> DEFINE row == [k \in Keys |-> Dropped(c, k)]
           R == [req EXCEPT ![c] = row]
<1>1. c \in Requesters /\ c \notin Tasks
    BY EngineAssumption DEF Requesters
<1>2. row \in [Keys -> Request]
    BY <1>1, DroppedForms
<1>3. \A k \in Keys : row[k].mode # "none" => req[c][k].mode # "none"
    BY <1>1, DroppedForms
<1>4. \A k \in Keys : ~Awaits(row[k])
    BY <1>1, DroppedForms
<1>5. Commit(node, R, task) /\ client' = [client EXCEPT ![c] = Idle]
    BY DEF Cancel
<1> HIDE DEF row
<1>6. Sound(node, R, task) /\ NoNewWait(R, task)
    BY <1>1, <1>2, <1>3, SameWaits, PutRow DEF EngineInv
<1>7. RestOK'
    BY DEF Cancel, EngineInv, RestOK, ClientState
<1>8. Asking(R, client')
    BY <1>1, <1>4, <1>5 DEF EngineInv, Asking, RestOK, Sound, Reqs, Requesters
<1> QED
    BY <1>5, <1>6, <1>7, <1>8, FromCommit

(* A task that ends and drops what it was asking for. *)
LEMMA BrokenStep ==
    ASSUME EngineInv, NEW t \in Tasks, task[t].pc \in Active,
           Commit(node, [req EXCEPT ![t] = [k \in Keys |-> Dropped(t, k)]],
                  [task EXCEPT ![t] = Ended(@, Bad(Broken))]),
           client' = client, RestOK'
    PROVE  StepOK
<1> DEFINE row == [k \in Keys |-> Dropped(t, k)]
           X == Ended(task[t], Bad(Broken))
           R == [req EXCEPT ![t] = row]
           T == [task EXCEPT ![t] = X]
<1>1. t \in Requesters /\ task[t].pc # "free" /\ task[t] \in TaskRecord
    BY FreeOrRecord DEF Active, Requesters, EngineInv, Sound, TaskMap
<1>2. row \in [Keys -> Request]
    BY <1>1, DroppedForms
<1>3. \A k \in Keys : row[k].mode # "none" => req[t][k].mode # "none"
    BY <1>1, DroppedForms
<1>4. Bad(Broken) \in Results
    BY DEF Bad, Results, AnyOutcome
<1>5. X \in TaskRecord /\ X.key = task[t].key /\ X.pc = "done"
    BY <1>1, <1>4, EndedType
<1>6. Commit(node, R, T)
    OBVIOUS
<1> HIDE DEF row, X
<1>7. Sound(node, R, task) /\ NoNewWait(R, task)
    BY <1>1, <1>2, <1>3, SameWaits, PutRow DEF EngineInv
<1>8. Sound(node, R, T) /\ NoNewWait(R, T)
    BY <1>1, <1>5, <1>7, PutTask
<1>9. Asking(R, client')
    BY AskingRow DEF EngineInv, Sound
<1> QED
    BY <1>6, <1>8, <1>9, FromCommit

(* The future of an aborted task is dropped. *)
LEMMA TaskDroppedStep ==
    ASSUME EngineInv, NEW t \in Tasks, TaskDropped(t)
    PROVE  StepOK
<1>1. RestOK'
    BY DEF TaskDropped, EngineInv, RestOK
<1> QED
    BY <1>1, BrokenStep DEF TaskDropped

(* compute panics. *)
LEMMA PanicStep ==
    ASSUME EngineInv, NEW t \in Tasks, Panic(t)
    PROVE  StepOK
<1>1. RestOK' /\ task[t].pc \in Active
    BY DEF Panic, EngineInv, RestOK, Active
<1> QED
    BY <1>1, BrokenStep DEF Panic

-----------------------------------------------------------------------------
(* The body of a computation *)

(* A computation that goes on is one; while it verifies, its node held      *)
(* something.                                                               *)
LEMMA ActiveTask ==
    ASSUME EngineInv, NEW t \in Tasks, task[t].pc \in Active
    PROVE  /\ task[t] \in TaskRecord /\ task[t].pc # "free" /\ t \in Requesters
           /\ task[t].pc = "verify" =>
                task[t].previous \in Evaluated /\ task[t].previous # None
<1>1. task[t].pc # "free"
    BY DEF Active
<1>2. task[t] \in TaskRecord
    BY <1>1, FreeOrRecord DEF EngineInv, Sound, TaskMap
<1>3. task[t].pc = "verify" => task[t].previous # None
    BY DEF EngineInv, Sound, HasPrevious
<1> QED
    BY <1>1, <1>2, <1>3 DEF TaskRecord, Requesters

(* A task that goes on as X, with nothing else changed. *)
LEMMA OnlyTask ==
    ASSUME EngineInv, NEW t \in Tasks, task[t].pc \in Active, NEW X \in TaskRecord,
           X.key = task[t].key, X.pc = "verify" => X.previous # None,
           Commit(node, req, [task EXCEPT ![t] = X]), client' = client, RestOK'
    PROVE  StepOK
<1>1. task[t].pc # "free" /\ Sound(node, req, task)
    BY ActiveTask DEF EngineInv
<1>2. Sound(node, req, [task EXCEPT ![t] = X]) /\ NoNewWait(req, [task EXCEPT ![t] = X])
    BY <1>1, SameWaits, PutTask
<1> QED
    BY <1>2, FromCommit DEF EngineInv

(* `run' writes the node and returns what it wrote. *)
LEMMA PublishStep ==
    ASSUME EngineInv, NEW t \in Tasks, task[t].pc \in Active, NEW ev \in Evaluated,
           Publish(t, ev)
    PROVE  StepOK
<1> DEFINE X == Ended(task[t], Good(ev))
           T == [task EXCEPT ![t] = X]
           N == [node EXCEPT ![task[t].key] = Done(ev)]
<1>1. task[t] \in TaskRecord /\ task[t].pc # "free" /\ task[t].key \in Keys
    BY ActiveTask DEF TaskRecord
<1>2. Good(ev) \in Results /\ Done(ev) \in NodeState /\ Done(ev).st # "running"
    BY DEF Good, Results, Done, NodeState
<1>3. X \in TaskRecord /\ X.key = task[t].key /\ X.pc = "done"
    BY <1>1, <1>2, EndedType
<1>4. Commit(N, req, T) /\ client' = client
    BY DEF Publish
<1>5. RestOK'
    BY DEF Publish, EngineInv, RestOK
<1> HIDE DEF X
<1>6. Sound(node, req, T) /\ NoNewWait(req, T)
    BY <1>1, <1>3, SameWaits, PutTask DEF EngineInv
<1>7. Sound(N, req, T)
    BY <1>1, <1>2, <1>6, PutNode
<1>8. Asking(req, client')
    BY <1>4 DEF EngineInv
<1> QED
    BY <1>4, <1>5, <1>6, <1>7, <1>8, FromCommit

(* Early cutoff. *)
LEMMA KeepStep ==
    ASSUME EngineInv, NEW t \in Tasks, Keep(t)
    PROVE  StepOK
<1>1. task[t].pc = "verify" /\ task[t].pc \in Active
    BY DEF Keep, Active
<1>2. task[t].previous \in Evaluated /\ task[t].version \in Versions
    BY <1>1, ActiveTask DEF TaskRecord
<1>3. [task[t].previous EXCEPT !.verified_at = task[t].version] \in Evaluated
    BY <1>2 DEF Evaluated
<1> QED
    BY <1>1, <1>3, PublishStep DEF Keep

(* The end of `run'. *)
LEMMA WriteStep ==
    ASSUME EngineInv, NEW t \in Tasks, Write(t)
    PROVE  StepOK
<1>1. task[t].pc \in Active
    BY DEF Write, Active
<1>2. task[t] \in TaskRecord
    BY <1>1, ActiveTask
<1>3. ChangedAt(task[t]) \in Versions
    BY <1>2 DEF ChangedAt, TaskRecord, Evaluated
<1>4. [outcome |-> task[t].outcome, changed_at |-> ChangedAt(task[t]),
       verified_at |-> task[t].version, deps |-> task[t].deps] \in Evaluated
    BY <1>2, <1>3 DEF TaskRecord, Evaluated
<1> QED
    BY <1>1, <1>4, PublishStep DEF Write

(* compute returns. *)
LEMMA ComputeStep ==
    ASSUME EngineInv, NEW t \in Tasks, Compute(t)
    PROVE  StepOK
<1> DEFINE o == Outcome(task[t].key, task[t].got, world)
           X == [task[t] EXCEPT !.pc = "write", !.got = NoneGot, !.outcome = o]
<1>1. task[t].pc \in Active
    BY DEF Compute, Active
<1>2. task[t] \in TaskRecord
    BY <1>1, ActiveTask
<1>3. o \in AnyOutcome
    BY <1>2, EngineAssumption DEF TaskRecord, EngineInv, RestOK
<1>4. X \in TaskRecord /\ X.key = task[t].key /\ X.pc = "write"
    BY <1>2, <1>3, NoneGotType DEF TaskRecord, Active
<1>5. Commit(node, req, [task EXCEPT ![t] = X])
    BY DEF Compute
<1>6. RestOK' /\ client' = client
    BY DEF Compute, EngineInv, RestOK
<1> HIDE DEF X
<1> QED
    BY <1>1, <1>4, <1>5, <1>6, OnlyTask

-----------------------------------------------------------------------------
(* Waits *)

(* Waits that are no more than they were close no cycle. *)
LEMMA FewerWaits ==
    ASSUME NoNewWait(req', task'), WaitsAcyclic
    PROVE  WaitsAcyclic'
<1>1. \A k, d \in Keys : WaitsOn(k, d)' => WaitsOn(k, d)
    BY DEF WaitsOn, Pending, NoNewWait
<1> QED
    BY <1>1 DEF WaitsAcyclic

(* A wait of k0 on d0 that wait_on lets through closes no cycle.  What can  *)
(* be reached from d0 is inside a set C without k0 that waits do not leave. *)
(* A set S of keys that meets C has a key in C that waits on none of that   *)
(* part, hence on none of S; one that does not meet C has the key it had    *)
(* before, whose one new wait, if any, is on d0.                            *)
LEMMA NewWait ==
    ASSUME WaitsAcyclic, NEW k0 \in Keys, NEW d0 \in Keys, ~Reaches(d0, k0),
           \A k, d \in Keys : WaitsOn(k, d)' => WaitsOn(k, d) \/ (k = k0 /\ d = d0)
    PROVE  WaitsAcyclic'
<1>1. PICK C \in SUBSET Keys :
          /\ d0 \in C /\ k0 \notin C
          /\ \A k \in C, d \in Keys : WaitsOn(k, d) => d \in C
    BY DEF Reaches
<1>2. SUFFICES ASSUME NEW S \in SUBSET Keys, S # {}
               PROVE  \E k \in S : \A d \in S : ~WaitsOn(k, d)'
    BY DEF WaitsAcyclic
<1>3. CASE S \cap C # {}
    <2>1. PICK k \in S \cap C : \A d \in S \cap C : ~WaitsOn(k, d)
        BY <1>3 DEF WaitsAcyclic
    <2>2. \A d \in S : ~WaitsOn(k, d)
        BY <1>1, <2>1
    <2> QED
        BY <1>1, <2>1, <2>2
<1>4. CASE S \cap C = {}
    <2>1. PICK k \in S : \A d \in S : ~WaitsOn(k, d)
        BY <1>2 DEF WaitsAcyclic
    <2> QED
        BY <1>1, <1>4, <2>1
<1> QED
    BY <1>3, <1>4

(* wait_on lets t wait on d. *)
LEMMA WaitStep ==
    ASSUME EngineInv, NEW t \in Tasks, task[t].pc \in Active, NEW d \in Keys,
           ~Reaches(d, task[t].key),
           Commit(node, [req EXCEPT ![t][d] = Look], task), client' = client, RestOK'
    PROVE  EngineInv' /\ (WaitsAcyclic => WaitsAcyclic')
<1> DEFINE R == [req EXCEPT ![t][d] = Look]
<1>1. task[t] \in TaskRecord /\ task[t].pc # "free" /\ t \in Requesters /\ t \notin Clients
    BY ActiveTask, EngineAssumption
<1>2. Look \in Request
    BY DEF Look, Request
<1>3. Sound(node, R, task)
    BY <1>1, <1>2, PutReq DEF EngineInv
<1>4. Sound(node', req', task')
    BY <1>3, CommitSound
<1>5. Asking(req', client')
    <2>1. Asking(R, client)
        BY <1>1, AskingPut DEF EngineInv, Sound
    <2> QED
        BY <2>1 DEF Commit
<1>6. \A k, e \in Keys :
          WaitsOn(k, e)' => WaitsOn(k, e) \/ (k = task[t].key /\ e = d)
    <2> SUFFICES ASSUME NEW k \in Keys, NEW e \in Keys, NEW u \in Tasks,
                        task'[u].pc # "free", task'[u].key = k, req'[u][e].mode # "none"
                 PROVE  WaitsOn(k, e) \/ (k = task[t].key /\ e = d)
        BY DEF WaitsOn, Pending
    <2>1. task'[u] = task[u]
        BY DEF Commit, Free
    <2>2. req'[u][e] = req[u][e] \/ (u = t /\ e = d)
        BY <1>1 DEF Commit, EngineInv, Sound, Reqs, Requesters
    <2> QED
        BY <2>1, <2>2 DEF WaitsOn, Pending
<1>7. WaitsAcyclic => WaitsAcyclic'
    <2>1. task[t].key \in Keys
        BY <1>1 DEF TaskRecord
    <2> QED
        BY <1>6, <2>1, NewWait
<1> QED
    BY <1>4, <1>5, <1>7 DEF EngineInv

(* wait_on and evaluate for a recorded dependency. *)
LEMMA VerifyNextStep ==
    ASSUME EngineInv, NEW t \in Tasks, VerifyNext(t)
    PROVE  EngineInv' /\ (WaitsAcyclic => WaitsAcyclic')
<1> DEFINE d == task[t].previous.deps[task[t].at].dep
           X == Ended(task[t], Bad(Cycle))
<1>1. task[t].pc = "verify" /\ task[t].pc \in Active
    BY DEF VerifyNext, Active
<1>2. task[t] \in TaskRecord /\ task[t].previous \in Evaluated
    BY <1>1, ActiveTask
<1>3. d \in Keys
    <2>1. task[t].previous.deps \in Deps /\ task[t].at \in Nat \ {0}
        BY <1>2 DEF TaskRecord, Evaluated
    <2>2. task[t].at \in 1..Len(task[t].previous.deps)
        BY <2>1 DEF VerifyNext, Deps
    <2>3. task[t].previous.deps[task[t].at] \in [dep : Keys, seen : Versions]
        BY <2>1, <2>2, ElementType DEF Deps
    <2> QED
        BY <2>3
<1>4. RestOK' /\ client' = client
    BY DEF VerifyNext, EngineInv, RestOK
<1>5. CASE Reaches(d, task[t].key)
    <2>1. Bad(Cycle) \in Results
        BY DEF Bad, Results, AnyOutcome
    <2>2. X \in TaskRecord /\ X.key = task[t].key /\ X.pc = "done"
        BY <1>2, <2>1, EndedType
    <2>3. Commit(node, req, [task EXCEPT ![t] = X])
        BY <1>5 DEF VerifyNext
    <2> HIDE DEF X
    <2>4. StepOK
        BY <1>1, <1>4, <2>2, <2>3, OnlyTask
    <2> QED
        BY <2>4, FewerWaits DEF StepOK
<1>6. CASE ~Reaches(d, task[t].key)
    <2>1. Commit(node, [req EXCEPT ![t][d] = Look], task)
        BY <1>6 DEF VerifyNext
    <2> HIDE DEF d
    <2> QED
        BY <1>1, <1>3, <1>4, <1>6, <2>1, WaitStep
<1> QED
    BY <1>5, <1>6

(* wait_on and evaluate for Ctx::get. *)
LEMMA AskStep ==
    ASSUME EngineInv, NEW t \in Tasks, NEW d \in Keys, Ask(t, d)
    PROVE  EngineInv' /\ (WaitsAcyclic => WaitsAcyclic')
<1> DEFINE X == Resumed(task[t], d, Bad(Cycle))
<1>1. task[t].pc = "compute" /\ task[t].pc \in Active
    BY DEF Ask, Active
<1>2. task[t] \in TaskRecord
    BY <1>1, ActiveTask
<1>3. RestOK' /\ client' = client
    BY DEF Ask, EngineInv, RestOK
<1>4. CASE Reaches(d, task[t].key)
    <2>1. Bad(Cycle) \in Results /\ Bad(Cycle) # Nothing
        BY DEF Bad, Results, AnyOutcome, Nothing
    <2>2. X \in TaskRecord /\ X.key = task[t].key /\ X.pc = "compute"
        BY <1>1, <1>2, <2>1, ResumedType
    <2>3. Commit(node, req, [task EXCEPT ![t] = X])
        BY <1>4 DEF Ask
    <2> HIDE DEF X
    <2>4. StepOK
        BY <1>1, <1>3, <2>2, <2>3, OnlyTask
    <2> QED
        BY <2>4, FewerWaits DEF StepOK
<1>5. CASE ~Reaches(d, task[t].key)
    <2>1. Commit(node, [req EXCEPT ![t][d] = Look], task)
        BY <1>5 DEF Ask
    <2> QED
        BY <1>1, <1>3, <1>5, <2>1, WaitStep
<1> QED
    BY <1>4, <1>5

-----------------------------------------------------------------------------
(* The world, and invalidate *)

(* The world changes. *)
LEMMA ChangeStep ==
    ASSUME EngineInv, NEW l \in Leaves, NEW v \in Values, Change(l, v)
    PROVE  StepOK
<1>1. \A c \in Clients :
          /\ client'[c] \in ClientState
          /\ client[c].pc = "busy" => client'[c].pc = "busy" /\ client'[c].key = client[c].key
    <2> SUFFICES ASSUME NEW c \in Clients
                 PROVE  /\ client'[c] \in ClientState
                        /\ client[c].pc = "busy" =>
                             client'[c].pc = "busy" /\ client'[c].key = client[c].key
        OBVIOUS
    <2>1. client[c] \in ClientState
        BY DEF EngineInv, RestOK
    <2>2. CASE client[c].pc = "busy"
        <3>1. client[c] \in [pc : {"busy"}, key : Keys, version : Versions, settled : BOOLEAN]
            BY <2>1, <2>2 DEF ClientState, Idle
        <3>2. client'[c] = [client[c] EXCEPT !.settled = FALSE]
            BY <2>2 DEF Change
        <3> QED
            BY <3>1, <3>2 DEF ClientState
    <2>3. CASE client[c].pc # "busy"
        BY <2>3 DEF Change, ClientState
    <2> QED
        BY <2>2, <2>3
<1>2. client' \in [Clients -> ClientState]
    BY <1>1 DEF Change
<1>3. Asking(req', client')
    BY <1>1 DEF Change, EngineInv, Asking
<1>4. RestOK'
    BY <1>2 DEF Change, EngineInv, RestOK, InvState
<1>5. Sound(node', req', task') /\ NoNewWait(req', task')
    BY SameWaits DEF Change, EngineInv
<1> QED
    BY <1>3, <1>4, <1>5 DEF StepOK, EngineInv

(* The two halves of Engine::invalidate, and next_version. *)
LEMMA InvalidateStep ==
    ASSUME EngineInv, Bump \/ MarkDirty \/ NextVersion \/ UNCHANGED engineVars
    PROVE  StepOK
<1>1. UNCHANGED <<node, req, task, client>>
    BY DEF Bump, MarkDirty, NextVersion, engineVars
<1>2. RestOK'
    <2>1. CASE Bump
        BY <2>1 DEF Bump, EngineInv, RestOK, InvState, Still, Versions
    <2>2. CASE MarkDirty
        <3>1. inv.key \in Keys /\ inv.found \in BOOLEAN
            BY <2>2, EngineAssumption DEF MarkDirty, EngineInv, RestOK, InvState, Still
        <3>2. dirty' \in [Keys -> BOOLEAN]
            BY <2>2, <3>1 DEF MarkDirty, EngineInv, RestOK
        <3> QED
            BY <2>2, <3>2 DEF MarkDirty, EngineInv, RestOK, InvState
    <2>3. CASE NextVersion
        BY <2>3 DEF NextVersion, EngineInv, RestOK, Versions
    <2>4. CASE UNCHANGED engineVars
        BY <2>4 DEF engineVars, EngineInv, RestOK
    <2> QED
        BY <2>1, <2>2, <2>3, <2>4
<1> QED
    BY <1>1, <1>2, SameWaits DEF StepOK, EngineInv

-----------------------------------------------------------------------------
(* Every step keeps the invariant and closes no cycle of waits. *)
LEMMA EngineStep ==
    EngineInv /\ [EngineNext]_engineVars => EngineInv' /\ (WaitsAcyclic => WaitsAcyclic')
<1> SUFFICES ASSUME EngineInv, [EngineNext]_engineVars
             PROVE  EngineInv' /\ (WaitsAcyclic => WaitsAcyclic')
    OBVIOUS
<1>1. ASSUME StepOK PROVE EngineInv' /\ (WaitsAcyclic => WaitsAcyclic')
    BY <1>1, FewerWaits DEF StepOK
<1>2. ASSUME NEW c \in Clients, NEW k \in Keys, Get(c, k) PROVE StepOK
    BY <1>2, GetStep
<1>3. ASSUME NEW c \in Clients, Cancel(c) PROVE StepOK
    BY <1>3, CancelStep
<1>4. ASSUME NEW r \in Requesters, NEW k \in Keys, Evaluate(r, k) PROVE StepOK
    BY <1>4, LookDoneStep, LookRunningStep, LookSpawnStep, AwaitDoneStep, OtherDoneStep,
       DropWaiterStep DEF Evaluate
<1>5. ASSUME NEW t \in Tasks, Run(t)
      PROVE  EngineInv' /\ (WaitsAcyclic => WaitsAcyclic')
    BY <1>1, <1>5, VerifyNextStep, KeepStep, ComputeStep, WriteStep, TaskDroppedStep,
       AskStep DEF Run
<1>6. ASSUME NEW t \in Tasks, Panic(t) PROVE StepOK
    BY <1>6, PanicStep
<1>7. ASSUME NEW l \in Leaves, NEW v \in Values, Change(l, v) PROVE StepOK
    BY <1>7, ChangeStep
<1>8. ASSUME Bump \/ MarkDirty \/ NextVersion \/ UNCHANGED engineVars PROVE StepOK
    BY <1>8, InvalidateStep
<1> QED
    BY <1>1, <1>2, <1>3, <1>4, <1>5, <1>6, <1>7, <1>8 DEF EngineNext

(* A new engine. *)
LEMMA EngineStart == EngineInit => EngineInv /\ WaitsAcyclic
<1> SUFFICES ASSUME EngineInit PROVE EngineInv /\ WaitsAcyclic
    OBVIOUS
<1>1. /\ NoReqs \in [Keys -> Request] /\ \A k \in Keys : NoReqs[k].mode = "none"
      /\ \A k \in Keys : ~Awaits(NoReqs[k])
    BY DEF NoReqs, NoReq, Request, Awaits
<1>2. RestOK
    BY DEF EngineInit, RestOK, ClientState, InvState, Versions
<1>3. Sound(node, req, task)
    BY <1>1 DEF EngineInit, Sound, Nodes, Reqs, TaskMap, NodeState, Empty, Free,
                HasPrevious, FreeIsQuiet, RunningHasTask, Requesters
<1>4. Asking(req, client)
    BY <1>1 DEF EngineInit, Asking, Requesters
<1>5. WaitsAcyclic
    BY <1>1 DEF EngineInit, WaitsAcyclic, WaitsOn, Pending, Free
<1> QED
    BY <1>2, <1>3, <1>4, <1>5 DEF EngineInv

(***************************************************************************)
(* Nodes, computations, requests and clients keep their types, for every   *)
(* graph and however requests, cancellations, panics and changes of the    *)
(* world meet: in particular what a node goes back to when its computation *)
(* is abandoned is a state it may have.                                    *)
(***************************************************************************)
THEOREM EngineTypes == EngineSpec => []EngineTypeOK
<1>1. EngineInv /\ [EngineNext]_engineVars => EngineInv'
    BY EngineStep
<1>2. EngineInit => EngineInv
    BY EngineStart
<1> QED
    BY <1>1, <1>2, InvIsType, PTL DEF EngineSpec

(***************************************************************************)
(* wait_on never lets the waits of computations close a cycle.             *)
(***************************************************************************)
THEOREM EngineWaitsAcyclic == EngineSpec => []WaitsAcyclic
<1>1. (EngineInv /\ WaitsAcyclic) /\ [EngineNext]_engineVars => (EngineInv /\ WaitsAcyclic)'
    BY EngineStep
<1>2. EngineInit => EngineInv /\ WaitsAcyclic
    BY EngineStart
<1> QED
    BY <1>1, <1>2, PTL DEF EngineSpec

-----------------------------------------------------------------------------
(* What requests share *)

Refers(q) == q.mode \in {"await", "other", "drop"}
Collects(q, t) == q.mode \in {"await", "drop"} /\ q.task = t

(* A request refers to a computation of the key it asks for. *)
RefersToKey(R, T) ==
    \A r \in Requesters, k \in Keys : Refers(R[r][k]) =>
        T[R[r][k].task].pc # "free" /\ T[R[r][k].task].key = k

(* RunningIsHeld, of any state. *)
RunningHeld(N, R, T) ==
    \A k \in Keys : N[k].st = "running" =>
        /\ T[N[k].task].pc # "free" /\ T[N[k].task].key = k /\ T[N[k].task].abort = "no"
        /\ \E r \in Requesters : Collects(R[r][k], N[k].task)

(* A task that goes no further is not in the middle of a Drop for Waiter. *)
StopsOutsideDrop(R, T) ==
    \A t \in Tasks : T[t].pc \in Active /\ T[t].abort = "yes" =>
        \A k \in Keys : R[t][k].mode # "drop"

Held(N, R, T) == RefersToKey(R, T) /\ RunningHeld(N, R, T) /\ StopsOutsideDrop(R, T)

HeldInv == EngineInv /\ Held(node, req, task)

-----------------------------------------------------------------------------
(* If the world changes only at rest, what is in flight is of one version v. *)

(* An evaluation took nothing from after it was verified, nor from after v. *)
InDate(ev, v) ==
    /\ ev.changed_at <= ev.verified_at /\ ev.verified_at <= v
    /\ \A i \in DOMAIN ev.deps : ev.deps[i].seen <= ev.verified_at

ResultInDate(res, v) == res.is = "ok" => InDate(res.ev, v)

TaskInDate(X, v) ==
    /\ X.version = v
    /\ X.previous # None => InDate(X.previous, v)
    /\ ResultInDate(X.result, v)
    /\ \A i \in DOMAIN X.deps : X.deps[i].seen <= v

Dated(N, R, T, v) ==
    /\ \A k \in Keys : N[k].st = "done" => InDate(N[k].ev, v)
    /\ \A t \in Tasks : T[t].pc # "free" => TaskInDate(T[t], v)
    /\ \A r \in Requesters, k \in Keys :
          R[r][k].mode = "drop" => ResultInDate(R[r][k].result, v)

(* The computation of a key that was not aborted is the one its node holds, *)
(* or another one has brought the node up to date before it.                *)
Fresh(n, isDirty, v) == n.st = "done" /\ n.ev.verified_at >= v /\ ~isDirty

Goes(X) == X.pc \in Active /\ X.abort = "no"

Shared(N, T, D, v) ==
    /\ \A k \in Keys : N[k].st = "running" => ~D[k]
    /\ \A t \in Tasks : Goes(T[t]) =>
          N[T[t].key] = Running(t) \/ Fresh(N[T[t].key], D[T[t].key], v)
    /\ \A t, u \in Tasks : Goes(T[t]) /\ Goes(T[u]) /\ T[t].key = T[u].key => t = u

(* Nothing is in flight while a change is announced, and a client that is   *)
(* busy asked at the version there is.                                      *)
Calm ==
    /\ inv # Still =>
          /\ \A t \in Tasks : task[t] = Free
          /\ \A r \in Requesters : req[r] = NoReqs
          /\ \A c \in Clients : client[c].pc # "busy"
    /\ \A c \in Clients : client[c].pc = "busy" => client[c].version = version

QuietInv ==
    /\ HeldInv
    /\ Calm
    /\ Dated(node, req, task, version)
    /\ Shared(node, task, dirty, version)

-----------------------------------------------------------------------------
(* Who collects a computation: changes to one entry *)

(* A task is freed only if no request and no node refers to it. *)
LEMMA CommitHeld ==
    ASSUME NEW N, NEW R, NEW T, Sound(N, R, T), Held(N, R, T), Commit(N, R, T)
    PROVE  Held(node', req', task')
<1>0. node' = N /\ req' = R /\ N \in Nodes /\ R \in Reqs
    BY DEF Commit, Sound
<1>1. \A t \in Tasks : task'[t] = T[t] \/ (task'[t] = Free /\ Garbage(t, N, R, T))
    BY DEF Commit
<1>2. ASSUME NEW r \in Requesters, NEW k \in Keys, Refers(R[r][k])
      PROVE  task'[R[r][k].task] = T[R[r][k].task]
    <2>1. R[r][k].task \in Tasks
        BY <1>0, <1>2, RequestForms DEF Reqs, Refers
    <2> QED
        BY <1>1, <1>2, <2>1 DEF Garbage, Refers
<1>3. RefersToKey(R, task')
    BY <1>2 DEF Held, RefersToKey
<1>4. ASSUME NEW k \in Keys, N[k].st = "running" PROVE task'[N[k].task] = T[N[k].task]
    <2>1. N[k].task \in Tasks /\ N[k] = Running(N[k].task)
        BY <1>0, <1>4, NodeForms DEF Nodes
    <2> QED
        BY <1>1, <2>1 DEF Garbage
<1>5. RunningHeld(N, R, task')
    BY <1>4 DEF Held, RunningHeld
<1>6. StopsOutsideDrop(R, task')
    BY <1>1 DEF Held, StopsOutsideDrop, Free, Active
<1> QED
    BY <1>0, <1>3, <1>5, <1>6 DEF Held

(* `run' moves on, as the computation of the same key. *)
LEMMA TaskHeld ==
    ASSUME NEW N, NEW R, NEW T, Sound(N, R, T), Held(N, R, T),
           NEW t \in Tasks, NEW X, X.pc # "free", X.key = T[t].key,
           X.abort = T[t].abort, X.pc \in Active => T[t].pc \in Active
    PROVE  Held(N, R, [T EXCEPT ![t] = X])
<1>1. T \in TaskMap /\ R \in Reqs /\ N \in Nodes
    BY DEF Sound
<1>2. RefersToKey(R, [T EXCEPT ![t] = X])
    <2>1. \A r \in Requesters, k \in Keys : Refers(R[r][k]) => R[r][k].task \in Tasks
        BY <1>1, RequestForms DEF Reqs, Refers
    <2> QED
        BY <1>1, <2>1 DEF Held, RefersToKey, TaskMap
<1>3. RunningHeld(N, R, [T EXCEPT ![t] = X])
    <2>1. \A k \in Keys : N[k].st = "running" => N[k].task \in Tasks
        BY <1>1, NodeForms DEF Nodes
    <2> QED
        BY <1>1, <2>1 DEF Held, RunningHeld, TaskMap
<1>4. StopsOutsideDrop(R, [T EXCEPT ![t] = X])
    BY <1>1 DEF Held, StopsOutsideDrop, TaskMap
<1> QED
    BY <1>2, <1>3, <1>4 DEF Held

(* Node.state is written, and is not Running. *)
LEMMA NodeHeld ==
    ASSUME NEW N, NEW R, NEW T, Sound(N, R, T), Held(N, R, T),
           NEW k \in Keys, NEW n, n.st # "running"
    PROVE  Held([N EXCEPT ![k] = n], R, T)
    BY DEF Sound, Nodes, Held, RunningHeld

(* The requests of r become those of row: what they refer to are            *)
(* computations of their keys, and none that r collected goes uncollected.  *)
LEMMA RowHeld ==
    ASSUME NEW N, NEW R, NEW T, Sound(N, R, T), Held(N, R, T),
           NEW r \in Requesters, NEW row,
           \A k \in Keys : Refers(row[k]) => T[row[k].task].pc # "free" /\ T[row[k].task].key = k,
           \A k \in Keys : row[k].mode = "drop" /\ r \in Tasks => ~(T[r].pc \in Active /\ T[r].abort = "yes"),
           \A k \in Keys : N[k].st = "running" /\ Collects(R[r][k], N[k].task) =>
               \/ Collects(row[k], N[k].task)
               \/ \E q \in Requesters \ {r} : Collects(R[q][k], N[k].task)
    PROVE  Held(N, [R EXCEPT ![r] = row], T)
<1> DEFINE S == [R EXCEPT ![r] = row]
<1>1. R \in Reqs /\ \A q \in Requesters : S[q] = IF q = r THEN row ELSE R[q]
    BY DEF Sound, Reqs
<1> HIDE DEF S
<1>2. RefersToKey(S, T)
    BY <1>1 DEF Held, RefersToKey
<1>3. RunningHeld(N, S, T)
    <2> SUFFICES ASSUME NEW k \in Keys, N[k].st = "running"
                 PROVE  \E q \in Requesters : Collects(S[q][k], N[k].task)
        BY DEF Held, RunningHeld
    <2>1. PICK q \in Requesters : Collects(R[q][k], N[k].task)
        BY DEF Held, RunningHeld
    <2>2. CASE q = r
        BY <1>1, <2>1, <2>2
    <2>3. CASE q # r
        BY <1>1, <2>1, <2>3
    <2> QED
        BY <2>2, <2>3
<1>4. StopsOutsideDrop(S, T)
    BY <1>1 DEF Held, StopsOutsideDrop, Requesters
<1> QED
    BY <1>2, <1>3, <1>4 DEF Held, S

(* The same for one request. *)
LEMMA ReqHeld ==
    ASSUME NEW N, NEW R, NEW T, Sound(N, R, T), Held(N, R, T),
           NEW r \in Requesters, NEW k \in Keys, NEW q,
           Refers(q) => T[q.task].pc # "free" /\ T[q.task].key = k,
           q.mode = "drop" /\ r \in Tasks => ~(T[r].pc \in Active /\ T[r].abort = "yes"),
           N[k].st = "running" /\ Collects(R[r][k], N[k].task) =>
               \/ Collects(q, N[k].task)
               \/ \E p \in Requesters \ {r} : Collects(R[p][k], N[k].task)
    PROVE  Held(N, [R EXCEPT ![r][k] = q], T)
<1> DEFINE row == [R[r] EXCEPT ![k] = q]
<1>1. R \in Reqs /\ R[r] \in [Keys -> Request]
    BY DEF Sound, Reqs
<1>2. \A j \in Keys : row[j] = IF j = k THEN q ELSE R[r][j]
    BY <1>1
<1>3. [R EXCEPT ![r][k] = q] = [R EXCEPT ![r] = row]
    OBVIOUS
<1> HIDE DEF row
<1>4. \A j \in Keys : Refers(row[j]) => T[row[j].task].pc # "free" /\ T[row[j].task].key = j
    BY <1>2 DEF Held, RefersToKey
<1>5. \A j \in Keys : row[j].mode = "drop" /\ r \in Tasks =>
          ~(T[r].pc \in Active /\ T[r].abort = "yes")
    BY <1>2 DEF Held, StopsOutsideDrop
<1>6. \A j \in Keys : N[j].st = "running" /\ Collects(R[r][j], N[j].task) =>
          \/ Collects(row[j], N[j].task)
          \/ \E p \in Requesters \ {r} : Collects(R[p][j], N[j].task)
    BY <1>2
<1> QED
    BY <1>3, <1>4, <1>5, <1>6, RowHeld

(* A request that is answered is not the one to collect a computation, or   *)
(* another is.                                                              *)
NotLast(r, k, N, R) ==
    N[k].st = "running" /\ Collects(R[r][k], N[k].task) =>
        \E p \in Requesters \ {r} : Collects(R[p][k], N[k].task)

(* A task that goes on with an answer is the same task. *)
LEMMA ResumedHeld ==
    ASSUME NEW T \in TaskRecord, NEW k \in Keys, NEW res \in Results, res # Nothing
    PROVE  /\ Resumed(T, k, res) \in TaskRecord
           /\ Resumed(T, k, res).key = T.key /\ Resumed(T, k, res).abort = T.abort
           /\ Resumed(T, k, res).version = T.version
           /\ Resumed(T, k, res).previous = T.previous
           /\ Resumed(T, k, res).result = T.result
           /\ Resumed(T, k, res).pc # "free"
           /\ Resumed(T, k, res).pc \in Active => T.pc \in Active
           /\ Resumed(T, k, res).deps = T.deps \/
                (/\ res.is = "ok"
                 /\ Resumed(T, k, res).deps =
                      Append(T.deps, [dep |-> k, seen |-> res.ev.changed_at]))
<1>1. Resumed(T, k, res) \in TaskRecord /\ Resumed(T, k, res).key = T.key
    BY ResumedType
<1>2. CASE T.pc = "verify"
    BY <1>1, <1>2 DEF Resumed, Verified, TaskRecord, Active
<1>3. CASE T.pc # "verify"
    BY <1>1, <1>3 DEF Resumed, ReadBy, TaskRecord, Active
<1> QED
    BY <1>2, <1>3

(* A request is answered. *)
LEMMA AnswerHeld ==
    ASSUME EngineInv, NEW N, NEW T, Sound(N, req, T), Held(N, req, T),
           NEW r \in Requesters, NEW k \in Keys, NEW res \in Results,
           r \in Tasks => T[r].pc # "free",
           NotLast(r, k, N, req),
           Answer(r, k, res, N, req, T)
    PROVE  Held(node', req', task')
<1> DEFINE R == [req EXCEPT ![r][k] = NoReq]
<1>1. NoReq \in Request /\ NoReq.mode = "none"
    BY NoReqType
<1>2. Sound(N, R, T)
    BY <1>1, PutReq
<1>3. Held(N, R, T)
    BY <1>1, ReqHeld DEF NotLast, Refers
<1> HIDE DEF R
<1>4. CASE Commit(N, R, T)
    BY <1>2, <1>3, <1>4, CommitHeld
<1>5. CASE /\ r \in Tasks /\ res # Nothing
           /\ Commit(N, R, [T EXCEPT ![r] = Resumed(@, k, res)])
    <2> DEFINE X == Resumed(T[r], k, res)
    <2>1. T[r] \in TaskRecord /\ T[r].pc # "free"
        BY <1>5, FreeOrRecord DEF Sound, TaskMap
    <2>2. /\ X \in TaskRecord /\ X.key = T[r].key /\ X.abort = T[r].abort
          /\ X.pc # "free" /\ (X.pc \in Active => T[r].pc \in Active)
        BY <1>5, <2>1, ResumedHeld
    <2>3. X.pc = "verify" => X.previous # None
        BY <1>5, <2>1, ResumedType DEF Sound, HasPrevious
    <2>4. Commit(N, R, [T EXCEPT ![r] = X])
        BY <1>5
    <2> HIDE DEF X
    <2>5. Sound(N, R, [T EXCEPT ![r] = X])
        BY <1>2, <1>5, <2>1, <2>2, <2>3, PutTask
    <2>6. Held(N, R, [T EXCEPT ![r] = X])
        BY <1>2, <1>3, <1>5, <2>2, TaskHeld
    <2> QED
        BY <2>4, <2>5, <2>6, CommitHeld
<1> QED
    BY <1>4, <1>5 DEF Answer, R, Requesters

-----------------------------------------------------------------------------
(* Who collects a computation: steps *)

(* What a request in each state collects. *)
LEMMA RequestRefs ==
    /\ ~Refers(NoReq) /\ ~Refers(Look) /\ Look.mode # "drop" /\ NoReq.mode # "drop"
    /\ \A t : ~Collects(NoReq, t) /\ ~Collects(Look, t)
    /\ \A t : /\ Await(t).task = t /\ Other(t).task = t /\ Await(t).mode = "await"
              /\ Other(t).mode = "other" /\ Collects(Await(t), t)
    /\ \A t, res : /\ Drop(t, res).task = t /\ Drop(t, res).mode = "drop"
                   /\ Drop(t, res).result = res /\ Collects(Drop(t, res), t)
    BY DEF Refers, Collects, NoReq, Look, Await, Other, Drop

(* A request that awaits a computation is one of its waiters. *)
LEMMA AwaitForm ==
    ASSUME NEW q \in Request
    PROVE  q.mode = "await" => q = Await(q.task)
    BY DEF Request, Await, NoReq, Look

(* Of a computation that a node holds, and of which r is a waiter but not    *)
(* the only one, there is another waiter for the same key.                  *)
LEMMA AnotherWaiter ==
    ASSUME HeldInv, NEW r \in Requesters, NEW k \in Keys, NEW t \in Tasks,
           t = req[r][k].task, Refers(req[r][k]), Waiters(t) \ {r} # {}
    PROVE  \E p \in Requesters \ {r} : Collects(req[p][k], t)
<1>1. task[t].key = k
    BY DEF HeldInv, Held, RefersToKey
<1>2. PICK p \in Requesters \ {r} : \E j \in Keys : req[p][j] = Await(t)
    BY DEF Waiters
<1>3. PICK j \in Keys : req[p][j] = Await(t)
    BY <1>2
<1>4. j = k
    BY <1>1, <1>3, RequestRefs DEF HeldInv, Held, RefersToKey, Refers
<1> QED
    BY <1>3, <1>4, RequestRefs

(* Engine::get, and a look that finds what it wants, or another's work. *)
LEMMA LookHeld ==
    ASSUME HeldInv, NEW r \in Requesters, NEW k \in Keys
    PROVE  /\ r \in Clients /\ Get(r, k) => Held(node', req', task')
           /\ LookDone(r, k) => Held(node', req', task')
           /\ LookRunning(r, k) => Held(node', req', task')
           /\ OtherDone(r, k) => Held(node', req', task')
<1>0. EngineInv /\ Sound(node, req, task) /\ Held(node, req, task)
    BY DEF HeldInv, EngineInv
<1>1. ASSUME r \in Clients, Get(r, k) PROVE Held(node', req', task')
    <2>1. ~Collects(req[r][k], node[k].task)
        BY <1>1, RequestRefs DEF Get, NoReqs
    <2> QED
        BY <1>0, <1>1, <2>1, RequestRefs, ReqHeld DEF Get
<1>2. ASSUME LookDone(r, k) PROVE Held(node', req', task')
    <2>1. req[r][k] = Look /\ req[r][k].mode # "none"
        BY <1>2 DEF LookDone, Look
    <2>2. NotLast(r, k, node, req)
        BY <2>1, RequestRefs DEF NotLast
    <2>3. r \in Tasks => task[r].pc # "free"
        BY <1>0, <2>1, Asker
    <2>4. Good(node[k].ev) \in Results
        BY <1>0, <1>2, NodeForms DEF LookDone, UpToDate, Sound, Nodes, Good, Results
    <2> QED
        BY <1>0, <1>2, <2>2, <2>3, <2>4, AnswerHeld DEF LookDone
<1>3. ASSUME LookRunning(r, k) PROVE Held(node', req', task')
    <2> DEFINE t == node[k].task
               q == IF task[t].version = VersionOf(r) THEN Await(t) ELSE Other(t)
    <2>1. task[t].pc # "free" /\ task[t].key = k
        BY <1>0, <1>3 DEF LookRunning, Held, RunningHeld
    <2>2. q.task = t /\ q.mode # "drop"
        BY RequestRefs
    <2>3. req' = [req EXCEPT ![r][k] = q] /\ node' = node /\ task' = task
          /\ ~Collects(req[r][k], t)
        BY <1>3, RequestRefs DEF LookRunning
    <2> HIDE DEF q
    <2> QED
        BY <1>0, <2>1, <2>2, <2>3, ReqHeld
<1>4. ASSUME OtherDone(r, k) PROVE Held(node', req', task')
    <2> DEFINE R == [req EXCEPT ![r][k] = Look]
    <2>1. Look \in Request /\ req[r][k].mode = "other"
        BY <1>4 DEF Look, Request, OtherDone
    <2>2. r \in Tasks => task[r].pc # "free"
        BY <1>0, <2>1, Asker
    <2>3. Sound(node, R, task)
        BY <1>0, <2>1, <2>2, PutReq
    <2>4. Held(node, R, task)
        BY <1>0, <2>1, RequestRefs, ReqHeld DEF Collects
    <2>5. Commit(node, R, task)
        BY <1>4 DEF OtherDone
    <2> QED
        BY <2>3, <2>4, <2>5, CommitHeld
<1> QED
    BY <1>1, <1>2, <1>3, <1>4

(* The computation that a request spawns. *)
NewTask(r, k) ==
    LET previous == IF node[k].st = "done" THEN node[k].ev ELSE None
    IN  [pc |-> Begin(previous, dirty[k]), key |-> k,
         version |-> VersionOf(r), previous |-> previous,
         dirty |-> dirty[k], at |-> 1, got |-> NoneGot, deps |-> <<>>,
         outcome |-> Cycle, result |-> Nothing, abort |-> "no"]

(* A computation that is spawned is collected by who asked for it; no       *)
(* request referred to its identity, which was free.                        *)
LEMMA SpawnHeld ==
    ASSUME HeldInv, NEW r \in Requesters, NEW k \in Keys, LookSpawn(r, k)
    PROVE  Held(node', req', task')
<1> DEFINE t == CHOOSE u \in Tasks : task[u] = Free
           X == NewTask(r, k)
<1>0. EngineInv /\ Sound(node, req, task) /\ Held(node, req, task)
    BY DEF HeldInv, EngineInv
<1>1. t \in Tasks /\ task[t] = Free /\ task[t].pc = "free"
    BY DEF LookSpawn, Free
<1>2. /\ task' = [task EXCEPT ![t] = X]
      /\ X.key = k /\ X.abort = "no" /\ X.pc \in {"verify", "compute"}
    BY DEF LookSpawn, NewTask, Begin
<1>3. /\ node' = [node EXCEPT ![k] = Running(t)]
      /\ req' = [req EXCEPT ![r][k] = Await(t)]
      /\ req[r][k] = Look /\ node[k].st # "running"
    BY DEF LookSpawn
<1> HIDE DEF t, X
<1>4. node \in Nodes /\ req \in Reqs /\ task \in TaskMap
    BY <1>0 DEF Sound
<1>5. /\ task'[t] = X /\ \A u \in Tasks \ {t} : task'[u] = task[u]
      /\ node'[k] = Running(t) /\ \A j \in Keys \ {k} : node'[j] = node[j]
      /\ req'[r][k] = Await(t)
      /\ \A q \in Requesters, j \in Keys : q # r \/ j # k => req'[q][j] = req[q][j]
    BY <1>1, <1>2, <1>3, <1>4 DEF Nodes, Reqs, TaskMap
<1>6. RefersToKey(req', task')
    <2> SUFFICES ASSUME NEW q \in Requesters, NEW j \in Keys, Refers(req'[q][j])
                 PROVE  task'[req'[q][j].task].pc # "free" /\ task'[req'[q][j].task].key = j
        BY DEF RefersToKey
    <2>1. CASE q = r /\ j = k
        BY <1>2, <1>5, <2>1, RequestRefs
    <2>2. CASE q # r \/ j # k
        <3>1. req'[q][j] = req[q][j] /\ req[q][j].task \in Tasks
            BY <1>4, <1>5, <2>2, RequestForms DEF Refers, Reqs
        <3>2. task[req[q][j].task].pc # "free" /\ task[req[q][j].task].key = j
            BY <1>0, <3>1 DEF Held, RefersToKey
        <3> QED
            BY <1>1, <1>5, <3>1, <3>2
    <2> QED
        BY <2>1, <2>2
<1>7. RunningHeld(node', req', task')
    <2> SUFFICES ASSUME NEW j \in Keys, node'[j].st = "running"
                 PROVE  /\ task'[node'[j].task].pc # "free"
                        /\ task'[node'[j].task].key = j
                        /\ task'[node'[j].task].abort = "no"
                        /\ \E q \in Requesters : Collects(req'[q][j], node'[j].task)
        BY DEF RunningHeld
    <2>1. CASE j = k
        BY <1>2, <1>5, <2>1, RequestRefs DEF Running
    <2>2. CASE j # k
        <3>1. node'[j] = node[j] /\ node[j].task \in Tasks
            BY <1>4, <1>5, <2>2, NodeForms DEF Nodes
        <3>2. /\ task[node[j].task].pc # "free" /\ task[node[j].task].key = j
              /\ task[node[j].task].abort = "no"
              /\ \E q \in Requesters : Collects(req[q][j], node[j].task)
            BY <1>0, <3>1 DEF Held, RunningHeld
        <3> QED
            BY <1>1, <1>5, <2>2, <3>1, <3>2
    <2> QED
        BY <2>1, <2>2
<1>8. StopsOutsideDrop(req', task')
    <2>1. \A u \in Tasks, j \in Keys : req'[u][j].mode = "drop" => req[u][j].mode = "drop"
        BY <1>5, RequestRefs DEF Requesters
    <2> QED
        BY <1>0, <1>2, <1>5, <2>1 DEF Held, StopsOutsideDrop
<1> QED
    BY <1>6, <1>7, <1>8 DEF Held

(* A waiter takes the answer, unless it is the last of a computation that   *)
(* the node still holds: that one puts the node back first.                 *)
LEMMA AwaitDoneHeld ==
    ASSUME HeldInv, NEW r \in Requesters, NEW k \in Keys, AwaitDone(r, k)
    PROVE  Held(node', req', task')
<1> DEFINE t == req[r][k].task
<1>0. EngineInv /\ Sound(node, req, task) /\ Held(node, req, task)
    BY DEF HeldInv, EngineInv
<1>1. req[r][k].mode = "await" /\ req[r][k].mode # "none" /\ Refers(req[r][k]) /\ Steps(r)
    BY DEF AwaitDone, Refers
<1>2. req[r][k] \in Request /\ (r \in Tasks => task[r].pc # "free")
    BY <1>0, <1>1, Asker
<1>3. t \in Tasks /\ req[r][k] = Await(t)
    BY <1>1, <1>2, RequestForms, AwaitForm
<1>4. task[t].pc = "done" /\ task[t].key = k
    BY <1>0, <1>1 DEF AwaitDone, Finished, Held, RefersToKey
<1>5. task[t].result \in Results
    <2>1. task[t] \in TaskRecord
        BY <1>0, <1>3, <1>4, FreeOrRecord DEF Sound, TaskMap
    <2> QED
        BY <2>1 DEF TaskRecord
<1>6. CASE /\ Waiters(t) = {r} /\ node[k] = Running(t)
           /\ req' = [req EXCEPT ![r][k] = Drop(t, task[t].result)]
           /\ UNCHANGED <<node, task, client>>
    <2>1. node[k].task = t
        BY <1>6 DEF Running
    <2>2. r \in Tasks => task[r].abort # "yes"
        BY <1>1 DEF Steps
    <2> DEFINE q == Drop(t, task[t].result)
    <2>3. q.task = t /\ q.mode = "drop" /\ Collects(q, t) /\ req' = [req EXCEPT ![r][k] = q]
        BY <1>6, RequestRefs
    <2> HIDE DEF q, t
    <2>4. Held(node, [req EXCEPT ![r][k] = q], task)
        BY <1>0, <1>4, <2>1, <2>2, <2>3, ReqHeld
    <2> QED
        BY <1>6, <2>3, <2>4
<1>7. CASE /\ ~(Waiters(t) = {r} /\ node[k] = Running(t))
           /\ Answer(r, k, task[t].result, node, req, task)
    <2>1. NotLast(r, k, node, req)
        <3> SUFFICES ASSUME node[k].st = "running", Collects(req[r][k], node[k].task)
                     PROVE  \E p \in Requesters \ {r} : Collects(req[p][k], node[k].task)
            BY DEF NotLast
        <3>1. node[k].task = t /\ node[k] = Running(t)
            BY <1>0, NodeForms DEF Collects, Sound, Nodes
        <3>2. r \in Waiters(t)
            BY <1>3 DEF Waiters
        <3>3. Waiters(t) \ {r} # {}
            BY <1>7, <3>1, <3>2
        <3> QED
            BY <1>1, <1>3, <3>1, <3>3, AnotherWaiter
    <2> QED
        BY <1>0, <1>2, <1>5, <1>7, <2>1, AnswerHeld
<1> QED
    BY <1>6, <1>7 DEF AwaitDone

(* Drop for Waiter: the node is put back, or it is not this computation's,  *)
(* or another request waits.                                                *)
LEMMA DropWaiterHeld ==
    ASSUME HeldInv, NEW r \in Requesters, NEW k \in Keys, DropWaiter(r, k)
    PROVE  Held(node', req', task')
<1> DEFINE t == req[r][k].task
           res == req[r][k].result
           back == [node EXCEPT ![k] = Back(task[t])]
<1>0. EngineInv /\ Sound(node, req, task) /\ Held(node, req, task)
    BY DEF HeldInv, EngineInv
<1>1. req[r][k].mode = "drop" /\ req[r][k].mode # "none" /\ Refers(req[r][k])
    BY DEF DropWaiter, Refers
<1>2. req[r][k] \in Request /\ (r \in Tasks => task[r].pc # "free" /\ task[r] \in TaskRecord)
    BY <1>0, <1>1, Asker
<1>3. t \in Tasks /\ res \in Results
    BY <1>1, <1>2, RequestForms
<1>4. task[t].pc # "free" /\ task[t].key = k /\ task[t] \in TaskRecord
    BY <1>0, <1>1, <1>3, FreeOrRecord DEF Held, RefersToKey, Sound, TaskMap
<1>5. CASE ~(node[k] = Running(t) /\ Waiters(t) = {}) /\ Answer(r, k, res, node, req, task)
    <2>1. NotLast(r, k, node, req)
        <3> SUFFICES ASSUME node[k].st = "running", Collects(req[r][k], node[k].task)
                     PROVE  \E p \in Requesters \ {r} : Collects(req[p][k], node[k].task)
            BY DEF NotLast
        <3>1. node[k].task = t /\ node[k] = Running(t)
            BY <1>0, NodeForms DEF Collects, Sound, Nodes
        <3>2. PICK p \in Requesters : \E j \in Keys : req[p][j] = Await(t)
            BY <1>5, <3>1 DEF Waiters
        <3>3. PICK j \in Keys : req[p][j] = Await(t)
            BY <3>2
        <3>4. j = k
            BY <1>0, <1>4, <3>3, RequestRefs DEF Held, RefersToKey, Refers
        <3> QED
            BY <1>1, <3>1, <3>3, <3>4, RequestRefs
    <2> QED
        BY <1>0, <1>2, <1>3, <1>5, <2>1, AnswerHeld
<1>6. CASE node[k] = Running(t)
    <2>1. Back(task[t]) \in NodeState /\ Back(task[t]).st # "running"
        <3>1. task[t].previous \in Evaluated \cup {None}
            BY <1>4 DEF TaskRecord
        <3> QED
            BY <3>1 DEF Back, Empty, Done, NodeState
    <2>2. Sound(back, req, task) /\ Held(back, req, task)
        BY <1>0, <2>1, PutNode, NodeHeld
    <2>3. back[k].st # "running" /\ \A j \in Keys : j # k => back[j] = node[j]
        BY <1>0, <2>1 DEF Sound, Nodes
    <2> HIDE DEF back
    <2>4. NotLast(r, k, back, req)
        BY <2>3 DEF NotLast
    <2>5. CASE Answer(r, k, res, back, req, task)
        BY <1>0, <1>2, <1>3, <2>2, <2>4, <2>5, AnswerHeld
    <2>6. ASSUME NEW a \in AbortOf(t), task[t].pc # "done",
                 Answer(r, k, res, back, req, [task EXCEPT ![t].abort = a])
          PROVE  Held(node', req', task')
        <3> DEFINE X == [task[t] EXCEPT !.abort = a]
                   T == [task EXCEPT ![t] = X]
        <3>1. a \in {"no", "mid", "yes"} /\ (a = "yes" => ~InDrop(t))
            BY DEF AbortOf, Blocked, InDrop, Pending
        <3>2. /\ X \in TaskRecord /\ X.key = task[t].key /\ X.pc # "free" /\ X.abort = a
              /\ X.pc = task[t].pc /\ X.previous = task[t].previous
            BY <1>4, <3>1 DEF TaskRecord
        <3>3. X.pc = "verify" => X.previous # None
            BY <1>0, <1>3, <3>2 DEF Sound, HasPrevious
        <3>4. [task EXCEPT ![t].abort = a] = T
            OBVIOUS
        <3> HIDE DEF X
        <3>5. Sound(back, req, T)
            BY <1>3, <1>4, <2>2, <3>2, <3>3, PutTask
        <3>6. r \in Tasks => T[r].pc # "free"
            BY <1>0, <1>2, <1>3, <3>2 DEF Sound, TaskMap
        <3>7. T[t] = X /\ \A u \in Tasks \ {t} : T[u] = task[u]
            BY <1>0, <1>3 DEF Sound, TaskMap
        <3> HIDE DEF T
        <3>8. RefersToKey(req, T)
            <4>1. \A q \in Requesters, j \in Keys : Refers(req[q][j]) => req[q][j].task \in Tasks
                BY <1>0, RequestForms DEF Sound, Reqs, Refers
            <4> QED
                BY <1>0, <3>2, <3>7, <4>1 DEF Held, RefersToKey
        <3>9. RunningHeld(back, req, T)
            <4> SUFFICES ASSUME NEW j \in Keys, back[j].st = "running"
                         PROVE  /\ T[back[j].task].pc # "free" /\ T[back[j].task].key = j
                                /\ T[back[j].task].abort = "no"
                                /\ \E q \in Requesters : Collects(req[q][j], back[j].task)
                BY DEF RunningHeld
            <4>1. j # k /\ back[j].task \in Tasks
                BY <2>2, <2>3, NodeForms DEF Sound, Nodes
            <4>2. /\ task[back[j].task].pc # "free" /\ task[back[j].task].key = j
                  /\ task[back[j].task].abort = "no"
                  /\ \E q \in Requesters : Collects(req[q][j], back[j].task)
                BY <2>2 DEF Held, RunningHeld
            <4> QED
                BY <1>4, <3>7, <4>1, <4>2
        <3>10. StopsOutsideDrop(req, T)
            BY <1>0, <3>1, <3>2, <3>7 DEF Held, StopsOutsideDrop, InDrop
        <3> QED
            BY <1>0, <1>2, <1>3, <2>4, <2>6, <3>4, <3>5, <3>6, <3>8, <3>9, <3>10, AnswerHeld
            DEF Held
    <2> QED
        BY <1>5, <2>5, <2>6 DEF DropWaiter, back
<1> QED
    BY <1>5, <1>6 DEF DropWaiter

(* All the requests of r are dropped where they stand: the last waiter of a *)
(* running computation is left to put its node back.                        *)
LEMMA RowDropped ==
    ASSUME HeldInv, NEW r \in Requesters, ~InDrop(r)
    PROVE  LET row == [k \in Keys |-> Dropped(r, k)] IN
           /\ \A k \in Keys : Refers(row[k]) =>
                 task[row[k].task].pc # "free" /\ task[row[k].task].key = k
           /\ \A k \in Keys : node[k].st = "running" /\ Collects(req[r][k], node[k].task) =>
                 \/ Collects(row[k], node[k].task)
                 \/ \E q \in Requesters \ {r} : Collects(req[q][k], node[k].task)
<1>0. EngineInv /\ Sound(node, req, task) /\ Held(node, req, task)
    BY DEF HeldInv, EngineInv
<1>1. ASSUME NEW k \in Keys, Refers(Dropped(r, k))
      PROVE  task[Dropped(r, k).task].pc # "free" /\ task[Dropped(r, k).task].key = k
    <2>1. Dropped(r, k).task = req[r][k].task /\ Refers(req[r][k])
        BY <1>1, RequestRefs DEF Dropped, Refers
    <2> QED
        BY <1>0, <2>1 DEF Held, RefersToKey
<1>2. ASSUME NEW k \in Keys, node[k].st = "running", Collects(req[r][k], node[k].task)
      PROVE  \/ Collects(Dropped(r, k), node[k].task)
             \/ \E q \in Requesters \ {r} : Collects(req[q][k], node[k].task)
    <2> DEFINE t == node[k].task
    <2>1. req[r][k].mode = "await" /\ req[r][k].task = t
        BY <1>2 DEF Collects, InDrop
    <2>2. t \in Tasks /\ node[k] = Running(t) /\ req[r][k] \in Request
        BY <1>0, <1>2, NodeForms DEF Sound, Nodes, Reqs
    <2>3. r \in Waiters(t)
        BY <2>1, <2>2, AwaitForm DEF Waiters
    <2>4. CASE Waiters(t) = {r}
        BY <2>1, <2>2, <2>4, RequestRefs DEF Dropped
    <2>5. CASE Waiters(t) # {r}
        <3>1. Waiters(t) \ {r} # {} /\ Refers(req[r][k]) /\ t = req[r][k].task
            BY <2>1, <2>3, <2>5 DEF Refers
        <3> QED
            BY <2>2, <3>1, AnotherWaiter
    <2> QED
        BY <2>4, <2>5
<1> QED
    BY <1>1, <1>2

(* The future of Engine::get is dropped. *)
LEMMA CancelHeld ==
    ASSUME HeldInv, NEW c \in Clients, Cancel(c)
    PROVE  Held(node', req', task')
<1> DEFINE row == [k \in Keys |-> Dropped(c, k)]
           R == [req EXCEPT ![c] = row]
<1>0. EngineInv /\ Sound(node, req, task) /\ Held(node, req, task)
    BY DEF HeldInv, EngineInv
<1>1. c \in Requesters /\ c \notin Tasks /\ ~InDrop(c)
    BY EngineAssumption DEF Requesters, Cancel
<1>2. row \in [Keys -> Request]
    BY <1>0, <1>1, DroppedForms
<1>3. /\ \A k \in Keys : Refers(row[k]) =>
            task[row[k].task].pc # "free" /\ task[row[k].task].key = k
      /\ \A k \in Keys : node[k].st = "running" /\ Collects(req[c][k], node[k].task) =>
            \/ Collects(row[k], node[k].task)
            \/ \E q \in Requesters \ {c} : Collects(req[q][k], node[k].task)
    BY <1>1, RowDropped
<1>4. Commit(node, R, task)
    BY DEF Cancel
<1> HIDE DEF row
<1>5. Sound(node, R, task) /\ Held(node, R, task)
    BY <1>0, <1>1, <1>2, <1>3, PutRow, RowHeld
<1> QED
    BY <1>4, <1>5, CommitHeld

(* A task that is dropped or panics was not inside Drop for Waiter, and     *)
(* drops its requests.                                                      *)
LEMMA BrokenHeld ==
    ASSUME HeldInv, NEW t \in Tasks, TaskDropped(t) \/ Panic(t)
    PROVE  Held(node', req', task')
<1> DEFINE row == [k \in Keys |-> Dropped(t, k)]
           X == Ended(task[t], Bad(Broken))
           R == [req EXCEPT ![t] = row]
           T == [task EXCEPT ![t] = X]
<1>0. EngineInv /\ Sound(node, req, task) /\ Held(node, req, task)
    BY DEF HeldInv, EngineInv
<1>1. task[t].pc \in Active /\ Commit(node, R, T)
    BY DEF TaskDropped, Panic, Active
<1>2. t \in Requesters /\ task[t].pc # "free" /\ task[t] \in TaskRecord
    BY <1>0, <1>1, ActiveTask
<1>3. ~InDrop(t)
    <2>1. CASE Panic(t)
        BY <2>1 DEF Panic, Steps
    <2>2. CASE task[t].abort = "yes"
        BY <1>0, <1>1, <2>2 DEF Held, StopsOutsideDrop, InDrop
    <2>3. CASE Blocked(t)
        BY <2>3 DEF Blocked, Pending, InDrop
    <2> QED
        BY <2>1, <2>2, <2>3 DEF TaskDropped
<1>4. row \in [Keys -> Request]
    BY <1>0, <1>2, DroppedForms
<1>5. /\ \A k \in Keys : Refers(row[k]) =>
            task[row[k].task].pc # "free" /\ task[row[k].task].key = k
      /\ \A k \in Keys : node[k].st = "running" /\ Collects(req[t][k], node[k].task) =>
            \/ Collects(row[k], node[k].task)
            \/ \E q \in Requesters \ {t} : Collects(req[q][k], node[k].task)
    BY <1>2, <1>3, RowDropped
<1>6. Bad(Broken) \in Results
    BY DEF Bad, Results, AnyOutcome
<1>7. /\ X \in TaskRecord /\ X.key = task[t].key /\ X.pc = "done"
      /\ X.abort = task[t].abort /\ X.pc \notin Active
    BY <1>2, <1>6, EndedType DEF Ended, Active, TaskRecord
<1> HIDE DEF row, X
<1>8. Sound(node, req, T) /\ Held(node, req, T)
    BY <1>0, <1>2, <1>7, PutTask, TaskHeld
<1>9. T[t] = X /\ \A u \in Tasks \ {t} : T[u] = task[u]
    BY <1>0 DEF Sound, TaskMap
<1>10. \A k \in Keys : Refers(row[k]) => T[row[k].task].pc # "free" /\ T[row[k].task].key = k
    <2>1. \A k \in Keys : Refers(row[k]) => row[k].task \in Tasks
        BY <1>4, RequestForms DEF Refers
    <2> QED
        BY <1>5, <1>7, <1>9, <2>1
<1> HIDE DEF T
<1>11. Sound(node, R, T) /\ Held(node, R, T)
    BY <1>2, <1>4, <1>5, <1>7, <1>8, <1>9, <1>10, PutRow, RowHeld
<1> QED
    BY <1>1, <1>11, CommitHeld

(* A task that goes on, or ends, with nothing else changed. *)
LEMMA OnlyTaskHeld ==
    ASSUME HeldInv, NEW t \in Tasks, task[t].pc \in Active, NEW X \in TaskRecord,
           X.key = task[t].key, X.abort = task[t].abort, X.pc = "verify" => X.previous # None,
           Commit(node, req, [task EXCEPT ![t] = X])
    PROVE  Held(node', req', task')
<1>0. EngineInv /\ Sound(node, req, task) /\ Held(node, req, task)
    BY DEF HeldInv, EngineInv
<1>1. task[t].pc # "free" /\ X.pc # "free"
    BY <1>0, ActiveTask DEF TaskRecord, Active
<1>2. Sound(node, req, [task EXCEPT ![t] = X]) /\ Held(node, req, [task EXCEPT ![t] = X])
    BY <1>0, <1>1, PutTask, TaskHeld
<1> QED
    BY <1>2, CommitHeld

(* wait_on lets t wait on d, which it did not ask for yet. *)
LEMMA WaitHeld ==
    ASSUME HeldInv, NEW t \in Tasks, task[t].pc \in Active, NEW d \in Keys,
           d \notin Pending(t), Commit(node, [req EXCEPT ![t][d] = Look], task)
    PROVE  Held(node', req', task')
<1>0. EngineInv /\ Sound(node, req, task) /\ Held(node, req, task)
    BY DEF HeldInv, EngineInv
<1>1. task[t].pc # "free" /\ t \in Requesters /\ Look \in Request
    BY <1>0, ActiveTask DEF Look, Request
<1>2. ~Collects(req[t][d], node[d].task)
    BY DEF Pending, Collects
<1>3. /\ Sound(node, [req EXCEPT ![t][d] = Look], task)
      /\ Held(node, [req EXCEPT ![t][d] = Look], task)
    BY <1>0, <1>1, <1>2, PutReq, ReqHeld, RequestRefs
<1> QED
    BY <1>3, CommitHeld

(* The node is written, and is Done. *)
LEMMA PublishHeld ==
    ASSUME HeldInv, NEW t \in Tasks, task[t].pc \in Active, NEW ev \in Evaluated,
           Publish(t, ev)
    PROVE  Held(node', req', task')
<1> DEFINE X == Ended(task[t], Good(ev))
           T == [task EXCEPT ![t] = X]
           N == [node EXCEPT ![task[t].key] = Done(ev)]
<1>0. EngineInv /\ Sound(node, req, task) /\ Held(node, req, task)
    BY DEF HeldInv, EngineInv
<1>1. task[t] \in TaskRecord /\ task[t].pc # "free" /\ task[t].key \in Keys
    BY <1>0, ActiveTask DEF TaskRecord
<1>2. Good(ev) \in Results /\ Done(ev) \in NodeState /\ Done(ev).st # "running"
    BY DEF Good, Results, Done, NodeState
<1>3. /\ X \in TaskRecord /\ X.key = task[t].key /\ X.pc = "done"
      /\ X.abort = task[t].abort /\ X.pc \notin Active
    BY <1>1, <1>2, EndedType DEF Ended, TaskRecord, Active
<1>4. Commit(N, req, T)
    BY DEF Publish
<1> HIDE DEF X
<1>5. Sound(node, req, T) /\ Held(node, req, T)
    BY <1>0, <1>1, <1>3, PutTask, TaskHeld
<1> HIDE DEF T
<1>6. Sound(N, req, T) /\ Held(N, req, T)
    BY <1>1, <1>2, <1>5, PutNode, NodeHeld
<1> QED
    BY <1>4, <1>6, CommitHeld

(* The keys that `run' asks for are keys, and those of a dependency it      *)
(* verifies are.                                                            *)
LEMMA NextDep ==
    ASSUME EngineInv, NEW t \in Tasks, VerifyNext(t)
    PROVE  /\ task[t].pc \in Active /\ task[t] \in TaskRecord
           /\ task[t].previous.deps[task[t].at].dep \in Keys
<1>1. task[t].pc = "verify" /\ task[t].pc \in Active
    BY DEF VerifyNext, Active
<1>2. task[t] \in TaskRecord /\ task[t].previous \in Evaluated
    BY <1>1, ActiveTask
<1>3. task[t].previous.deps \in Deps /\ task[t].at \in Nat \ {0}
    BY <1>2 DEF TaskRecord, Evaluated
<1>4. task[t].at \in 1..Len(task[t].previous.deps)
    BY <1>3 DEF VerifyNext, Deps
<1>5. task[t].previous.deps[task[t].at] \in [dep : Keys, seen : Versions]
    BY <1>3, <1>4, ElementType DEF Deps
<1> QED
    BY <1>1, <1>2, <1>5

(* The body of a computation. *)
LEMMA RunHeld ==
    ASSUME HeldInv, NEW t \in Tasks, Run(t)
    PROVE  Held(node', req', task')
<1>0. EngineInv /\ Sound(node, req, task) /\ Held(node, req, task)
    BY DEF HeldInv, EngineInv
<1>1. CASE VerifyNext(t)
    <2> DEFINE d == task[t].previous.deps[task[t].at].dep
               X == Ended(task[t], Bad(Cycle))
    <2>1. task[t].pc \in Active /\ task[t] \in TaskRecord /\ d \in Keys /\ d \notin Pending(t)
        BY <1>0, <1>1, NextDep DEF VerifyNext
    <2>2. CASE Commit(node, req, [task EXCEPT ![t] = X])
        <3>1. Bad(Cycle) \in Results
            BY DEF Bad, Results, AnyOutcome
        <3>2. /\ X \in TaskRecord /\ X.key = task[t].key /\ X.abort = task[t].abort
              /\ X.pc = "done"
            BY <2>1, <3>1, EndedType DEF Ended, TaskRecord
        <3> HIDE DEF X
        <3> QED
            BY <2>1, <2>2, <3>2, OnlyTaskHeld
    <2>3. CASE Commit(node, [req EXCEPT ![t][d] = Look], task)
        <3> HIDE DEF d
        <3> QED
            BY <2>1, <2>3, WaitHeld
    <2> QED
        BY <1>1, <2>2, <2>3 DEF VerifyNext
<1>2. CASE Keep(t)
    <2>1. task[t].pc = "verify" /\ task[t].pc \in Active
        BY <1>2 DEF Keep, Active
    <2>2. task[t].previous \in Evaluated /\ task[t].version \in Versions
        BY <1>0, <2>1, ActiveTask DEF TaskRecord
    <2>3. [task[t].previous EXCEPT !.verified_at = task[t].version] \in Evaluated
        BY <2>2 DEF Evaluated
    <2> QED
        BY <1>2, <2>1, <2>3, PublishHeld DEF Keep
<1>3. CASE Compute(t)
    <2> DEFINE o == Outcome(task[t].key, task[t].got, world)
               X == [task[t] EXCEPT !.pc = "write", !.got = NoneGot, !.outcome = o]
    <2>1. task[t].pc \in Active
        BY <1>3 DEF Compute, Active
    <2>2. task[t] \in TaskRecord
        BY <1>0, <2>1, ActiveTask
    <2>3. o \in AnyOutcome
        BY <1>0, <2>2, EngineAssumption DEF TaskRecord, EngineInv, RestOK
    <2>4. X \in TaskRecord /\ X.key = task[t].key /\ X.pc = "write" /\ X.abort = task[t].abort
        BY <2>2, <2>3, NoneGotType DEF TaskRecord, Active
    <2>5. Commit(node, req, [task EXCEPT ![t] = X])
        BY <1>3 DEF Compute
    <2> HIDE DEF X
    <2> QED
        BY <2>1, <2>4, <2>5, OnlyTaskHeld
<1>4. CASE Write(t)
    <2>1. task[t].pc \in Active
        BY <1>4 DEF Write, Active
    <2>2. task[t] \in TaskRecord
        BY <1>0, <2>1, ActiveTask
    <2>3. ChangedAt(task[t]) \in Versions
        BY <2>2 DEF ChangedAt, TaskRecord, Evaluated
    <2>4. [outcome |-> task[t].outcome, changed_at |-> ChangedAt(task[t]),
           verified_at |-> task[t].version, deps |-> task[t].deps] \in Evaluated
        BY <2>2, <2>3 DEF TaskRecord, Evaluated
    <2> QED
        BY <1>4, <2>1, <2>4, PublishHeld DEF Write
<1>5. CASE TaskDropped(t)
    BY <1>5, BrokenHeld
<1>6. ASSUME NEW d \in Keys, Ask(t, d) PROVE Held(node', req', task')
    <2> DEFINE X == Resumed(task[t], d, Bad(Cycle))
    <2>1. task[t].pc = "compute" /\ task[t].pc \in Active /\ d \notin Pending(t)
        BY <1>6 DEF Ask, Active, ToAsk
    <2>2. task[t] \in TaskRecord
        BY <1>0, <2>1, ActiveTask
    <2>3. CASE Commit(node, req, [task EXCEPT ![t] = X])
        <3>1. Bad(Cycle) \in Results /\ Bad(Cycle) # Nothing
            BY DEF Bad, Results, AnyOutcome, Nothing
        <3>2. /\ X \in TaskRecord /\ X.key = task[t].key /\ X.pc = "compute"
              /\ X.abort = task[t].abort
            BY <2>1, <2>2, <3>1, ResumedType, ResumedHeld
        <3> HIDE DEF X
        <3> QED
            BY <2>1, <2>3, <3>2, OnlyTaskHeld
    <2>4. CASE Commit(node, [req EXCEPT ![t][d] = Look], task)
        BY <2>1, <2>4, WaitHeld
    <2> QED
        BY <1>6, <2>3, <2>4 DEF Ask
<1> QED
    BY <1>1, <1>2, <1>3, <1>4, <1>5, <1>6 DEF Run

(* Every step leaves a running node with a computation that is collected. *)
LEMMA HeldStep == HeldInv /\ [EngineNext]_engineVars => HeldInv'
<1> SUFFICES ASSUME HeldInv, [EngineNext]_engineVars PROVE HeldInv'
    OBVIOUS
<1>1. EngineInv'
    BY EngineStep DEF HeldInv
<1>2. SUFFICES Held(node', req', task')
    BY <1>1 DEF HeldInv
<1>3. ASSUME NEW c \in Clients, NEW k \in Keys, Get(c, k) PROVE Held(node', req', task')
    BY <1>3, LookHeld DEF Requesters
<1>4. ASSUME NEW r \in Requesters, NEW k \in Keys, Evaluate(r, k)
      PROVE  Held(node', req', task')
    BY <1>4, LookHeld, SpawnHeld, AwaitDoneHeld, DropWaiterHeld DEF Evaluate
<1>5. ASSUME NEW c \in Clients, Cancel(c) PROVE Held(node', req', task')
    BY <1>5, CancelHeld
<1>6. ASSUME NEW t \in Tasks, Run(t) \/ Panic(t) PROVE Held(node', req', task')
    BY <1>6, RunHeld, BrokenHeld
<1>7. CASE UNCHANGED <<node, req, task>>
    BY <1>7 DEF HeldInv
<1> QED
    BY <1>3, <1>4, <1>5, <1>6, <1>7
    DEF EngineNext, Change, Bump, MarkDirty, NextVersion, engineVars

(***************************************************************************)
(* However requests are made, given up and answered, computations panic or *)
(* are aborted and the world changes: a node that is Running has a         *)
(* computation of its key, which was not aborted, and a request that waits *)
(* for it or is about to put the node back.                                *)
(***************************************************************************)
THEOREM EngineRunningIsHeld == EngineSpec => []RunningIsHeld
<1>1. EngineInit => HeldInv
    <2> SUFFICES ASSUME EngineInit PROVE Held(node, req, task)
        BY EngineStart DEF HeldInv
    <2>1. \A r \in Requesters, k \in Keys : req[r][k] = NoReq
        BY DEF EngineInit, NoReqs
    <2> QED
        BY <2>1, RequestRefs
        DEF EngineInit, Held, RefersToKey, RunningHeld, StopsOutsideDrop, Empty, Free, Active
<1>2. HeldInv => RunningIsHeld
    BY DEF HeldInv, Held, RunningHeld, RunningIsHeld, Collects
<1> QED
    BY <1>1, <1>2, HeldStep, PTL DEF EngineSpec

-----------------------------------------------------------------------------
(* What is in flight is of one version: changes to one entry *)

(* The parts of QuietInv that Commit replaces, of a version v. *)
InOrder(N, R, T, D, v) == Dated(N, R, T, v) /\ Shared(N, T, D, v)

(* Commit keeps what is in flight in order. *)
LEMMA CommitInOrder ==
    ASSUME NEW N, NEW R, NEW T, NEW D, NEW v, InOrder(N, R, T, D, v), Commit(N, R, T)
    PROVE  InOrder(node', req', task', D, v)
<1>1. node' = N /\ req' = R /\ \A t \in Tasks : task'[t] = T[t] \/ task'[t] = Free
    BY DEF Commit
<1>2. Free.pc = "free" /\ ~Goes(Free)
    BY DEF Free, Goes, Active
<1>3. Dated(node', req', task', v)
    BY <1>1, <1>2 DEF InOrder, Dated
<1>4. Shared(node', task', D, v)
    BY <1>1, <1>2 DEF InOrder, Shared
<1> QED
    BY <1>3, <1>4 DEF InOrder

(* `run' moves on, as the computation of the same key and version. *)
LEMMA TaskInOrder ==
    ASSUME NEW N, NEW R, NEW T, NEW D, NEW v, Sound(N, R, T), InOrder(N, R, T, D, v),
           NEW t \in Tasks, NEW X, X.key = T[t].key, X.abort = T[t].abort,
           X.pc \in Active => T[t].pc \in Active, TaskInDate(X, v)
    PROVE  InOrder(N, R, [T EXCEPT ![t] = X], D, v)
<1> DEFINE U == [T EXCEPT ![t] = X]
<1>1. U[t] = X /\ \A u \in Tasks \ {t} : U[u] = T[u]
    BY DEF Sound, TaskMap
<1> HIDE DEF U
<1>2. \A u \in Tasks : U[u].key = T[u].key /\ (Goes(U[u]) => Goes(T[u]))
    BY <1>1 DEF Goes
<1>3. Dated(N, R, U, v)
    BY <1>1 DEF InOrder, Dated
<1>4. Shared(N, U, D, v)
    BY <1>2 DEF InOrder, Shared
<1> QED
    BY <1>3, <1>4 DEF InOrder, U

(* The requests of r become those of row. *)
LEMMA RowInOrder ==
    ASSUME NEW N, NEW R, NEW T, NEW D, NEW v, Sound(N, R, T), InOrder(N, R, T, D, v),
           NEW r \in Requesters, NEW row,
           \A k \in Keys : row[k].mode = "drop" => ResultInDate(row[k].result, v)
    PROVE  InOrder(N, [R EXCEPT ![r] = row], T, D, v)
    BY DEF Sound, Reqs, InOrder, Dated

(* The same for one request. *)
LEMMA ReqInOrder ==
    ASSUME NEW N, NEW R, NEW T, NEW D, NEW v, Sound(N, R, T), InOrder(N, R, T, D, v),
           NEW r \in Requesters, NEW k \in Keys, NEW q,
           q.mode = "drop" => ResultInDate(q.result, v)
    PROVE  InOrder(N, [R EXCEPT ![r][k] = q], T, D, v)
    BY DEF Sound, Reqs, InOrder, Dated

(* What a computation reads at version v has a changed_at of v or before. *)
LEMMA ResumedInDate ==
    ASSUME NEW X \in TaskRecord, NEW k \in Keys, NEW res \in Results, res # Nothing,
           NEW v \in Nat, TaskInDate(X, v), ResultInDate(res, v)
    PROVE  TaskInDate(Resumed(X, k, res), v)
<1> DEFINE Y == Resumed(X, k, res)
<1>1. /\ Y.version = X.version /\ Y.previous = X.previous /\ Y.result = X.result
      /\ Y.deps = X.deps \/
           (/\ res.is = "ok"
            /\ Y.deps = Append(X.deps, [dep |-> k, seen |-> res.ev.changed_at]))
    BY ResumedHeld
<1> HIDE DEF Y
<1>2. \A i \in DOMAIN Y.deps : Y.deps[i].seen <= v
    <2>1. CASE Y.deps = X.deps
        BY <2>1 DEF TaskInDate
    <2>2. CASE /\ res.is = "ok"
               /\ Y.deps = Append(X.deps, [dep |-> k, seen |-> res.ev.changed_at])
        <3> DEFINE e == [dep |-> k, seen |-> res.ev.changed_at]
        <3>1. X.deps \in Seq([dep : Keys, seen : Versions]) /\ Len(X.deps) \in Nat
            BY DEF TaskRecord, Deps
        <3>2. e.seen <= v
            <4>1. res.ev \in Evaluated
                BY <2>2, ResultForms
            <4>2. /\ res.ev.changed_at \in Nat /\ res.ev.verified_at \in Nat
                  /\ res.ev.changed_at <= res.ev.verified_at /\ res.ev.verified_at <= v
                BY <2>2, <4>1 DEF ResultInDate, InDate, Evaluated, Versions
            <4> QED
                BY <4>2
        <3> HIDE DEF e
        <3>3. ASSUME NEW i \in DOMAIN Append(X.deps, e)
              PROVE  Append(X.deps, e)[i].seen <= v
            <4>1. i \in 1..Len(X.deps) + 1
                BY <3>1
            <4>2. CASE i = Len(X.deps) + 1
                BY <3>1, <3>2, <4>2
            <4>3. CASE i \in 1..Len(X.deps)
                <5>1. Append(X.deps, e)[i] = X.deps[i] /\ i \in DOMAIN X.deps
                    BY <3>1, <4>3
                <5> QED
                    BY <5>1 DEF TaskInDate
            <4> QED
                BY <3>1, <4>1, <4>2, <4>3
        <3> QED
            BY <2>2, <3>3 DEF e
    <2> QED
        BY <1>1, <2>1, <2>2
<1> QED
    BY <1>1, <1>2 DEF TaskInDate, Y

(* A request is answered, by an evaluation of this version or before. *)
LEMMA AnswerInOrder ==
    ASSUME NEW N, NEW T, NEW D, NEW v \in Nat, Sound(N, req, T), InOrder(N, req, T, D, v),
           NEW r \in Requesters, NEW k \in Keys, NEW res \in Results,
           r \in Tasks => T[r].pc # "free", ResultInDate(res, v),
           Answer(r, k, res, N, req, T)
    PROVE  InOrder(node', req', task', D, v)
<1> DEFINE R == [req EXCEPT ![r][k] = NoReq]
<1>1. NoReq \in Request /\ NoReq.mode = "none"
    BY NoReqType
<1>2. Sound(N, R, T) /\ InOrder(N, R, T, D, v)
    BY <1>1, PutReq, ReqInOrder
<1> HIDE DEF R
<1>3. CASE Commit(N, R, T)
    BY <1>2, <1>3, CommitInOrder
<1>4. CASE /\ r \in Tasks /\ res # Nothing
           /\ Commit(N, R, [T EXCEPT ![r] = Resumed(@, k, res)])
    <2> DEFINE X == Resumed(T[r], k, res)
    <2>1. T[r] \in TaskRecord /\ T[r].pc # "free"
        BY <1>4, FreeOrRecord DEF Sound, TaskMap
    <2>2. X.key = T[r].key /\ X.abort = T[r].abort /\ (X.pc \in Active => T[r].pc \in Active)
        BY <1>4, <2>1, ResumedHeld
    <2>3. TaskInDate(X, v)
        BY <1>2, <1>4, <2>1, ResumedInDate DEF InOrder, Dated
    <2>4. Commit(N, R, [T EXCEPT ![r] = X])
        BY <1>4
    <2> HIDE DEF X
    <2>5. InOrder(N, R, [T EXCEPT ![r] = X], D, v)
        BY <1>2, <1>4, <2>2, <2>3, TaskInOrder
    <2> QED
        BY <2>4, <2>5, CommitInOrder
<1> QED
    BY <1>3, <1>4 DEF Answer, R, Requesters

-----------------------------------------------------------------------------
(* What is in flight is of one version: steps *)

(* While anything is in flight no change is being announced, and all that   *)
(* asks, asks at the version there is.                                      *)
LEMMA InFlight ==
    ASSUME QuietInv
    PROVE  /\ \A r \in Requesters, k \in Keys : req[r][k].mode # "none" => inv = Still
           /\ \A t \in Tasks : task[t].pc # "free" => inv = Still /\ task[t].version = version
           /\ \A r \in Requesters, k \in Keys :
                 Awaits(req[r][k]) /\ req[r][k].mode # "none" => VersionOf(r) = version
<1>0. EngineInv
    BY DEF QuietInv, HeldInv
<1>1. \A r \in Requesters, k \in Keys : req[r][k].mode # "none" => inv = Still
    BY DEF QuietInv, Calm, NoReqs, NoReq
<1>2. \A t \in Tasks : task[t].pc # "free" => inv = Still /\ task[t].version = version
    BY DEF QuietInv, Calm, Free, Dated, TaskInDate
<1>3. ASSUME NEW r \in Requesters, NEW k \in Keys, Awaits(req[r][k]), req[r][k].mode # "none"
      PROVE  VersionOf(r) = version
    <2>1. /\ r \in Tasks => task[r].pc # "free"
          /\ r \in Clients => client[r].pc = "busy"
        BY <1>0, <1>3, Asker
    <2> QED
        BY <1>2, <2>1 DEF VersionOf, QuietInv, Calm, Requesters
<1> QED
    BY <1>1, <1>2, <1>3

(* A step in flight: no announcement, the same version, and no client is    *)
(* busy that was not.                                                       *)
LEMMA CalmStays ==
    ASSUME QuietInv, inv = Still, inv' = inv, version' = version,
           \A c \in Clients : client'[c].pc = "busy" => client'[c] = client[c]
    PROVE  Calm'
    BY DEF QuietInv, Calm

(* Who is answered is not busy any more. *)
LEMMA AnswerClients ==
    ASSUME EngineInv, NEW N, NEW R, NEW T, NEW r \in Requesters, NEW k \in Keys, NEW res,
           Answer(r, k, res, N, R, T)
    PROVE  \A c \in Clients : client'[c].pc = "busy" => client'[c] = client[c]
<1>1. client \in [Clients -> ClientState]
    BY DEF EngineInv, RestOK
<1> QED
    BY <1>1 DEF Answer

QuietStep ==
    /\ Calm'
    /\ InOrder(node', req', task', dirty', version')

(* A step that only answers, and leaves the version and the announcement. *)
LEMMA AnswerQuiet ==
    ASSUME QuietInv, NEW N, NEW T, Sound(N, req, T), InOrder(N, req, T, dirty', version),
           NEW r \in Requesters, NEW k \in Keys, NEW res \in Results,
           req[r][k].mode # "none",
           r \in Tasks => T[r].pc # "free", ResultInDate(res, version),
           Answer(r, k, res, N, req, T), version' = version, inv' = inv
    PROVE  QuietStep
<1>1. EngineInv /\ version \in Nat /\ inv = Still
    BY InFlight DEF QuietInv, HeldInv, EngineInv, RestOK, Versions
<1>2. InOrder(node', req', task', dirty', version)
    BY <1>1, AnswerInOrder
<1>3. Calm'
    BY <1>1, AnswerClients, CalmStays
<1> QED
    BY <1>2, <1>3 DEF QuietStep

(* A step that only commits. *)
LEMMA CommitQuiet ==
    ASSUME QuietInv, NEW N, NEW R, NEW T, InOrder(N, R, T, dirty, version),
           Commit(N, R, T), inv = Still, version' = version, inv' = inv, dirty' = dirty,
           \A c \in Clients : client'[c].pc = "busy" => client'[c] = client[c]
    PROVE  QuietStep
<1>1. InOrder(node', req', task', dirty', version)
    BY CommitInOrder
<1>2. Calm'
    BY CalmStays
<1> QED
    BY <1>1, <1>2 DEF QuietStep

(* Engine::get, made when no change is being announced. *)
LEMMA GetQuiet ==
    ASSUME QuietInv, Quiet, NEW c \in Clients, NEW k \in Keys, Get(c, k)
    PROVE  QuietStep
<1>0. EngineInv /\ Sound(node, req, task) /\ InOrder(node, req, task, dirty, version)
    BY DEF QuietInv, HeldInv, EngineInv, InOrder
<1>1. InOrder(node, req', task, dirty, version)
    BY <1>0, ReqInOrder, RequestRefs DEF Get, Requesters
<1>2. inv = Still /\ inv' = Still /\ client \in [Clients -> ClientState]
    BY <1>0 DEF Get, EngineInv, RestOK
<1>3. Calm'
    BY <1>2 DEF QuietInv, Calm, Get
<1> QED
    BY <1>1, <1>3 DEF QuietStep, Get

(* evaluate_now, but for spawning a computation. *)
LEMMA LookQuiet ==
    ASSUME QuietInv, NEW r \in Requesters, NEW k \in Keys,
           LookDone(r, k) \/ LookRunning(r, k) \/ OtherDone(r, k) \/ AwaitDone(r, k)
    PROVE  QuietStep
<1>0. EngineInv /\ Sound(node, req, task) /\ InOrder(node, req, task, dirty, version)
    BY DEF QuietInv, HeldInv, EngineInv, InOrder
<1>1. req[r][k].mode # "none"
    BY DEF LookDone, LookRunning, OtherDone, AwaitDone, Look
<1>2. req[r][k] \in Request /\ inv = Still /\ (r \in Tasks => task[r].pc # "free")
    BY <1>0, <1>1, Asker, InFlight
<1>3. version' = version /\ inv' = inv /\ dirty' = dirty
    BY DEF LookDone, LookRunning, OtherDone, AwaitDone
<1>4. CASE LookDone(r, k)
    <2>1. node[k].ev \in Evaluated /\ node[k].st = "done"
        BY <1>0, <1>4, NodeForms DEF LookDone, UpToDate, Sound, Nodes
    <2>2. Good(node[k].ev) \in Results /\ ResultInDate(Good(node[k].ev), version)
        BY <1>0, <2>1 DEF Good, Results, ResultInDate, InOrder, Dated
    <2>3. InOrder(node, req, task, dirty', version)
        BY <1>0, <1>3
    <2> QED
        BY <1>0, <1>1, <1>2, <1>3, <1>4, <2>2, <2>3, AnswerQuiet DEF LookDone
<1>5. ASSUME NEW q, q.mode # "drop", req' = [req EXCEPT ![r][k] = q],
             UNCHANGED <<node, task, client>>
      PROVE  QuietStep
    <2>1. InOrder(node, req', task, dirty, version)
        BY <1>0, <1>5, ReqInOrder
    <2>2. Calm'
        BY <1>2, <1>3, <1>5, CalmStays
    <2> QED
        BY <1>3, <1>5, <2>1, <2>2 DEF QuietStep
<1>6. CASE LookRunning(r, k)
    <2> DEFINE t == node[k].task
               q == IF task[t].version = VersionOf(r) THEN Await(t) ELSE Other(t)
    <2>1. q.mode # "drop"
        BY RequestRefs
    <2>2. req' = [req EXCEPT ![r][k] = q] /\ UNCHANGED <<node, task, client>>
        BY <1>6 DEF LookRunning
    <2> HIDE DEF q
    <2> QED
        BY <1>5, <2>1, <2>2
<1>7. CASE OtherDone(r, k)
    <2>1. InOrder(node, [req EXCEPT ![r][k] = Look], task, dirty, version)
        BY <1>0, ReqInOrder, RequestRefs
    <2>2. Commit(node, [req EXCEPT ![r][k] = Look], task) /\ client' = client
        BY <1>7 DEF OtherDone
    <2> QED
        BY <1>2, <1>3, <2>1, <2>2, CommitQuiet
<1>8. CASE AwaitDone(r, k)
    <2> DEFINE t == req[r][k].task
    <2>1. t \in Tasks /\ task[t].pc = "done"
        BY <1>2, <1>8, RequestForms DEF AwaitDone, Finished
    <2>2. task[t].result \in Results /\ ResultInDate(task[t].result, version)
        <3>1. task[t] \in TaskRecord
            BY <1>0, <2>1, FreeOrRecord DEF Sound, TaskMap
        <3> QED
            BY <1>0, <2>1, <3>1 DEF TaskRecord, InOrder, Dated, TaskInDate
    <2>3. CASE /\ req' = [req EXCEPT ![r][k] = Drop(t, task[t].result)]
               /\ UNCHANGED <<node, task, client>>
        <3> DEFINE q == Drop(t, task[t].result)
        <3>1. q.mode = "drop" /\ q.result = task[t].result /\ req' = [req EXCEPT ![r][k] = q]
            BY <2>3, RequestRefs
        <3> HIDE DEF q
        <3>2. InOrder(node, req', task, dirty, version)
            BY <1>0, <2>2, <3>1, ReqInOrder
        <3>3. Calm'
            BY <1>2, <1>3, <2>3, CalmStays
        <3> QED
            BY <1>3, <2>3, <3>2, <3>3 DEF QuietStep
    <2>4. CASE Answer(r, k, task[t].result, node, req, task)
        <3>1. InOrder(node, req, task, dirty', version)
            BY <1>0, <1>3
        <3> QED
            BY <1>0, <1>1, <1>2, <1>3, <2>2, <2>4, <3>1, AnswerQuiet
    <2> QED
        BY <1>8, <2>3, <2>4 DEF AwaitDone
<1> QED
    BY <1>4, <1>6, <1>7, <1>8

(* A computation is spawned for a key that has none that goes on: one that  *)
(* does would be the node's, or would have found the node up to date.       *)
LEMMA SpawnQuiet ==
    ASSUME QuietInv, NEW r \in Requesters, NEW k \in Keys, LookSpawn(r, k)
    PROVE  QuietStep
<1> DEFINE t == CHOOSE u \in Tasks : task[u] = Free
           X == NewTask(r, k)
<1>0. EngineInv /\ Sound(node, req, task) /\ InOrder(node, req, task, dirty, version)
    BY DEF QuietInv, HeldInv, EngineInv, InOrder
<1>1. t \in Tasks /\ task[t] = Free /\ task[t].pc = "free"
    BY DEF LookSpawn, Free
<1>2. req[r][k] = Look /\ req[r][k].mode # "none" /\ Awaits(req[r][k])
    BY DEF LookSpawn, Look, Awaits
<1>3. inv = Still /\ VersionOf(r) = version
    BY <1>2, InFlight
<1>4. /\ task' = [task EXCEPT ![t] = X]
      /\ X.key = k /\ X.abort = "no" /\ X.pc \in Active
    BY DEF LookSpawn, NewTask, Begin, Active
<1>5. TaskInDate(X, version)
    <2>1. X.version = version /\ X.result = Nothing /\ X.deps = <<>>
        BY <1>3 DEF NewTask
    <2>2. X.previous # None => node[k].st = "done" /\ X.previous = node[k].ev
        BY DEF NewTask
    <2> HIDE DEF X
    <2> QED
        BY <1>0, <2>1, <2>2 DEF TaskInDate, ResultInDate, Nothing, InOrder, Dated
<1>6. /\ node' = [node EXCEPT ![k] = Running(t)]
      /\ req' = [req EXCEPT ![r][k] = Await(t)]
      /\ dirty' = [dirty EXCEPT ![k] = FALSE]
      /\ node[k].st # "running" /\ ~UpToDate(k, version)
      /\ version' = version /\ inv' = inv /\ client' = client
    BY <1>3 DEF LookSpawn
<1> HIDE DEF t, X
<1>7. /\ task'[t] = X /\ \A u \in Tasks \ {t} : task'[u] = task[u]
      /\ node'[k] = Running(t) /\ \A j \in Keys \ {k} : node'[j] = node[j]
      /\ dirty'[k] = FALSE /\ \A j \in Keys \ {k} : dirty'[j] = dirty[j]
    BY <1>0, <1>1, <1>4, <1>6 DEF Sound, Nodes, TaskMap, EngineInv, RestOK
<1>8. Dated(node', req', task', version)
    <2>1. InOrder(node, req', task, dirty, version)
        BY <1>0, <1>6, RequestRefs, ReqInOrder
    <2> QED
        BY <1>5, <1>7, <2>1 DEF InOrder, Dated, Running
<1>9. Shared(node', task', dirty', version)
    <2>1. ASSUME NEW u \in Tasks, u # t, Goes(task[u])
          PROVE  task[u].key \in Keys /\ task[u].key # k
        <3>1. task[u].pc \in Active
            BY <2>1 DEF Goes
        <3>2. task[u] \in TaskRecord
            BY <1>0, <3>1, ActiveTask
        <3>3. task[u].key \in Keys
            BY <3>2 DEF TaskRecord
        <3>4. node[task[u].key] = Running(u) \/ UpToDate(task[u].key, version)
            BY <1>0, <2>1 DEF InOrder, Shared, Fresh, UpToDate
        <3> QED
            BY <1>6, <3>3, <3>4 DEF Running
    <2>2. ASSUME NEW j \in Keys, node'[j].st = "running" PROVE ~dirty'[j]
        BY <1>0, <1>7, <2>2 DEF InOrder, Shared
    <2>3. ASSUME NEW u \in Tasks, Goes(task'[u])
          PROVE  \/ node'[task'[u].key] = Running(u)
                 \/ Fresh(node'[task'[u].key], dirty'[task'[u].key], version)
        <3>1. CASE u = t
            BY <1>4, <1>7, <3>1
        <3>2. CASE u # t
            <4>1. task'[u] = task[u] /\ task[u].key \in Keys \ {k}
                BY <1>7, <2>1, <2>3, <3>2
            <4> QED
                BY <1>0, <1>7, <2>3, <4>1 DEF InOrder, Shared
        <3> QED
            BY <3>1, <3>2
    <2>4. ASSUME NEW u \in Tasks, NEW w \in Tasks, Goes(task'[u]), Goes(task'[w]),
                 task'[u].key = task'[w].key
          PROVE  u = w
        BY <1>0, <1>4, <1>7, <2>1, <2>4 DEF InOrder, Shared
    <2> QED
        BY <2>2, <2>3, <2>4 DEF Shared
<1>10. Calm'
    BY <1>3, <1>6, CalmStays
<1> QED
    BY <1>6, <1>8, <1>9, <1>10 DEF QuietStep, InOrder

(* Drop for Waiter puts the node back and aborts its computation: no other  *)
(* of that key goes on, for the node was this one's.                        *)
LEMMA DropWaiterQuiet ==
    ASSUME QuietInv, NEW r \in Requesters, NEW k \in Keys, DropWaiter(r, k)
    PROVE  QuietStep
<1> DEFINE t == req[r][k].task
           res == req[r][k].result
           back == [node EXCEPT ![k] = Back(task[t])]
<1>0. EngineInv /\ Sound(node, req, task) /\ InOrder(node, req, task, dirty, version)
    BY DEF QuietInv, HeldInv, EngineInv, InOrder
<1>1. req[r][k].mode = "drop" /\ req[r][k].mode # "none" /\ Refers(req[r][k])
    BY DEF DropWaiter, Refers
<1>2. req[r][k] \in Request /\ (r \in Tasks => task[r].pc # "free" /\ task[r] \in TaskRecord)
    BY <1>0, <1>1, Asker
<1>3. t \in Tasks /\ res \in Results /\ ResultInDate(res, version)
    BY <1>0, <1>1, <1>2, RequestForms DEF InOrder, Dated
<1>4. task[t].pc # "free" /\ task[t].key = k /\ task[t] \in TaskRecord
    BY <1>0, <1>1, <1>3, FreeOrRecord
    DEF QuietInv, HeldInv, Held, RefersToKey, Sound, TaskMap
<1>5. version' = version /\ inv' = inv
    BY DEF DropWaiter
<1>6. CASE Answer(r, k, res, node, req, task) /\ UNCHANGED dirty
    <2>1. InOrder(node, req, task, dirty', version)
        BY <1>0, <1>6
    <2> QED
        BY <1>0, <1>1, <1>2, <1>3, <1>5, <1>6, <2>1, AnswerQuiet
<1>7. CASE node[k] = Running(t) /\ dirty' = [dirty EXCEPT ![k] = StillDirty(@, task[t])]
    <2>1. /\ Back(task[t]) \in NodeState /\ Back(task[t]).st # "running"
          /\ Back(task[t]).st = "done" => InDate(Back(task[t]).ev, version)
        <3>1. task[t].previous \in Evaluated \cup {None}
            BY <1>4 DEF TaskRecord
        <3>2. task[t].previous # None => InDate(task[t].previous, version)
            BY <1>0, <1>3, <1>4 DEF InOrder, Dated, TaskInDate
        <3> QED
            BY <3>1, <3>2 DEF Back, Empty, Done, NodeState
    <2>2. Sound(back, req, task)
        BY <1>0, <2>1, PutNode
    <2>3. /\ back[k] = Back(task[t]) /\ \A j \in Keys \ {k} : back[j] = node[j]
          /\ \A j \in Keys \ {k} : dirty'[j] = dirty[j]
        BY <1>0, <1>7 DEF Sound, Nodes, EngineInv, RestOK
    <2> HIDE DEF back
    <2>4. ASSUME NEW T, Sound(back, req, T), ~Goes(T[t]), TaskInDate(T[t], version),
                 \A u \in Tasks \ {t} : T[u] = task[u]
          PROVE  InOrder(back, req, T, dirty', version)
        <3>1. Dated(back, req, T, version)
            BY <1>0, <2>1, <2>3, <2>4 DEF InOrder, Dated
        <3>2. ASSUME NEW u \in Tasks, Goes(T[u])
              PROVE  u # t /\ T[u] = task[u] /\ task[u].key \in Keys \ {k}
            <4>1. u # t /\ T[u] = task[u] /\ Goes(task[u])
                BY <2>4, <3>2
            <4>2. task[u] \in TaskRecord
                BY <1>0, <4>1, ActiveTask DEF Goes
            <4>3. node[task[u].key] = Running(u) \/ node[task[u].key].st = "done"
                BY <1>0, <4>1 DEF InOrder, Shared, Fresh
            <4> QED
                BY <1>7, <4>1, <4>2, <4>3 DEF TaskRecord, Running
        <3>3. Shared(back, T, dirty', version)
            <4>1. \A j \in Keys : back[j].st = "running" => ~dirty'[j]
                BY <1>0, <2>1, <2>3 DEF InOrder, Shared
            <4>2. \A u \in Tasks : Goes(T[u]) =>
                     \/ back[T[u].key] = Running(u)
                     \/ Fresh(back[T[u].key], dirty'[T[u].key], version)
                BY <1>0, <2>3, <3>2 DEF InOrder, Shared
            <4>3. \A u, w \in Tasks : Goes(T[u]) /\ Goes(T[w]) /\ T[u].key = T[w].key => u = w
                BY <1>0, <3>2 DEF InOrder, Shared
            <4> QED
                BY <4>1, <4>2, <4>3 DEF Shared
        <3> QED
            BY <3>1, <3>3 DEF InOrder
    <2>5. TaskInDate(task[t], version)
        BY <1>0, <1>3, <1>4 DEF InOrder, Dated
    <2>6. CASE task[t].pc = "done" /\ Answer(r, k, res, back, req, task)
        <3>1. ~Goes(task[t])
            BY <2>6 DEF Goes, Active
        <3>2. InOrder(back, req, task, dirty', version)
            BY <2>2, <2>4, <2>5, <3>1
        <3> QED
            BY <1>1, <1>2, <1>3, <1>5, <2>2, <2>6, <3>2, AnswerQuiet
    <2>7. ASSUME NEW a \in AbortOf(t), task[t].pc # "done",
                 Answer(r, k, res, back, req, [task EXCEPT ![t].abort = a])
          PROVE  QuietStep
        <3> DEFINE X == [task[t] EXCEPT !.abort = a]
                   T == [task EXCEPT ![t] = X]
        <3>1. a \in {"mid", "yes"}
            BY DEF AbortOf
        <3>2. /\ X \in TaskRecord /\ X.key = task[t].key /\ X.pc # "free" /\ X.abort = a
              /\ X.pc = task[t].pc /\ X.previous = task[t].previous
              /\ X.version = task[t].version /\ X.result = task[t].result
              /\ X.deps = task[t].deps
            BY <1>4, <3>1 DEF TaskRecord
        <3>3. X.pc = "verify" => X.previous # None
            BY <1>0, <1>3, <3>2 DEF Sound, HasPrevious
        <3>4. [task EXCEPT ![t].abort = a] = T
            OBVIOUS
        <3> HIDE DEF X
        <3>5. Sound(back, req, T)
            BY <1>3, <1>4, <2>2, <3>2, <3>3, PutTask
        <3>6. r \in Tasks => T[r].pc # "free"
            BY <1>0, <1>2, <1>3, <3>2 DEF Sound, TaskMap
        <3>7. T[t] = X /\ \A u \in Tasks \ {t} : T[u] = task[u]
            BY <1>0, <1>3 DEF Sound, TaskMap
        <3> HIDE DEF T
        <3>8. ~Goes(X) /\ TaskInDate(X, version)
            BY <2>5, <3>1, <3>2 DEF Goes, TaskInDate
        <3>9. InOrder(back, req, T, dirty', version)
            BY <2>4, <3>5, <3>7, <3>8
        <3> QED
            BY <1>1, <1>3, <1>5, <2>7, <3>4, <3>5, <3>6, <3>9, AnswerQuiet
    <2> QED
        BY <1>6, <1>7, <2>6, <2>7 DEF DropWaiter, back
<1> QED
    BY <1>6, <1>7 DEF DropWaiter

(* What a dropped request leaves of itself carries no evaluation. *)
LEMMA DroppedInDate ==
    ASSUME NEW r \in Requesters, NEW k \in Keys, NEW v, Dropped(r, k).mode = "drop"
    PROVE  ResultInDate(Dropped(r, k).result, v)
<1>1. Dropped(r, k).result = Nothing
    BY RequestRefs DEF Dropped
<1> QED
    BY <1>1 DEF ResultInDate, Nothing

(* The future of Engine::get is dropped. *)
LEMMA CancelQuiet ==
    ASSUME QuietInv, NEW c \in Clients, Cancel(c)
    PROVE  QuietStep
<1> DEFINE row == [k \in Keys |-> Dropped(c, k)]
<1>0. EngineInv /\ Sound(node, req, task) /\ InOrder(node, req, task, dirty, version)
    BY DEF QuietInv, HeldInv, EngineInv, InOrder
<1>1. c \in Requesters /\ client[c].pc = "busy" /\ client \in [Clients -> ClientState]
    BY <1>0 DEF Requesters, Cancel, EngineInv, RestOK
<1>2. inv = Still
    BY <1>1 DEF QuietInv, Calm
<1>3. \A k \in Keys : row[k].mode = "drop" => ResultInDate(row[k].result, version)
    BY <1>1, DroppedInDate
<1>4. /\ Commit(node, [req EXCEPT ![c] = row], task)
      /\ version' = version /\ inv' = inv /\ dirty' = dirty
      /\ \A d \in Clients : client'[d].pc = "busy" => client'[d] = client[d]
    BY <1>1 DEF Cancel, Idle
<1> HIDE DEF row
<1>5. InOrder(node, [req EXCEPT ![c] = row], task, dirty, version)
    BY <1>0, <1>1, <1>3, RowInOrder
<1> QED
    BY <1>2, <1>4, <1>5, CommitQuiet

(* What a computation that ends leaves is of its version. *)
LEMMA EndedInDate ==
    ASSUME NEW X \in TaskRecord, NEW res \in Results, NEW v, TaskInDate(X, v),
           ResultInDate(res, v)
    PROVE  /\ TaskInDate(Ended(X, res), v) /\ Ended(X, res).key = X.key
           /\ Ended(X, res).abort = X.abort /\ Ended(X, res).pc \notin Active
<1>1. /\ Ended(X, res).version = X.version /\ Ended(X, res).previous = X.previous
      /\ Ended(X, res).result = res /\ Ended(X, res).deps = <<>>
      /\ Ended(X, res).key = X.key /\ Ended(X, res).abort = X.abort
      /\ Ended(X, res).pc = "done"
    BY DEF Ended, TaskRecord
<1> QED
    BY <1>1 DEF TaskInDate, Active

(* A task that goes on, or ends, with nothing else changed. *)
LEMMA OnlyTaskQuiet ==
    ASSUME QuietInv, NEW t \in Tasks, task[t].pc \in Active, NEW X,
           X.key = task[t].key, X.abort = task[t].abort, TaskInDate(X, version),
           Commit(node, req, [task EXCEPT ![t] = X]),
           version' = version, inv' = inv, dirty' = dirty, client' = client
    PROVE  QuietStep
<1>0. EngineInv /\ Sound(node, req, task) /\ InOrder(node, req, task, dirty, version)
    BY DEF QuietInv, HeldInv, EngineInv, InOrder
<1>1. InOrder(node, req, [task EXCEPT ![t] = X], dirty, version)
    BY <1>0, TaskInOrder
<1>2. inv = Still
    BY InFlight DEF Active
<1> QED
    BY <1>1, <1>2, CommitQuiet

(* A task that is dropped or panics. *)
LEMMA BrokenQuiet ==
    ASSUME QuietInv, NEW t \in Tasks, TaskDropped(t) \/ Panic(t)
    PROVE  QuietStep
<1> DEFINE row == [k \in Keys |-> Dropped(t, k)]
           X == Ended(task[t], Bad(Broken))
           R == [req EXCEPT ![t] = row]
           T == [task EXCEPT ![t] = X]
<1>0. EngineInv /\ Sound(node, req, task) /\ InOrder(node, req, task, dirty, version)
    BY DEF QuietInv, HeldInv, EngineInv, InOrder
<1>1. /\ task[t].pc \in Active /\ Commit(node, R, T)
      /\ version' = version /\ inv' = inv /\ dirty' = dirty /\ client' = client
    BY DEF TaskDropped, Panic, Active
<1>2. t \in Requesters /\ task[t].pc # "free" /\ task[t] \in TaskRecord /\ inv = Still
    BY <1>0, <1>1, ActiveTask, InFlight
<1>3. \A k \in Keys : row[k].mode = "drop" => ResultInDate(row[k].result, version)
    BY <1>2, DroppedInDate
<1>4. row \in [Keys -> Request]
    BY <1>0, <1>2, DroppedForms
<1>5. Bad(Broken) \in Results /\ ResultInDate(Bad(Broken), version)
    BY DEF Bad, Results, AnyOutcome, ResultInDate
<1>6. TaskInDate(task[t], version)
    BY <1>0, <1>2 DEF InOrder, Dated
<1>7. /\ TaskInDate(X, version) /\ X.key = task[t].key
      /\ X.abort = task[t].abort /\ X.pc \notin Active
    BY <1>2, <1>5, <1>6, EndedInDate
<1> HIDE DEF row, X
<1>8. Sound(node, R, task) /\ InOrder(node, R, task, dirty, version)
    BY <1>0, <1>2, <1>3, <1>4, PutRow, RowInOrder
<1>9. InOrder(node, R, T, dirty, version)
    BY <1>7, <1>8, TaskInOrder
<1> QED
    BY <1>1, <1>2, <1>9, CommitQuiet

(* wait_on lets t wait on d. *)
LEMMA WaitQuiet ==
    ASSUME QuietInv, NEW t \in Tasks, task[t].pc \in Active, NEW d \in Keys,
           Commit(node, [req EXCEPT ![t][d] = Look], task),
           version' = version, inv' = inv, dirty' = dirty, client' = client
    PROVE  QuietStep
<1>0. EngineInv /\ Sound(node, req, task) /\ InOrder(node, req, task, dirty, version)
    BY DEF QuietInv, HeldInv, EngineInv, InOrder
<1>1. InOrder(node, [req EXCEPT ![t][d] = Look], task, dirty, version)
    BY <1>0, ReqInOrder, RequestRefs DEF Requesters
<1>2. inv = Still
    BY InFlight DEF Active
<1> QED
    BY <1>1, <1>2, CommitQuiet

(* The node is written, at this version: it is up to date for every other   *)
(* computation of its key that goes on, since none of them left it dirty.   *)
LEMMA PublishQuiet ==
    ASSUME QuietInv, NEW t \in Tasks, task[t].pc \in Active, NEW ev \in Evaluated,
           InDate(ev, version), ev.verified_at = version, Publish(t, ev)
    PROVE  QuietStep
<1> DEFINE k == task[t].key
           X == Ended(task[t], Good(ev))
           T == [task EXCEPT ![t] = X]
           N == [node EXCEPT ![k] = Done(ev)]
<1>0. EngineInv /\ Sound(node, req, task) /\ InOrder(node, req, task, dirty, version)
    BY DEF QuietInv, HeldInv, EngineInv, InOrder
<1>1. task[t] \in TaskRecord /\ task[t].pc # "free" /\ k \in Keys /\ inv = Still
    BY <1>0, ActiveTask, InFlight DEF TaskRecord
<1>2. Good(ev) \in Results /\ ResultInDate(Good(ev), version)
    BY DEF Good, Results, ResultInDate
<1>3. /\ TaskInDate(X, version) /\ X.key = task[t].key
      /\ X.abort = task[t].abort /\ X.pc \notin Active
    BY <1>0, <1>1, <1>2, EndedInDate DEF InOrder, Dated
<1>4. /\ Commit(N, req, T)
      /\ version' = version /\ inv' = inv /\ dirty' = dirty /\ client' = client
    BY DEF Publish
<1> HIDE DEF X
<1>5. InOrder(node, req, T, dirty, version)
    BY <1>0, <1>3, TaskInOrder
<1>6. N[k] = Done(ev) /\ Done(ev).st = "done" /\ Done(ev).ev = ev
      /\ \A j \in Keys \ {k} : N[j] = node[j]
    BY <1>0, <1>1 DEF Sound, Nodes, Done
<1>7. /\ T[t] = X /\ \A u \in Tasks \ {t} : T[u] = task[u]
      /\ version \in Nat /\ dirty \in [Keys -> BOOLEAN]
    BY <1>0 DEF Sound, TaskMap, EngineInv, RestOK, Versions
<1> HIDE DEF T, N, k
<1>8. Dated(N, req, T, version)
    BY <1>5, <1>6 DEF InOrder, Dated
<1>9. Shared(N, T, dirty, version)
    <2>1. \A j \in Keys : N[j].st = "running" => ~dirty[j]
        BY <1>5, <1>6 DEF InOrder, Shared
    <2>2. ASSUME NEW u \in Tasks, Goes(T[u])
          PROVE  N[T[u].key] = Running(u) \/ Fresh(N[T[u].key], dirty[T[u].key], version)
        <3>1. node[T[u].key] = Running(u) \/ Fresh(node[T[u].key], dirty[T[u].key], version)
            BY <1>5, <2>2 DEF InOrder, Shared
        <3>2. T[u].key \in Keys
            <4>1. u # t /\ T[u] = task[u]
                BY <1>3, <1>7, <2>2 DEF Goes
            <4>2. task[u] \in TaskRecord
                BY <1>0, <2>2, <4>1, ActiveTask DEF Goes
            <4> QED
                BY <4>1, <4>2 DEF TaskRecord
        <3>3. CASE T[u].key # k
            BY <1>6, <3>1, <3>2, <3>3
        <3>4. CASE T[u].key = k
            <4>1. ~dirty[k]
                BY <1>5, <3>1, <3>2, <3>4 DEF InOrder, Shared, Fresh, Running
            <4> QED
                BY <1>6, <1>7, <3>4, <4>1 DEF Fresh
        <3> QED
            BY <3>3, <3>4
    <2> QED
        BY <1>5, <2>1, <2>2 DEF InOrder, Shared
<1>10. InOrder(N, req, T, dirty, version)
    BY <1>8, <1>9 DEF InOrder
<1> QED
    BY <1>1, <1>4, <1>10, CommitQuiet

(* The body of a computation. *)
LEMMA RunQuiet ==
    ASSUME QuietInv, NEW t \in Tasks, Run(t)
    PROVE  QuietStep
<1>0. EngineInv /\ Sound(node, req, task) /\ InOrder(node, req, task, dirty, version)
    BY DEF QuietInv, HeldInv, EngineInv, InOrder
<1>a. version \in Nat
    BY <1>0 DEF EngineInv, RestOK, Versions
<1>b. ASSUME task[t].pc \in Active
      PROVE  /\ task[t] \in TaskRecord /\ TaskInDate(task[t], version)
             /\ task[t].version = version
    BY <1>0, <1>b, ActiveTask DEF InOrder, Dated, TaskInDate
<1>1. CASE VerifyNext(t)
    <2> DEFINE d == task[t].previous.deps[task[t].at].dep
               X == Ended(task[t], Bad(Cycle))
    <2>1. task[t].pc \in Active /\ task[t] \in TaskRecord /\ d \in Keys
        BY <1>0, <1>1, NextDep
    <2>2. version' = version /\ inv' = inv /\ dirty' = dirty /\ client' = client
        BY <1>1 DEF VerifyNext
    <2>3. CASE Commit(node, req, [task EXCEPT ![t] = X])
        <3>1. Bad(Cycle) \in Results /\ ResultInDate(Bad(Cycle), version)
            BY DEF Bad, Results, AnyOutcome, ResultInDate
        <3>2. TaskInDate(X, version) /\ X.key = task[t].key /\ X.abort = task[t].abort
            BY <1>b, <2>1, <3>1, EndedInDate
        <3> HIDE DEF X
        <3> QED
            BY <2>1, <2>2, <2>3, <3>2, OnlyTaskQuiet
    <2>4. CASE Commit(node, [req EXCEPT ![t][d] = Look], task)
        <3> HIDE DEF d
        <3> QED
            BY <2>1, <2>2, <2>4, WaitQuiet
    <2> QED
        BY <1>1, <2>3, <2>4 DEF VerifyNext
<1>2. CASE Keep(t)
    <2> DEFINE p == task[t].previous
               ev == [p EXCEPT !.verified_at = task[t].version]
    <2>1. task[t].pc = "verify" /\ task[t].pc \in Active
        BY <1>2 DEF Keep, Active
    <2>2. p \in Evaluated /\ p # None /\ task[t].version = version
        BY <1>0, <1>b, <2>1, ActiveTask
    <2>3. InDate(p, version)
        BY <1>b, <2>1, <2>2 DEF TaskInDate
    <2>4. /\ ev \in Evaluated /\ ev.verified_at = version
          /\ ev.changed_at = p.changed_at /\ ev.deps = p.deps
        BY <1>a, <2>2 DEF Evaluated, Versions
    <2>5. /\ p.changed_at \in Nat /\ p.verified_at \in Nat /\ p.deps \in Deps
        BY <2>2 DEF Evaluated, Versions
    <2>6. Publish(t, ev)
        BY <1>2 DEF Keep
    <2> HIDE DEF ev, p
    <2>7. \A i \in DOMAIN p.deps : p.deps[i].seen \in Nat
        <3>1. p.deps \in Seq([dep : Keys, seen : Versions]) /\ DOMAIN p.deps = 1..Len(p.deps)
            BY <2>5 DEF Deps
        <3>2. \A i \in DOMAIN p.deps : p.deps[i] \in [dep : Keys, seen : Versions]
            BY <3>1, ElementType
        <3> QED
            BY <3>2 DEF Versions
    <2>8. InDate(ev, version)
        BY <1>a, <2>3, <2>4, <2>5, <2>7 DEF InDate
    <2> QED
        BY <2>1, <2>4, <2>6, <2>8, PublishQuiet
<1>3. CASE Compute(t)
    <2> DEFINE X == [task[t] EXCEPT !.pc = "write", !.got = NoneGot,
                                    !.outcome = Outcome(task[t].key, task[t].got, world)]
    <2>1. task[t].pc \in Active
        BY <1>3 DEF Compute, Active
    <2>2. /\ X.key = task[t].key /\ X.abort = task[t].abort /\ X.version = task[t].version
          /\ X.previous = task[t].previous /\ X.result = task[t].result
          /\ X.deps = task[t].deps
        BY <1>b, <2>1 DEF TaskRecord
    <2>3. /\ Commit(node, req, [task EXCEPT ![t] = X])
          /\ version' = version /\ inv' = inv /\ dirty' = dirty /\ client' = client
        BY <1>3 DEF Compute
    <2> HIDE DEF X
    <2>4. TaskInDate(X, version)
        BY <1>b, <2>1, <2>2 DEF TaskInDate
    <2> QED
        BY <2>1, <2>2, <2>3, <2>4, OnlyTaskQuiet
<1>4. CASE Write(t)
    <2> DEFINE ev == [outcome |-> task[t].outcome, changed_at |-> ChangedAt(task[t]),
                      verified_at |-> task[t].version, deps |-> task[t].deps]
    <2>1. task[t].pc \in Active
        BY <1>4 DEF Write, Active
    <2>2. task[t] \in TaskRecord /\ TaskInDate(task[t], version) /\ task[t].version = version
        BY <1>b, <2>1
    <2>3. ChangedAt(task[t]) \in Nat /\ ChangedAt(task[t]) <= version
        <3>1. CASE task[t].previous # None
            <4>1. task[t].previous \in Evaluated /\ InDate(task[t].previous, version)
                BY <2>2, <3>1 DEF TaskRecord, TaskInDate
            <4>2. /\ task[t].previous.changed_at \in Nat /\ task[t].previous.verified_at \in Nat
                  /\ task[t].previous.changed_at <= version
                BY <1>a, <4>1 DEF Evaluated, InDate, Versions
            <4> QED
                BY <1>a, <2>2, <4>2 DEF ChangedAt
        <3>2. CASE task[t].previous = None
            BY <1>a, <2>2, <3>2 DEF ChangedAt
        <3> QED
            BY <3>1, <3>2
    <2>4. ev \in Evaluated
        BY <2>2, <2>3 DEF TaskRecord, Evaluated, Versions
    <2>5. InDate(ev, version) /\ ev.verified_at = version
        BY <1>a, <2>2, <2>3 DEF InDate, TaskInDate
    <2>6. Publish(t, ev)
        BY <1>4 DEF Write
    <2> HIDE DEF ev
    <2> QED
        BY <2>1, <2>4, <2>5, <2>6, PublishQuiet
<1>5. CASE TaskDropped(t)
    BY <1>5, BrokenQuiet
<1>6. ASSUME NEW d \in Keys, Ask(t, d) PROVE QuietStep
    <2> DEFINE X == Resumed(task[t], d, Bad(Cycle))
    <2>1. /\ task[t].pc \in Active
          /\ version' = version /\ inv' = inv /\ dirty' = dirty /\ client' = client
        BY <1>6 DEF Ask, Active
    <2>2. task[t] \in TaskRecord /\ TaskInDate(task[t], version)
        BY <1>b, <2>1
    <2>3. CASE Commit(node, req, [task EXCEPT ![t] = X])
        <3>1. Bad(Cycle) \in Results /\ Bad(Cycle) # Nothing /\ ResultInDate(Bad(Cycle), version)
            BY DEF Bad, Results, AnyOutcome, Nothing, ResultInDate
        <3>2. TaskInDate(X, version) /\ X.key = task[t].key /\ X.abort = task[t].abort
            <4>1. X.key = task[t].key /\ X.abort = task[t].abort
                BY <2>2, <3>1, ResumedHeld
            <4>2. TaskInDate(X, version)
                BY <1>a, <2>2, <3>1, ResumedInDate
            <4> QED
                BY <4>1, <4>2
        <3> HIDE DEF X
        <3> QED
            BY <2>1, <2>3, <3>2, OnlyTaskQuiet
    <2>4. CASE Commit(node, [req EXCEPT ![t][d] = Look], task)
        BY <2>1, <2>4, WaitQuiet
    <2> QED
        BY <1>6, <2>3, <2>4 DEF Ask
<1> QED
    BY <1>1, <1>2, <1>3, <1>4, <1>5, <1>6 DEF Run

(* The version moves, or a flag is set, while nothing is in flight: what    *)
(* the nodes hold stays in date.                                            *)
LEMMA RestQuiet ==
    ASSUME QuietInv, \A t \in Tasks : task[t] = Free, \A r \in Requesters : req[r] = NoReqs,
           UNCHANGED <<node, req, task>>, version' \in Nat, version <= version'
    PROVE  InOrder(node', req', task', dirty', version')
<1>0. EngineInv /\ Sound(node, req, task) /\ Held(node, req, task)
      /\ InOrder(node, req, task, dirty, version)
    BY DEF QuietInv, HeldInv, EngineInv, InOrder
<1>1. \A k \in Keys : node[k].st # "running"
    <2> SUFFICES ASSUME NEW k \in Keys, node[k].st = "running" PROVE FALSE
        OBVIOUS
    <2>1. node[k].task \in Tasks /\ task[node[k].task].pc # "free"
        BY <1>0, NodeForms DEF Sound, Nodes, Held, RunningHeld
    <2> QED
        BY <2>1 DEF Free
<1>2. ASSUME NEW k \in Keys, node[k].st = "done" PROVE InDate(node[k].ev, version')
    <2>1. node[k].ev \in Evaluated /\ InDate(node[k].ev, version)
        BY <1>0, <1>2, NodeForms DEF Sound, Nodes, InOrder, Dated
    <2>2. node[k].ev.verified_at \in Nat /\ version \in Nat
        BY <1>0, <2>1 DEF Evaluated, Versions, EngineInv, RestOK
    <2> QED
        BY <2>1, <2>2 DEF InDate
<1>3. Free.pc = "free" /\ ~Goes(Free) /\ \A k \in Keys : NoReqs[k].mode = "none"
    BY DEF Free, Goes, Active, NoReqs, NoReq
<1>4. Dated(node', req', task', version')
    BY <1>2, <1>3 DEF Dated
<1>5. Shared(node', task', dirty', version')
    BY <1>1, <1>3 DEF Shared
<1> QED
    BY <1>4, <1>5 DEF InOrder

(* Changes of the world, invalidate and next_version, at rest. *)
LEMMA WorldQuiet ==
    ASSUME QuietInv, Quiet,
           (\E l \in Leaves, v \in Values : Change(l, v)) \/ Bump \/ MarkDirty \/ NextVersion
    PROVE  QuietStep
<1>0. EngineInv /\ version \in Nat /\ inv \in InvState /\ client \in [Clients -> ClientState]
    BY DEF QuietInv, HeldInv, EngineInv, RestOK, Versions
<1>1. /\ \A t \in Tasks : task[t] = Free
      /\ \A r \in Requesters : req[r] = NoReqs
      /\ \A c \in Clients : client[c].pc # "busy"
    <2>1. CASE Bump \/ MarkDirty
        <3>1. inv # Still
            BY <2>1 DEF Bump, MarkDirty, Still
        <3> QED
            BY <3>1 DEF QuietInv, Calm
    <2>2. CASE (\E l \in Leaves, v \in Values : Change(l, v)) \/ NextVersion
        BY <2>2 DEF Change, NextVersion, AtRest
    <2> QED
        BY <2>1, <2>2
<1>2. /\ UNCHANGED <<node, req, task>> /\ version' \in Nat /\ version <= version'
      /\ \A c \in Clients : client'[c].pc # "busy"
    BY <1>0, <1>1 DEF Bump, MarkDirty, NextVersion, Change, Idle
<1>3. InOrder(node', req', task', dirty', version')
    BY <1>1, <1>2, RestQuiet
<1>4. Calm'
    BY <1>1, <1>2 DEF Calm
<1> QED
    BY <1>3, <1>4 DEF QuietStep

(* Every step of an engine whose world changes at rest. *)
LEMMA QuietInvStep ==
    ASSUME Quiet
    PROVE  QuietInv /\ [EngineNext]_engineVars => QuietInv'
<1> SUFFICES ASSUME QuietInv, [EngineNext]_engineVars PROVE QuietInv'
    OBVIOUS
<1>1. HeldInv'
    BY HeldStep DEF QuietInv
<1>2. SUFFICES QuietStep
    BY <1>1 DEF QuietInv, QuietStep, InOrder
<1>3. ASSUME NEW c \in Clients, NEW k \in Keys, Get(c, k) PROVE QuietStep
    BY <1>3, GetQuiet
<1>4. ASSUME NEW r \in Requesters, NEW k \in Keys, Evaluate(r, k) PROVE QuietStep
    BY <1>4, LookQuiet, SpawnQuiet, DropWaiterQuiet DEF Evaluate
<1>5. ASSUME NEW c \in Clients, Cancel(c) PROVE QuietStep
    BY <1>5, CancelQuiet
<1>6. ASSUME NEW t \in Tasks, Run(t) \/ Panic(t) PROVE QuietStep
    BY <1>6, RunQuiet, BrokenQuiet
<1>7. CASE (\E l \in Leaves, v \in Values : Change(l, v)) \/ Bump \/ MarkDirty \/ NextVersion
    BY <1>7, WorldQuiet
<1>8. CASE UNCHANGED engineVars
    <2>1. /\ node' = node /\ req' = req /\ task' = task /\ dirty' = dirty
          /\ version' = version /\ inv' = inv /\ client' = client
        BY <1>8 DEF engineVars
    <2> QED
        BY <2>1 DEF QuietInv, QuietStep, Calm, InOrder
<1> QED
    BY <1>3, <1>4, <1>5, <1>6, <1>7, <1>8 DEF EngineNext

(* A new engine holds nothing. *)
LEMMA QuietStart == EngineInit => QuietInv
<1> SUFFICES ASSUME EngineInit PROVE QuietInv
    OBVIOUS
<1>1. /\ \A r \in Requesters, k \in Keys : req[r][k] = NoReq
      /\ \A t \in Tasks : task[t] = Free /\ ~Goes(task[t]) /\ task[t].pc = "free"
      /\ \A k \in Keys : node[k].st = "empty"
      /\ \A c \in Clients : client[c].pc = "idle"
      /\ inv = Still
    BY DEF EngineInit, NoReqs, Goes, Free, Active, Empty, Idle
<1>2. HeldInv
    BY <1>1, RequestRefs, EngineStart
    DEF HeldInv, Held, RefersToKey, RunningHeld, StopsOutsideDrop, Active
<1>3. Calm
    BY <1>1 DEF Calm
<1>4. Dated(node, req, task, version)
    BY <1>1, RequestRefs DEF Dated
<1>5. Shared(node, task, dirty, version)
    BY <1>1 DEF Shared
<1> QED
    BY <1>2, <1>3, <1>4, <1>5 DEF QuietInv

(***************************************************************************)
(* If the world changes only while nothing is in flight, as between the    *)
(* commands of a build: no two computations of one key go on at a time,    *)
(* but for one that was aborted and is in the middle of a poll.            *)
(***************************************************************************)
THEOREM EngineOneComputation ==
    ASSUME Quiet
    PROVE  EngineSpec => []OneComputation
<1>1. QuietInv => OneComputation
    BY DEF QuietInv, Shared, Goes, OneComputation
<1> QED
    BY <1>1, QuietStart, QuietInvStep, PTL DEF EngineSpec
=============================================================================
