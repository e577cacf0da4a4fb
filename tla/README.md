# fjfj in TLA+

A model of the core of fjfj (evaluation, execution, loading, fetching, resolution), a Bazel-compatible build tool in Rust
(`src/crates`), with the properties TLC checks of it on small instances and the
theorems TLAPS proves of it for every instance.

    tlc -workers 2 -config MCEngineRest.cfg MCEngine     # a run of PROJECT.json
    tlapm EngineProofs.tla                               # a module of proofs

`PROJECT.json` lists the components, the runs, the source lines of every
definition, the hazards, the findings and the theorems.

## The system

A command goes through three phases over one memoised graph (docs/ARCHITECTURE.md):
packages are *loaded* (BUILD and .bzl files, Starlark), targets are *analysed*
(rules, toolchains, transitions, aspects; their result is a graph of actions),
actions are *executed*. Repositories outside the workspace are resolved with
bzlmod and fetched on demand.

| Component | State it keeps | Operations | What is hard | What makes it correct |
|---|---|---|---|---|
| engine, `fjfj-engine/src/lib.rs` | version counter; nodes (Empty, Running, Done with outcome, changed_at, verified_at, dependencies), dirty flags; computations and their waiter counts; wait edges | `get`, `invalidate`, `next_version`; inside: `evaluate_now`, `run`, `Ctx::get`, `wait_on`, drop of `Waiter` and `Waiting` | tasks that join, abandon and abort each other's computations; versions that overlap; cyclic requests; panics | an answer is what computing from nothing gives; one computation per key; waits never close; every request ends |
| slots, `fjfj-exec/src/slots.rs` | free count, heap of waiters by rank and arrival | `acquire`, `release`, drop of the slot or of a waiting future | hand-over in two halves, waiters that gave up | slots are conserved, nobody waits beside a free one, the greatest rank first |
| action scheduler, `fjfj-exec/src/run.rs` | memo of action tasks, `stopped`, failures, counts | `execute`, `Scheduler::run`, `run_now`, `execute_one` | tasks that wait for each other and for slots; the first failure; panics | what an action reads is made; at most --jobs commands; no command begins once stopped; what is not made is reported; the build ends and leaves nothing behind |
| .bzl loader, `fjfj-starlark/src/loader.rs` | a slot per file, the map of waiting threads | `load`, `loaded`, `evaluate` | threads that load files which load each other; entries that outlive their wait | a cycle is found whoever closes it, none is made up, nobody waits forever |
| action cache, `fjfj-exec/src/cache.rs` | entries by primary output: key and digests; saved at the end; per build, the directories noted and the digests found | `key`, `is_current`, `record`, `save`, `load` | directories, failures half way, kills, edits undone | what is current has the bytes the action makes now; a build after a complete one runs only what can have no key |
| sandboxes and execroot, `sandbox.rs`, `execroot.rs` | directories | make, run, collect, clean | what a failed command leaves | outputs of a failure are not taken for a success's |
| repositories, `fjfj-repo/src/lib.rs` | repositories being made and made, marker files | `make`, `lookup`, `ensure_ran` | threads that need each other's repositories; kills between delete, run and mark | a marker stands only over a whole tree, or what an override left of one; no end of a job passes a waiter by (two threads that enter a cycle of repositories from both sides do wait forever, see findings) |
| bzlmod, `fjfj-bzlmod` | module graph, overrides, lockfile | discovery rounds, minimal version selection in two walks, extensions | order independence, fixpoints, several versions of one module | the graph is the least closed one, the selection what the root reaches by the versions that should be chosen |
| protocols of `fjfj-models` (compaction, daemon, publish, disk cache, dynamic) | as modelled there in Stateright | | crashes, clients racing a daemon, two executions racing | as stated in `spec/Fjfj/*.lean`; no implementation in the repository yet |
| analysis, graph data, loading, query, remote encodings, archives, command line, telemetry | values | sequential functions | little | what Bazel gives for the same input |

Interactions: analysis runs as keys of the engine (`fjfj-analysis/src/target.rs`
holds the one `Engine` of a command); the keys of packages call the .bzl loader
from blocking threads; loading may need a repository, which may load .bzl files
in turn; the execution phase gives the analysed actions to the scheduler, whose
tasks share the slots and the action cache.

## Modules

| Module | Models | Uses |
|---|---|---|
| `Slots` | slots.rs | |
| `Build` | what the execution of actions promises (abstract) | |
| `ActionScheduler` | run.rs: `execute`, `Scheduler` | extends `Slots`; implements `Build` |
| `Engine` | fjfj-engine | |
| `BzlLoader` | loader.rs: `loaded`, `evaluate`'s loads | |
| `ActionCache` | cache.rs, and what run.rs and sandbox.rs do to files around it | |
| `Repos` | fjfj-repo: `lookup`, `make`, `link_override`, `ensure_ran`, markers | |
| `ModuleGraph` | fjfj-bzlmod: discovery.rs, selection.rs, `build_overrides` | |
| `SlotsProofs`, `EngineProofs`, `LoaderProofs`, `ActionCacheProofs`, `ReposProofs`, `ModuleGraphProofs` | theorems | the module each is named for, `TLAPS` |
| `EngineFreshProofs` | theorems about the values that the engine gives | extends `EngineProofs` |
| `SchedulerProofs` | theorems about `ActionScheduler` | extends `ActionScheduler`, `SlotsProofs` |
| `MCSlots`, `MCActionScheduler`, `MCEngine`, `MCBzlLoader`, `MCActionCache` and `MCRunfiles` (of `ActionCache`), `MCRepos`, `MCModuleGraph` | instances for TLC | |

An operator whose comment says *Mutant* is a plausible wrong version of the
definition below it; `PROJECT.json` names the property that notices it.

### Engine

An action is one critical section (of a node's `state` lock or of `waits`), one
atomic operation or one read of the world, since another thread may come in
between any two of these. `req[r][k]` is the `evaluate_now` of requester `r`, a
client or a task, for key `k`:

- `look`: about to take the state lock. `LookDone`, `LookRunning` and `LookSpawn`
  are the three outcomes of that critical section.
- `await` and `other`: it polls a shared future, with a `Waiter` or without
  (`AwaitDone`, `OtherDone`).
- `drop`: inside `Drop for Waiter`, before the lock (`DropWaiter`).

`task[t]` is a `Computation` with the locals of its `run`: `VerifyNext` and `Keep`
verify what the node held, `Ask` is `Ctx::get` (all keys of a `get_all` may be
pending together), `Compute` is the return of `compute`, `Write` the end of `run`.
The waiter count is derived (`Waiters`), as are the wait edges (`WaitsOn`: the guard
lives as long as the request).

`AbortHandle::abort` cancels a task at its next await. A task that is pending is
cancelled at once; one that a worker is polling may go on until it next waits
(`abort = "mid"`, with the constant `MidPoll`), so that it may even write its node.

A graph is given by `Wants(k, got)`, the keys `k` asks for once it has read `got`,
and `Outcome(k, got, world)`, so a key may ask for other keys as values change.
Of these `ComputeAssumption` says what the signature of `compute` allows, a function of its key, of
what it has read through its `Ctx` and, for a leaf, of the world: there are finitely many
keys, having read more it wants no less, what it never wanted makes no difference, and
a leaf reads its own entry of the world. `NoneAssumption` says that `None` is not a `Some`.
Left out: `set_data`, the downcast in `typed`, the text of errors.

What the environment does: one change of the world is announced at a time
(`Change`, then the two halves of `invalidate`, `Bump` and `MarkDirty`), and a
computation asks for each key once. `Quiet` says that the world changes and versions move
only while nothing is in flight. This is how the repository uses the engine:
the one user outside of tests, `fjfj-analysis/src/target.rs:44`, makes an
engine per command and never calls `invalidate` or `next_version`.

Without `Quiet` the answers are not what the documentation of the crate says, on `a`
and `top` with two clients and four tasks:

- an evaluation of an older version reads what a newer one computed, although "all
  reads of one evaluation are taken at one version" (lib.rs:14): `NoFutureReads`, run
  `engine_mixed`. Under `Quiet` an evaluation never meets a second version, so the
  property is neither checked nor proved there;
- `invalidate` moves the version (lib.rs:559) before it sets `dirty` (562). A request
  in between keeps the old value at the new version, and a `get` made after
  `invalidate` has returned joins that computation and is given it: `FreshResult`,
  `MCEngineAnnounced.cfg`;
- with a request given up and aborts in the middle of a poll as well, an aborted computation may write
  `Done` over the `Running` of its successor, and the next request then starts a third computation
  beside it (`OneComputation`).

`EngineTypeOK`, `RunningIsHeld`, `WaitsAcyclic` and `RequestsEnd` are checked, and the
first three proved, with the overlap.

### Slots and ActionScheduler

`Slots` has a process per caller of `acquire`: `out`, `queued`, `handed` (the
channel was sent to, the future not polled since), `holding`. The heap keeps the
entries of callers that gave up until `release` pops them, so a caller that came
back has two. `GiveUpIn` says in which states a future may be dropped. In
"handed" the slot is lost, in spite of "A waiter whose future was dropped cannot
take the slot" (slots.rs:93); nothing in the repository drops an `acquire` future,
so the runs and `SlotsAreConserved` exclude this case, by name.

`ActionScheduler` has a task per action. Its places are those where another task
can come in between: `waits` (for the makers of its inputs), `keyed` (the cache
lookup), `slot`, `runs`, `records` (cache entry and counts), `reports` (`stopped` was
swapped, the failure is not pushed yet), `closes` (the slot is dropped), and then
how it ended. That an action fails, hits the cache or panics is a choice, bounded
by `MayFail`, `MayHit`, `MayPanic`; whether --keep_going is given is chosen at the
start (`keepGoing`). What an action does to files is in `ActionCache`.

`Build` knows four states of an action and which failures are reported. The
refinement maps everything up to the decision to run to `todo`, and from there to
the drop of the slot to `busy`, so that at most --jobs commands are busy and none
becomes busy once the build has stopped. Only a command is held back: an action done in the process
that has passed `skip_if_stopped` may still begin, although run.rs:9-10 has a failure stop "the
build from starting any other". A task that panics is lost without a word
(`Die`, of the `Fragile` actions only).

### BzlLoader

A thread has a stack of files it is evaluating and how far each is. The slot's lock
and the lock of `waiting` are held together in the code, so looking at a slot and
walking along `waiting` is one step; setting `Done` and `notify_all` are two.
A woken thread stands in `waiting` until it runs (`Woken`), and may wake for no
reason (`Spurious`). The only error is a cycle; texts, labels, visibility and digests
are left out.

### ActionCache

`disk` is what lies at each path of the execroot; builds follow each other and the
world changes between them (`EditFile`, `EditDef`). In a build an action is
`todo`, then a hit (`ok`), or it goes: `Miss` keeps its key, `Prepare` removes its
outputs, the command fails with anything left at its outputs (`LeftAt`: what was
there, a part, all of it) or succeeds, and `Record` writes the entry. `Save` is the end of
`execute`, `Kill` the end of the process at any other moment. A content stands
for its digest and a key is the record of what the code hashes, so that keys are
equal exactly when those are. A digest or a key that the code has as an `Option` is a set of at
most one element, so that there being none is told apart from every key. What an action makes is the constant operator `Make`.
`faulted` and `quiet` are history variables of the properties.

`Digest` is `None` (the empty set) wherever `digest` is (cache.rs:133-141): nothing is there; a link
leads nowhere (`Dangling`: `metadata` follows links); or a directory has not been noted in this run,
which one among the sources (`Sources \cap Dirs`) never is. What reads one of these has no key: it is
never current, is not recorded, and the directories it makes are not noted, so that their readers
have no key either. `Untold` is the least set of actions closed under this. `UnchangedDoesNotRun`, what
the header of cache.rs says of every action, fails of these (`MCUnchanged.cfg`);
`NullBuildRunsUntold` says that a build after a complete one runs them and nothing else, though what
they make is made anew.

A `RunfilesTree` declares a directory (`Outs`) and makes nothing (`Makes`): the `SymlinkTree` that
declares the link MANIFEST in it fills it, or nobody does under --nobuild_runfile_links (`Unmade`), and
then the `RunfilesTree` too runs in every build, as its output is not there. `Prepare` leaves
the directory alone, as run.rs:697-701 does. A path may be both a link and a directory: a
tree that is a link to another is no tree that `Prepare` makes (run.rs:709-711).

Of a directory the code compares only the key of the entry. So `AsItLeftThem`, what is_current
says of itself (cache.rs:238), holds of plain files (`FilesAreRight`) and, until the first fault, of
directories and links (`DirsAreRight`), and not after it (`MCHalfRemade.cfg`): a directory that a failed or
killed rerun left half made is current again once the edit that caused the rerun is undone. And a runfiles
tree does not stand for what made it: it is noted with the key of the `RunfilesTree`, which stays the same when
another --enable_runfiles makes the `SymlinkTree` fill the tree otherwise (`MCRunfilesLinks.cfg`).

Assumed (`GraphAssumption`): no two actions declare or make one path; an action that fills another's
directory declares only links and is read by that other; the actions, what they read
and which links lead nowhere are the same in every build.

### Repos

A job is a repository being made or an extension being run. A thread is on a
chain of jobs: each needs the next (`caller`, `top`), the first is what the thread was
asked for. `Ask`, `Claim`, `Wait`, `Circular`, `Leave` and `LeaveFailed` are the
critical sections of `make` and `ensure_ran` with the condition variable; the other
actions are the steps of `make_unguarded` between which the process may be killed
(`Restart`, after which another command begins with rules or overrides that may
differ): the marker is removed, the tree deleted, filled by the rule, made known to
the lookups, and the marker created and written. A whole tree is the record of what it was
made from: the rule and attributes and the trees it read.

`link_override` deletes the tree bit by bit and puts a link there, and leaves the marker.
A kill half way leaves a tree (`Torn`) that the next command without the override takes
for whole, since the marker vouches for it; and an override that is gone leaves its
link to be taken. `MarkerIsTrue` and `TakenIsWhole` allow both by name; `TakenIsCurrent` does not
(`MCReposOverride.cfg`).

### ModuleGraph

The module files and the overrides are inputs, enumerated in `Init`. A round
of `discover` reads one horizon after another (`ReadHorizon`), with nodep edges counted
if the last round had a module of their name; `EndRound` decides on another round.
`Visit` is an iteration of `walk`, twice over (`first`, `second`). Dependencies are sets,
versions numbers (two dependencies on one version of a module under different repository names, which
selection.rs:297-311 refuses, are one here), and the order in which a horizon lists its modules appears as a
choice of which missed edges are noted. The assumptions on the inputs are what the code
makes sure of: the root has a module file, a pin is one to a version (discovery.rs:414
leaves the edge alone otherwise), and what an absent file and no failure are written as is neither.
The properties compare with definitions of
their own: the least set closed under dependencies (`Closed`), and the version
a dependency should get (`Chosen`).

## Runs

| Run | Instance | Shows |
|---|---|---|
| `slots` | 4 callers of 3 ranks, 2 slots, 6 arrivals | `SlotsConserved`, `NoLostWaiter`, `GreatestRankFirst` while callers give up and come back |
| `engine_rest` | `a`, `m`, `top`; 1 client, 2 changes or new versions, 1 request given up, aborts in the middle of a poll, `Quiet` | `FreshResult`, `CurrentDeps`, `OneComputation` |
| `engine_overlap` | `a`, `top`; 2 clients, 1 change, 1 request given up or panic, not `Quiet` | `RunningIsHeld`, types |
| `engine_ends` | `x` and `y` need each other; 2 clients, 2 versions, not `Quiet` | `WaitsAcyclic`, `RequestsEnd` |
| `engine_mixed` | `a`, `top`; 2 clients, 1 change or new version, not `Quiet` | violation of `NoFutureReads`, see findings |
| `scheduler` | 6 actions (a write, two compilations of it, a link, a test, one alone), 2 slots, with and without --keep_going, one task may panic | `IsABuild` (the refinement), `NothingLeft`, `LostIsExplained`, `BuildEnds`, types |
| `loader_ring` | 3 threads, a ring of 3 files and a leaf | `CyclesAreFound`, `WalksEnd`, `LoadsEnd`, types |
| `loader_false` | 2 threads, 4 files on no cycle | violation of `NoFalseCycle`, see findings |
| `action_cache` | a source directory, a file made of it, a compilation, a tree, a link to it, a reader that makes an unresolved link, a runfiles tree that is not made, a reader of all that has no digest; 3 builds, 2 edits, any faults | `FilesAreRight`, `DirsAreRight`, `MemoIsCurrent`, `NullBuildRunsUntold`, types |
| `repos` | 2 threads; a module, a repository an extension generates, a ring of two; 3 commands | `MarkerIsTrue`, `TakenIsWhole`, `TakenStays`, `FetchesEnd`, types |
| `repos_stale` | 1 thread, 2 repositories, 2 commands | violation of `TakenIsCurrent`, see findings |
| `module_graph` | 4 modules of up to 3 versions, every choice among 10 edges, 6 sets of overrides | `DiscoveryIsLeast`, `SelectionIsMinimal`, `OneVersionIsSelected`, `SecondWalkSucceeds`, `ResolutionEnds`, types |

More configurations, which are no runs of `PROJECT.json`. All but the last show a violation:

| Configuration | Instance | Violates |
|---|---|---|
| `MCEngineCycleKept.cfg` of `MCEngine` | `x` and `y` need each other while `a` holds 1 | `FreshResult` |
| `MCEngineAnnounced.cfg` of `MCEngine` | as `engine_mixed` | `FreshResult` |
| `MCHalfRemade.cfg` of `MCActionCache` | as `action_cache` | `AsItLeftThem` |
| `MCUnchanged.cfg` of `MCActionCache` | as `action_cache`, 2 builds and no edit | `UnchangedDoesNotRun` |
| `MCRunfilesLinks.cfg` of `MCRunfiles` | a manifest, the tree filled from it, its `RunfilesTree` and a reader; 3 builds, 2 edits | `StandsForWhatMadeIt` |
| `MCReposOverride.cfg` of `MCRepos` | 1 thread, 1 repository that may be overridden, 2 commands | `TakenIsCurrent` |
| `MCReposMutual.cfg` of `MCRepos` | 2 threads that may each ask for `p` or `q`, which need each other | `FetchesEnd` |
| `MCRunfiles.cfg` of `MCRunfiles` | as `MCRunfilesLinks.cfg` | nothing: `NullBuildRunsUntold` holds where one action declares a directory and another fills it |

Why the bounds are enough for what is asked:

- `slots`: more callers than slots, two of one rank (ties by arrival), and two arrivals
  more than callers, so that some come back while their old entries stand in the heap.
- `engine_rest`: two changes take the leaf to another value and back (or leave it alone and
  only move the version), so that a value computed at version 0 is judged at 2 with
  an evaluation in between; `m` stops the change, `top` changes its dependencies with
  the value, and asks for `a` and `m` while `m` asks for `a`, so computations are
  joined. Four tasks are one more than there are keys: an aborted computation and its
  successor exist together. With three TLC runs out of tasks and says so (deadlock).
- `engine_overlap`: two versions and two clients are what it takes for requests of different
  versions to meet at a node, and a fault for a last waiter to go at any moment.
- `engine_ends`: with two keys that need each other, two clients that enter at either end and
  two versions, waits for computations of the other version and refusals mix.
- `scheduler`: diamond, chain, test and an independent command; fewer slots than
  commands that are ready, and a panic that may lose one of two.
- `loader_ring`: as many threads as files on the ring, so each file may have another owner
  and the last to wait has to walk over two entries.
- `action_cache`: an entry of the first build, a second that fails or is killed after an edit, and
  the edit undone before the third is the shortest way for an entry to be older than what it
  speaks of. What changes content is the command line of the compilation; a source is there or
  not (a key treats another content of it like another command line). Each reason for having no key
  occurs, one of them passed on through a directory and not through the file made beside it, which
  has a reader with a key. A link leads to the tree, so that a directory is noted under both.
- `repos`: three commands let one leave a marker, the next override or remake the
  repository and be killed, and the last judge what is left. One thread can enter the
  ring, which it is refused; in `MCReposMutual.cfg` two can.
- `module_graph`: a nodep edge that counts only because another brought in its module takes a
  third round; three versions leave one above the allowed ones and one below the pin.

Symmetry (tasks and clients) is used in the safety runs of the engine only.
`LookSpawn` CHOOSEs a free task; free tasks are alike, so any choice gives the same
state up to renaming. `CHECK_DEADLOCK FALSE` is set where the system may stop (a build that
has returned) or where a liveness property reports what is stuck. TLC evaluates the named
assumptions on the constants in these runs.

### Fairness

- Engine: weak fairness of each request's step and of each task: the tokio runtime polls
  what is ready, and a caller polls what it asked for. Nobody has to ask, cancel or change
  anything; computations end because each has finitely many keys to ask for. A
  command asks finitely often: otherwise a client that asks for a cyclic key again and again can
  keep a request of another version waiting, as each of its computations ends in a
  cycle, leaves the node as it was, and the request finds the next one running.
- Scheduler: weak fairness of each action's steps and of `Return`: commands end, and
  the runtime polls what is ready.
- Loader: weak fairness of each thread; a thread wakes for no reason finitely often.
- Repos: weak fairness of each thread's next step: the threads of the system run, and a
  repository rule ends. Nobody has to restart the command.
- ModuleGraph: weak fairness of the next step; resolution is one sequential call.

A runtime with a single worker that only switches tasks at a pending await is
not modelled; see the hazard at lib.rs:437.

## Theorems

All are proved for every value of the constants that satisfies the named `ASSUME` of
the module, without the bounds TLC needs: any number of keys, clients, tasks,
threads, files, callers, slots, actions, builds, repositories and commands.

| Theorem | States | From |
|---|---|---|
| `SlotsTypes` | `SlotsSpec => []SlotsTypeOK` | `SlotsAssumption` |
| `SlotsAreConserved` | slots are conserved | and `"handed" \notin GiveUpIn` |
| `NobodyWaitsInVain` | `SlotsSpec => []NoLostWaiter`, whoever gives up and whenever | `SlotsAssumption` |
| `GreatestRankIsFirst` | `SlotsSpec => GreatestRankFirst`, an action property | `SlotsAssumption` |
| `SchedulerUsesSlots` | `SchedSpec => SlotsSpec`: the scheduler is a user of the slots | `SchedulerAssumption` |
| `SchedulerTypes` | `SchedSpec => []SchedTypeOK` | `SchedulerAssumption`, `SlotsAssumption` |
| `SchedulerIsABuild` | `SchedSpec => IsABuild`, the refinement of `Build` | the same |
| `SchedulerLeavesNothing` | `SchedSpec => []NothingLeft` | the same |
| `SchedulerExplains` | `SchedSpec => []LostIsExplained` | the same |
| `EngineTypes` | `EngineSpec => []EngineTypeOK` | `EngineAssumption` |
| `EngineWaitsAcyclic` | `EngineSpec => []WaitsAcyclic` | `EngineAssumption` |
| `EngineRunningIsHeld` | `EngineSpec => []RunningIsHeld` | `EngineAssumption` |
| `EngineOneComputation` | `EngineSpec => []OneComputation` | and `Quiet` |
| `EngineFreshResult` | `EngineSpec => []FreshResult` | `EngineAssumption`, `ComputeAssumption`, `NoneAssumption`, `Quiet`, `~MayPanic`, `Acyclic` |
| `EngineCurrentDeps` | `EngineSpec => []CurrentDeps` | the same |
| `LoaderTypes` | `LoaderSpec => []LoaderTypeOK` | `LoaderAssumption` |
| `LoaderWalksEnd` | `LoaderSpec => []WalksEnd` | `LoaderAssumption` |
| `LoaderFindsCycles` | `LoaderSpec => []CyclesAreFound` | `LoaderAssumption` |
| `CacheTypes` | `CacheSpec => []CacheTypeOK` | `GraphAssumption`, `ContentAssumption`, `CacheBounds` |
| `CacheMemo` | `CacheSpec => []MemoIsCurrent` | the same |
| `CacheFilesRight` | `CacheSpec => []FilesAreRight` | the same |
| `CacheDirsRight` | `CacheSpec => []DirsAreRight` | and `Declared`: no action fills a directory that another declares |
| `CacheNullBuild` | `CacheSpec => []NullBuildRunsUntold` | the same as `CacheTypes` |
| `ReposTypes` | `ReposSpec => []ReposTypeOK` | `JobsAssumption` |
| `ReposMarkers` | `ReposSpec => []MarkerIsTrue` | `JobsAssumption` |
| `ReposTaken` | `ReposSpec => []TakenIsWhole` | `JobsAssumption` |
| `ReposStay` | `ReposSpec => TakenStays` | `JobsAssumption` |
| `ResolutionTypes` | `GraphSpec => []GraphTypeOK` | `ModulesAssumption`, `InputsAssumption` |
| `DiscoveryFindsTheLeast` | `GraphSpec => []DiscoveryIsLeast` | the same |
| `SelectionPicksTheLeast` | `GraphSpec => []SelectionIsMinimal` | the same |
| `SelectionIsUnique` | `GraphSpec => []OneVersionIsSelected` | the same |
| `SecondWalkCannotFail` | `GraphSpec => []SecondWalkSucceeds` | the same |

The arguments:

- **Slots.** Conservation is inductive once `Taken` is known to be finite: every step adds,
  removes or moves one element. `NoLostWaiter` is not inductive. `WaiterInv` adds that
  arrivals in the heap lie below `next`, so that a new entry is the latest of its caller,
  and that a free slot means an empty heap, so that nobody queues beside one. The rank of
  who is served is read off `WaiterInv` too: an entry of a caller that waits is its latest, and
  `release` takes the greatest of the entries somebody listens to.
- **Scheduler.** A task touches the slots by `Acquire`, `Woken` and `Release` only, so
  `SlotsConserved` holds of the scheduler, and `NothingLeft` follows from it. `SchedInv` adds
  that a task that passed `waits` has makers that made what it reads (`MakersMade`); which
  places hold a slot (`SlotUse`); why a task is about to return what it returns
  (`Reasons`); that `stopped` and the failures agree up to the task that has swapped the one and
  not pushed the other yet, of which there is one without --keep_going (`Failures`); and that whatever
  is not made has something in its closure that failed, died or was skipped (`Explained`). Under
  `SchedInv` every step is a step of `Build` or a stutter.
- **Engine types.** The types alone are not inductive: what a computation does depends
  on facts about others. `EngineInv` adds that a computation that verifies has something
  to verify (`HasPrevious`), that a free identity has no requests (`FreeIsQuiet`), that the
  task of a running node exists (`RunningHasTask`), and that a client asks for the key of
  its call (`Asking`). Each action has a lemma; those that only answer, end
  or drop requests share `AnswerSound`, `CommitSound` and `BrokenStep`.
- **Engine waits.** Every step but two adds no wait (`NoNewWait`), and fewer waits close no
  cycle. `VerifyNext` and `Ask` add `k -> d` after `reaches` refused to find `k` from `d`. So
  there is a set closed under waits that holds `d` and not `k`. Any set of keys either
  meets it, and then has a sink within it by what held before, or does not, and then
  has the sink it had; if that was `k`, its new wait leads out of the set.
- **Engine: who holds what.** `RunningIsHeld` needs that a request refers to a computation
  of its own key (`RefersToKey`), so that what it drops is what it waited for, and that a
  task which goes no further is in the middle of no drop (`StopsOutsideDrop`), since nobody
  would finish that one. This holds with any overlap of versions.
- **Engine: sharing at rest.** `OneComputation` is false when versions overlap (see
  above), so its theorem assumes `Quiet`, which is how the repository uses the engine. Then all that is
  in flight is of the version there is (`Calm`, `Dated`), and `Shared` says that a computation
  that was not aborted is the one its node holds, or the node has been brought up to date
  by one that was aborted too late to stop; then nobody starts another. A `Running` node is not dirty, so no
  request can find the node stale under a computation that goes on.
- **Engine: fresh values.** The reference is `ScratchIn(w)`, what computing everything anew in
  world `w` gives, defined in rounds that each add the keys all of whose wants are known. The
  rounds are a recursive function, which is shown to exist with the least number principle;
  then rounds only grow, and every key has a set of keys, closed under wants and without it,
  that holds what it wants (`ValuesAre`). The evaluation a node holds, or would go back
  to if its computation is abandoned, is its `Latest`. `FreshInv` says of these (`Kept`) that one verified at the
  current version has the value of its key and dependencies that agree with it (`UpNow`);
  and that one which is not marked dirty is `Explained`: there are outcomes of its dependencies
  that give its own, asked for in that order, and a dependency whose `changed_at` is still the
  one seen still has that outcome. Those outcomes are not part of the state; they are picked
  where they are needed. So while verifying finds no change, what it read is what there is now,
  the next dependency is one that the value really has (`NextIsWanted`), and if none
  changed the evaluation is the value (`NoneChanged`). Since everything that is waited on is wanted
  for the value, no wait closes a cycle (`NoRefusal`), not even of a computation that verifies
  what an older world left. A computation began from the latest evaluation, or another has since
  made one that says the same (`FromLatest`): that is why an aborted computation that was in
  the middle of a poll may write over its successor without moving `changed_at`. A change makes
  one evaluation unexplained, and the flag, or its absence because there was no node, covers exactly
  that one (`AnnouncedKeys`). TLC checks `FreshInv` on the instance of `engine_rest`, and with two clients, five tasks and
  two requests given up on the keys `a` and `top`.

  The three conditions are needed. Without `Quiet` the property is false, see above. A
  computation that panics gives its readers an error instead of a value, and
  what they make of it is memoised without that dependency, as with a refused wait. With a cycle the
  same happens, and lasts: `MCEngineCycleKept.cfg`. `Acyclic` says that in every world
  every key has a value; the graph of `engine_rest` satisfies all three.
- **Loader.** `LoaderInv` adds that a thread that evaluates has a file on its stack. The
  walk along `waiting` ends by the argument of the engine's waits, with the entries of
  threads that were woken and have not run yet among them. For the cycles, `CycleInv` adds
  that a thread owns the files on its stack, each once, that each is loaded by the one below it,
  and that the loads it has passed are ok. A file is set `Done("ok")` when all it loads are, and it
  was not one of those itself, so among files that are ok the first to be loads none of the others
  (`NoOkCycle`); the files of a cycle would be a set that refutes this.
- **Action cache.** `OrderInv` adds the order of a build (whatever makes an input of a busy action is
  done), which keeps remembered digests true: a step changes only outputs of an action that
  is not done. `CacheInv` adds that every entry of an action of plain files, in memory and in the
  file, says for its key what the command makes (`EntriesRight`), which no edit or kill can
  disturb since it speaks of the key and not of the disk; and that an action on its way has the
  key of its inputs as they are (`KeyNow`). A current action then has the digests of the entry,
  and the inputs of its key.
- **Action cache: nothing to do.** `ThereInv` says that what an action that is done makes is on disk, and
  `KeyInv` that an action which is done and can be told has a key, and with it an entry and its directories noted.
  So after a complete build every saved entry of such an action has the key it would get now, where a
  directory counts by the key of its maker's entry; `QuietInv` says that this lasts while nothing is edited,
  and in the next build too, where an untold action makes its outputs anew and, its inputs being the
  same, makes the same. The directories noted so far are the keys of entries, so keys come out the
  same, and each action that is not `Untold` and whose output somebody makes hits.
- **Action cache: directories.** Entries do not say what a directory held. The invariant
  `DirInv` says that until a fault *there is* a memory of what lay on disk when each action ended under
  each key, that agrees with itself (an input directory held what its maker's run left), and of which
  the disk shows everything but what was removed. The memory is not part of the state: it is picked before
  each step and extended by `Record`. TLC cannot check an invariant of this form. The hypothesis
  `Declared` is needed: with a runfiles tree `StandsForWhatMadeIt` fails (`MCRunfilesLinks.cfg`).
- **Repositories.** `ReposInv` adds that the jobs of a thread are a chain of its own
  (`Held`), which makes the caller a job goes back to a node of the same thread; that there is
  no marker from its removal to its writing (`Marks`); and that nobody works on the tree of a
  repository that is handed out, while a rule that has returned has been handed all it
  read (`Makes`). `MarkerIsTrue` follows from `Marks` alone, `TakenIsWhole` needs `Makes` for the
  trees a marker remembers, and `TakenStays` is read off `Makes`.
- **Module graph.** `GraphInv` says that the modules looked at lie within every closed
  set (`Within`: the names of the last round are names of modules within it), that all but the
  horizon have had their edges followed (`Looked`), so that the graph is closed
  when no round made progress; that the first walk has visited what it knows but has not to visit,
  with nothing wrong (`Walked`); and that the second walk goes over what the first found in order
  (`SecondWalk`). That a dependency gets one version needs that `Min` and `Max` of the
  community modules, which CHOOSE, return the least and the greatest of a set of numbers: `MinIsLeast` and
  `MaxIsGreatest`, from the well-foundedness of `<`. TLC checks `GraphInv` on the instance of the run.

Only model-checked:

- `RequestsEnd`, `BuildEnds`, `LoadsEnd`, `FetchesEnd`, `ResolutionEnds`: liveness under fairness
  and ENABLED are out of the prover's reach;
- the runs that expect a violation.

## Findings

Runs that expect a violation of what a comment of the code says:

- **Reads of two versions** (`engine_mixed`, fjfj-engine lib.rs:381). A node that is verified at a later version
  serves requests of an earlier one, which record what they were given: "all reads of one evaluation are
  taken at one version" (lib.rs:14) does not hold when versions overlap.
- **A false cycle** (`loader_false`, loader.rs:507). A thread that was woken stands in
  `waiting` until it runs; a thread it waited for, now waiting for a file it
  evaluates, is refused with a cycle that does not exist, and the error stays in the slot.
- **A repository made from files that are gone** (`repos_stale`, fjfj-repo lib.rs:1628). Recorded
  inputs are compared with the files of other repositories as they lie on disk. If `m` has
  changed and `g`, which reads it, is asked for first, `g` is taken as current, and `m` is
  made again after it. The next command finds out and makes `g` again.

The other configurations show:

- **A cycle error outlives its cycle** (`MCEngineCycleKept.cfg`, fjfj-engine lib.rs:607). `Ctx::get`
  returns `Error::Cycle` before it records the dependency. What a computation makes of it is
  memoised without that edge, verifies as unchanged and is kept when the cycle is gone, although `get` gives
  "The value of `key` at the current version." (lib.rs:569).
- **A change announced and not seen** (`MCEngineAnnounced.cfg`, fjfj-engine lib.rs:559). A request between the two
  halves of `invalidate` keeps the old value, which a `get` after it is given too, although the "next evaluation
  recomputes it" (lib.rs:548). Like the reads of two versions it cannot happen as the repository uses the
  engine today (`Quiet`).
- **A half made directory is current** (`MCHalfRemade.cfg`, cache.rs:257). Of a directory only the key is compared: one
  that a failed or killed rerun left is current once the edit is undone, although "its outputs are as it left
  them" (cache.rs:238).
- **A runfiles tree does not stand for what made it** (`MCRunfilesLinks.cfg`, cache.rs:275), although "a directory
  stands for what made it" (cache.rs:70-71). It is noted with the key of the `RunfilesTree`, not of the `SymlinkTree`
  that fills it, and --enable_runfiles changes only the latter: what reads the tree is not run again.
- **What has no key runs in every build** (`MCUnchanged.cfg`, cache.rs:133), although what has not changed "does not
  run again" (cache.rs:2-3).
- **What an override leaves is taken** (`MCReposOverride.cfg`, fjfj-repo lib.rs:1144). `link_override` deletes the
  tree and leaves its marker; killed half way, it leaves a torn tree that the next command without
  the override takes, although only one "made by an earlier run, from the same rule, attributes and inputs, is not
  made again" (lib.rs:1000-1001).
- **Two threads wait for each other** (`MCReposMutual.cfg`, fjfj-repo lib.rs:911). A cycle of repositories that two
  threads enter from both sides is not refused; each will "wait for the outcome" (lib.rs:910) for ever.

Allowed by name in `LostIsExplained` and listed as a hazard: a task that panics gives a
failure to who awaits it and pushes none to `failures` (run.rs:443), so what was requested is not made
and nothing is reported.

## Not modelled

- The contents of files, command lines, Starlark values, labels, error texts, logs.
- The ranks and the critical path of the scheduler; the layout of sandboxes; edits of sources
  while a build runs; graphs of actions that change from one build to the next.
- Lockfile replay of extensions, repository mappings, yanked versions, the list of
  registries, the parsing and the order of versions.
- Two fjfj processes on one output base: nothing in the repository locks it.
- Everything `PROJECT.json` lists as `not_modelled`, with the reason: sequential parsing,
  encoding and formatting; vendored code (Starlark); generated code; protocols that exist in
  the repository only as models.

## Plan

Done: `Slots`, `Engine`, `Build` and `ActionScheduler`, `BzlLoader`, `ActionCache`, `Repos`,
`ModuleGraph`, and the theorems above.

Next, in this order:

1. Pure algorithms against a reference over small inputs: ranks and critical path
   (run.rs), the order of versions (version.rs), output conflicts (fjfj-graph).
2. Lockfile replay of extensions in `Repos`.
3. The protocols of `fjfj-models` and `spec/Fjfj`, once they have an implementation.
