---- MODULE ActionCache ----
(* The action cache of fjfj-exec (cache.rs) over a file system, and what the     *)
(* scheduler does to files around it (run.rs: run_now, prepare, after_run,       *)
(* outputs_made; sandbox.rs: collect).  Builds follow each other; sources and    *)
(* definitions change between them; a command may fail and a build may be killed *)
(* half way.                                                                     *)
(*                                                                               *)
(* A file's digest is its content: `files` remembers a digest by modification    *)
(* time and size, and content that changed is taken to change one of the two.    *)
(* A key is what it hashes.  A digest or a key is a set of at most one: the      *)
(* empty one is None, which `key' returns if an input cannot be told.  The entry *)
(* of an action stands under its first output; no two actions make one output,   *)
(* so it stands under the action here.  What is at a link is what it leads to.   *)
(* Durations, means and the volatile status file are left out.                   *)
(*                                                                               *)
(* A RunfilesTree declares a directory that a SymlinkTree fills, whose own       *)
(* output is the link MANIFEST in it; under --nobuild_runfile_links nobody does. *)
EXTENDS Naturals, FiniteSets
CONSTANTS Sources, Actions,
          Ins, Outs,        \* what an action reads, and the outputs it declares
          Makes,            \* what it makes of these and of what a RunfilesTree declares
          Dirs, Links,      \* the directories, or links to one, and the symlinks
          Dangling,         \* the links that lead nowhere
          Trees,            \* the directories declared as trees: prepare makes them
          Defs,             \* Defs[a]: command lines and environments a may have
          Contents, Values, \* of any path, and of a source
          Absent, Partial,  \* nothing, and something no action makes
          Make(_, _, _, _), \* what action a of definition d makes of `got' at output o
          MaxBuilds, MaxChanges
VARIABLES disk,    \* disk[p]: what is at a path of the execroot
          def,     \* def[a]: the definition analysis gives the action now
          saved,   \* the entries in the cache file
          entry,   \* State::actions of the running build
          dirs,    \* the directories noted this run, with the key that made them
          inputs,  \* the digests that keys of this run were made from
          act,     \* act[a]: where the action is in this build
          key,     \* key[a]: the key it is going to run with
          builds, changes,
          faulted, \* history: a command has failed or a build was killed
          quiet    \* history: the last build made everything and nothing changed since
cacheVars == <<disk, def, saved, entry, dirs, inputs, act, key, builds, changes,
               faulted, quiet>>

NoDigest == {}
NoKey == {}
NoEntry == [key |-> NoKey, out |-> Absent]
Outputs == UNION {Outs[a] : a \in Actions}
Paths == Sources \cup Outputs

ASSUME GraphAssumption ==
  /\ Ins \in [Actions -> SUBSET Paths] /\ Outs \in [Actions -> SUBSET Outputs]
  /\ Makes \in [Actions -> SUBSET Outputs]
  /\ \A a \in Actions : Outs[a] # {} /\ (Outs[a] \cup Makes[a]) \cap Ins[a] = {}
  /\ \A a, b \in Actions : a # b => Outs[a] \cap Outs[b] = {} /\ Makes[a] \cap Makes[b] = {}
  /\ \A a \in Actions : Outs[a] \subseteq Makes[a] \/ (Makes[a] = {} /\ Outs[a] \subseteq Dirs)
  /\ \A a, b \in Actions : a # b /\ Makes[a] \cap Outs[b] # {} =>
        Makes[b] = {} /\ Outs[a] \subseteq Ins[b] \cap Links
  /\ Sources \cap Outputs = {}
  /\ Trees \subseteq Dirs \cap Outputs /\ Trees \cap Links = {}
  /\ Dirs \subseteq Paths /\ Links \subseteq Outputs /\ Dangling \subseteq Links \ Dirs
ASSUME ContentAssumption ==
  /\ Values \subseteq Contents \ {Absent, Partial}
  /\ {Absent, Partial} \subseteq Contents /\ Absent # Partial
  /\ \A a \in Actions : \A d \in Defs[a] : \A got \in [Ins[a] -> Contents] : \A o \in Makes[a] :
        Make(a, d, got, o) \in Contents \ {Absent, Partial}
ASSUME CacheBounds == MaxBuilds \in Nat /\ MaxChanges \in Nat

(* What the action makes now of what is on disk now. *)
Whole(a, o) == Make(a, def[a], [i \in Ins[a] |-> disk[i]], o)

Idle == {"todo", "ok", "failed"}
building == \E a \in Actions : act[a] # "off"

CacheTypeOK ==
  /\ disk \in [Paths -> Contents] /\ DOMAIN def = Actions /\ \A a \in Actions : def[a] \in Defs[a]
  /\ act \in [Actions -> Idle \cup {"off", "go", "running", "made"}]
  /\ DOMAIN saved = Actions /\ DOMAIN entry = Actions /\ DOMAIN key = Actions
  /\ DOMAIN dirs = Dirs /\ DOMAIN inputs = Paths
  /\ builds \in 0..MaxBuilds /\ changes \in 0..MaxChanges
  /\ faulted \in BOOLEAN /\ quiet \in BOOLEAN

Nothing(S) == [x \in S |-> {}]

Empty == [a \in Actions |-> NoEntry]

(* An empty output base: no cache file, no output. *)
CacheInit ==
  /\ \E of \in [Sources -> Values] :
       disk = [p \in Paths |-> IF p \in Outputs THEN Absent ELSE of[p]]
  /\ def \in {f \in [Actions -> UNION {Defs[a] : a \in Actions}] : \A a \in Actions : f[a] \in Defs[a]}
  /\ saved = Empty /\ entry = Empty
  /\ dirs = Nothing(Dirs) /\ inputs = Nothing(Paths)
  /\ act = [a \in Actions |-> "off"] /\ key = Nothing(Actions)
  /\ builds = 0 /\ changes = 0 /\ faulted = FALSE /\ quiet = FALSE

(* The process is gone, and what it knew with it. *)
Gone ==
  /\ act' = [a \in Actions |-> "off"] /\ entry' = Empty
  /\ dirs' = Nothing(Dirs) /\ inputs' = Nothing(Paths) /\ key' = Nothing(Actions)

-----------------------------------------------------------------------------
(* Between builds. *)

Change ==
  /\ ~building /\ changes < MaxChanges /\ changes' = changes + 1 /\ quiet' = FALSE
  /\ UNCHANGED <<saved, entry, dirs, inputs, act, key, builds, faulted>>

(* The link that a SymlinkTree declares lies in the directory it fills. *)
Inside(p) == UNION {Outs[a] : a \in {b \in Actions : p \in Makes[b] \ Outs[b]}}

(* A source is edited, made or removed; an output is removed with what is in it, *)
(* or a file among them overwritten.                                             *)
EditFile(p, v) ==
  /\ Change /\ v # disk[p]
  /\ disk' = [q \in Paths |-> IF q = p \/ (v = Absent /\ q \in Inside(p)) THEN v ELSE disk[q]]
  /\ UNCHANGED def

(* A BUILD file or a flag changed: the action has another command line. *)
EditDef(a, d) ==
  /\ Change /\ d # def[a] /\ def' = [def EXCEPT ![a] = d] /\ UNCHANGED disk

(* execute: the cache is loaded, empty if the file is not one; `dirs' and        *)
(* `inputs' are a run's own.                                                     *)
Load(lost) ==
  /\ ~building /\ builds < MaxBuilds /\ builds' = builds + 1
  /\ entry' = IF lost THEN Empty ELSE saved
  /\ quiet' = (quiet /\ ~lost)
  /\ act' = [a \in Actions |-> "todo"]
  /\ UNCHANGED <<disk, def, saved, dirs, inputs, key, changes, faulted>>

(* The end of execute: no task is left, and the cache is written beside its file *)
(* and renamed over it.                                                          *)
Save ==
  /\ building /\ \A a \in Actions : act[a] \in Idle
  /\ saved' = entry /\ Gone
  /\ quiet' = (\A a \in Actions : act[a] = "ok")
  /\ UNCHANGED <<disk, def, builds, changes, faulted>>

-----------------------------------------------------------------------------
(* Keys. *)

(* Mutant: one directory is as good as another. *)
DigestKind(p) == IF disk[p] = Absent \/ p \in Dangling THEN NoDigest
                 ELSE IF p \in Dirs THEN {"directory"} ELSE {disk[p]}
(* What a key takes of a path.  None of what is not there, as metadata sees it,  *)
(* which follows links, and of a directory that nobody noted in this run, as     *)
(* nobody does of one among the sources.                                         *)
Digest(p) == IF disk[p] = Absent \/ p \in Dangling THEN NoDigest
             ELSE IF p \in Dirs THEN dirs[p] ELSE {disk[p]}

(* Mutant: only the last ones are kept. *)
NoteDirsOver(a, k) == [p \in Dirs \cap Outs[a] |-> k]
(* Mutant: nothing is noted. *)
NoteDirsNot(a, k) == dirs
NoteDirs(a, k) ==
  [p \in Dirs |-> IF p \in Outs[a] /\ disk[p] # Absent THEN k ELSE dirs[p]]

(* input_fragment: found once in a run. *)
Fragment(p) == IF inputs[p] # NoDigest THEN inputs[p] ELSE Digest(p)

KeyOf(a) ==
  IF \E i \in Ins[a] : Fragment(i) = NoDigest THEN NoKey
  ELSE {[def |-> def[a], in |-> [i \in Ins[a] |-> Fragment(i)]]}

(* What an entry says of an output: of a directory and of a link only what they  *)
(* are, and of a directory which key it goes with.                               *)
Seen(p, k) == IF disk[p] = Absent THEN <<>> ELSE IF p \in Links THEN "symlink"
              ELSE IF p \in Dirs THEN <<"directory", k>> ELSE disk[p]

(* Mutant: that they are there is enough. *)
IsCurrentIfThere(a, k) ==
  k # NoKey /\ entry[a].key = k /\ \A o \in Outs[a] : disk[o] # Absent
(* Mutant: a link that leads nowhere is not there. *)
IsCurrentFollows(a, k) ==
  /\ k # NoKey /\ entry[a].key = k
  /\ \A o \in Outs[a] : disk[o] # Absent /\ o \notin Dangling /\ entry[a].out[o] = Seen(o, k)
IsCurrent(a, k) ==
  /\ k # NoKey /\ entry[a].key = k
  /\ \A o \in Outs[a] : disk[o] # Absent /\ entry[a].out[o] = Seen(o, k)

(* run_now awaits whatever makes an input. *)
(* Mutant: it starts beside them. *)
ReadyAtOnce(a) == act[a] = "todo"
Ready(a) == act[a] = "todo"
            /\ \A b \in Actions : Ins[a] \cap Outs[b] # {} => act[b] = "ok"

Keyed(a) == inputs' = [p \in Paths |-> IF p \in Ins[a] THEN Fragment(p) ELSE inputs[p]]

Hit(a) ==
  /\ Ready(a) /\ IsCurrent(a, KeyOf(a)) /\ Keyed(a)
  /\ dirs' = NoteDirs(a, KeyOf(a)) /\ act' = [act EXCEPT ![a] = "ok"]
  /\ UNCHANGED <<disk, def, saved, entry, key, builds, changes, faulted, quiet>>

Miss(a) ==
  /\ Ready(a) /\ ~IsCurrent(a, KeyOf(a)) /\ Keyed(a)
  /\ key' = [key EXCEPT ![a] = KeyOf(a)] /\ act' = [act EXCEPT ![a] = "go"]
  /\ UNCHANGED <<disk, def, saved, entry, dirs, builds, changes, faulted, quiet>>

-----------------------------------------------------------------------------
(* Execution. *)

Fault(a) == act' = [act EXCEPT ![a] = "failed"] /\ faulted' = TRUE /\ quiet' = FALSE

(* It got its slot after another action had failed. *)
Skip(a) ==
  /\ act[a] = "go" /\ \E b \in Actions : act[b] = "failed"
  /\ act' = [act EXCEPT ![a] = "failed"] /\ quiet' = FALSE
  /\ UNCHANGED <<disk, def, saved, entry, dirs, inputs, key, builds, changes, faulted>>

(* prepare: outputs of earlier runs are removed, but not the directory of a      *)
(* RunfilesTree, which a SymlinkTree makes anew; a tree exists, empty, before    *)
(* the command fills it, unless it is to be a link to one.                       *)
Missing(a) == \E i \in Ins[a] \cap Sources : disk[i] = Absent

Prepare(a) ==
  /\ act[a] = "go" /\ ~Missing(a) /\ act' = [act EXCEPT ![a] = "running"]
  /\ disk' = [p \in Paths |-> IF p \notin Makes[a] THEN disk[p]
                              ELSE IF p \in Trees \/ p \notin Outs[a] THEN Partial ELSE Absent]
  /\ UNCHANGED <<def, saved, entry, dirs, inputs, key, builds, changes, faulted, quiet>>

PrepareFails(a) ==
  /\ act[a] = "go" /\ Missing(a) /\ Fault(a)
  /\ UNCHANGED <<disk, def, saved, entry, dirs, inputs, key, builds, changes>>

(* What a command that did not end well leaves at output o: what was there, part *)
(* of it or all of it.  A command in the execroot wrote it there itself; out of  *)
(* a sandbox after_run collects it before it looks at the exit status.           *)
LeftAt(a, o) == {disk[o], Partial, Whole(a, o)}

(* An exit status, a signal, a timeout, or an output that outputs_made misses; it *)
(* misses none of a RunfilesTree, which runs nothing.                            *)
Fail(a, left) ==
  /\ act[a] = "running" /\ Makes[a] # {} /\ \A o \in Makes[a] : left[o] \in LeftAt(a, o)
  /\ Fault(a)
  /\ disk' = [p \in Paths |-> IF p \in Makes[a] THEN left[p] ELSE disk[p]]
  /\ UNCHANGED <<def, saved, entry, dirs, inputs, key, builds, changes>>

Succeed(a) ==
  /\ act[a] = "running" /\ act' = [act EXCEPT ![a] = "made"]
  /\ disk' = [p \in Paths |-> IF p \in Makes[a] THEN Whole(a, p) ELSE disk[p]]
  /\ UNCHANGED <<def, saved, entry, dirs, inputs, key, builds, changes, faulted, quiet>>

Record(a) ==
  /\ act[a] = "made" /\ act' = [act EXCEPT ![a] = "ok"]
  /\ IF key[a] = NoKey THEN UNCHANGED <<dirs, entry>>
     ELSE /\ dirs' = NoteDirs(a, key[a])
          /\ entry' = [entry EXCEPT ![a] = [key |-> key[a],
                                            out |-> [o \in Outs[a] |-> Seen(o, key[a])]]]
  /\ UNCHANGED <<disk, def, saved, inputs, key, builds, changes, faulted, quiet>>

Running == UNION {Makes[a] : a \in {b \in Actions : act[b] = "running"}}

(* The process ends at any moment, and its commands with it. *)
Kill(left) ==
  /\ building
  /\ \A a \in Actions : act[a] = "running" => \A o \in Makes[a] : left[o] \in LeftAt(a, o)
  /\ disk' = [p \in Paths |-> IF p \in Running THEN left[p] ELSE disk[p]]
  /\ Gone /\ faulted' = TRUE /\ quiet' = FALSE
  /\ UNCHANGED <<def, saved, builds, changes>>

CacheNext ==
  \/ \E p \in Sources, v \in Values \cup {Absent} : EditFile(p, v)
  \/ \E p \in Outputs : EditFile(p, Absent)
  \/ \E p \in Outputs \ (Dirs \cup Links) : EditFile(p, Partial)
  \/ \E a \in Actions : \E d \in Defs[a] : EditDef(a, d)
  \/ \E lost \in BOOLEAN : Load(lost)
  \/ Save
  \/ \E a \in Actions : \/ Hit(a) \/ Miss(a) \/ Skip(a) \/ Prepare(a) \/ PrepareFails(a)
                        \/ Succeed(a) \/ Record(a)
                        \/ \E left \in [Makes[a] -> Contents] : Fail(a, left)
  \/ \E left \in [Running -> Contents] : Kill(left)

CacheSpec == CacheInit /\ [][CacheNext]_cacheVars

-----------------------------------------------------------------------------
Right(a) == \A o \in Makes[a] : disk[o] = Whole(a, o)
Plain(a) == Outs[a] \cap (Dirs \cup Links) = {} /\ Ins[a] \cap Dirs = {}

(* What `is_current' says of an action (cache.rs:238): it ran with this key and  *)
(* its outputs are as it left them, so they are what its command makes of its    *)
(* inputs now.  It does not hold of directories and links, of which only the kind *)
(* is looked at: after a command that failed half way, or a kill, and the edit   *)
(* undone, a directory of another making is current.  Below, where it does hold. *)
AsItLeftThem == \A a \in Actions : act[a] = "ok" => Right(a)

(* It holds of every action that makes and reads files, whatever failed and      *)
(* whenever a build was killed, edited and undone before: entries in the file    *)
(* may be older than the outputs they speak of.                                  *)
FilesAreRight == \A a \in Actions : act[a] = "ok" /\ Plain(a) => Right(a)

(* It holds of directories and links as well until the first fault, if whoever   *)
(* makes a directory declares it.                                                *)
DirsAreRight == faulted \/ AsItLeftThem

(* `A directory stands for what made it' (cache.rs:71), so that nothing that     *)
(* reads one is taken as current when another is there.  It does not hold of a   *)
(* runfiles tree, which is noted with the key of the RunfilesTree: its           *)
(* SymlinkTree may make another one beside the same manifest.                    *)
StandsForWhatMadeIt ==
  faulted \/ \A a \in Actions : act[a] = "ok" /\ Ins[a] \cap Dirs # {} => Right(a)

(* `An input is read after what makes it has finished, so it does not change     *)
(* again' (cache.rs:74): a digest remembered in this run is what would be found. *)
MemoIsCurrent == building => \A p \in Paths : inputs[p] # NoDigest => inputs[p] = Digest(p)

(* The paths that have no digest whatever happens, and the actions that have no  *)
(* key for it: what reads such a path, and what reads a directory made by an     *)
(* action without a key, which notes none.                                       *)
Unmade == Outputs \ UNION {Makes[a] : a \in Actions}
Blind == (Sources \cap Dirs) \cup Dangling \cup Unmade
Closed(T) == \A a \in Actions : 
  (\E i \in Ins[a] : i \in Blind \/ \E b \in T : i \in Dirs \cap Outs[b]) => a \in T
Untold == {a \in Actions : \A T \in SUBSET Actions : Closed(T) => a \in T}

Working(a) == act[a] \in {"go", "running", "made"}

(* `An action whose command and inputs have not changed, and whose outputs are   *)
(* still there, does not run again' (cache.rs:2-3).  It does not hold of what    *)
(* has no key: it reads a directory among the sources, a link that leads nowhere *)
(* or a runfiles tree that is not made, or a directory made of these.            *)
UnchangedDoesNotRun ==
  quiet => \A a \in Actions : act[a] = "go" => \E o \in Outs[a] : disk[o] = Absent

(* A build that made everything leaves the next nothing to do but for these and  *)
(* the runfiles trees that are not made: what reads their files is still current, *)
(* though they were made anew.                                                   *)
NullBuildRunsUntold ==
  quiet => \A a \in Actions : Working(a) => a \in Untold \/ Outs[a] \cap Unmade # {}
====
