---- MODULE Repos ----
(* Making repositories on demand (fjfj-repo/src/lib.rs: lookup, make,            *)
(* make_unguarded, link_override, ensure_ran, the marker files) by threads that  *)
(* need each other's repositories, over commands that may be killed at any       *)
(* moment.                                                                       *)
(*                                                                               *)
(* A job is a repository to make or a module extension to run.  A thread works   *)
(* on a job, looks up what its rule needs, and so works on another inside it: a  *)
(* node is a job or, for what a thread was asked for, the thread itself.         *)
(* Left out: lockfile replay of extensions, prints, warnings, mappings.          *)
EXTENDS Naturals
CONSTANTS Threads, Repositories, Extensions,
          Generator,   \* Generator[r]: the extension that generates r, or None
          Loads,       \* Loads[j]: where the .bzl files of its rule are
          Reads,       \* Reads[j]: whose files its rule reads
          Asks,        \* Asks[t]: what thread t is asked for
          MayFail,     \* jobs whose rule may fail
          Local,       \* repositories of rules that are `local'
          Overridable, \* repositories --override_repository may name
          Values,      \* Values[r]: what the rule and attributes of r may be
          None, MaxCommands
VARIABLES owner,   \* State::making and State::running: the thread on a job, or None
          done,    \* State::lookups, and the extensions with repositories in State::generated
          stage,   \* how far the work on a node is
          todo,    \* todo[n]: the repositories it has still to look up
          need,    \* need[n]: the one it is looking up, or None
          caller,  \* caller[j]: the node whose lookup the job is for
          top,     \* top[t]: the node thread t is on
          asleep,  \* threads in Condvar::wait
          src,     \* src[r]: rule, attributes and environment of r
          overridden,
          tree,    \* tree[r]: external/r
          marker,  \* marker[r]: its marker file
          commands
work == <<owner, done, stage, todo, need, caller, top, asleep>>
files == <<tree, marker>>
world == <<src, overridden, commands>>
repoVars == <<work, files, world>>

Jobs == Repositories \cup Extensions
Nodes == Jobs \cup Threads
Stages == {"idle", "load", "check", "link", "linking", "unmark", "wipe", "run",
           "finish", "mark", "marking", "leave", "failed"}
ExtensionStages == {"idle", "load", "run", "leave", "failed"}

ASSUME JobsAssumption ==
  /\ Repositories \cap Extensions = {} /\ Jobs \cap Threads = {} /\ None \notin Nodes
  /\ Generator \in [Repositories -> Extensions \cup {None}]
  /\ Loads \in [Jobs -> SUBSET Repositories] /\ Reads \in [Jobs -> SUBSET Repositories]
  /\ Asks \in [Threads -> SUBSET Repositories]
  /\ MayFail \subseteq Jobs /\ Local \cup Overridable \subseteq Repositories
  /\ (\A r \in Repositories : Values[r] # {}) /\ MaxCommands \in Nat

(* The trees and the markers: a tree is absent, half made, half deleted to make  *)
(* way for an override, a link to a directory of the user's, or whole; a marker  *)
(* is absent, cut short, or says what a whole tree was made of.  What r is made  *)
(* of now: it reads the trees as they are.                                       *)
Absent == [kind |-> "absent"]
Part == [kind |-> "part"]
Torn == [kind |-> "torn"]
Link == [kind |-> "link"]
Whole(r) == [kind |-> "whole", own |-> src[r], read |-> [q \in Reads[r] |-> tree[q]]]
Usable(x) == x.kind \in {"whole", "link", "torn"}

ReposTypeOK ==
  /\ owner \in [Jobs -> Threads \cup {None}] /\ done \subseteq Jobs
  /\ stage \in [Nodes -> Stages] /\ (\A e \in Extensions : stage[e] \in ExtensionStages)
  /\ todo \in [Nodes -> SUBSET Repositories]
  /\ need \in [Nodes -> Repositories \cup {None}] /\ caller \in [Jobs -> Nodes \cup {None}]
  /\ top \in [Threads -> Nodes] /\ asleep \subseteq Threads
  /\ (\A r \in Repositories : src[r] \in Values[r]) /\ overridden \subseteq Overridable
  /\ src = [r \in Repositories |-> src[r]] /\ tree = [r \in Repositories |-> tree[r]]
  /\ marker = [r \in Repositories |-> marker[r]]
  /\ commands \in 0..MaxCommands

(* A process with nothing made; the threads have their questions. *)
Fresh(o, d, s, t, n, c, p, z) ==
  /\ o = [j \in Jobs |-> None] /\ d = {} /\ c = [j \in Jobs |-> None] /\ z = {}
  /\ s = [x \in Nodes |-> IF x \in Threads THEN "run" ELSE "idle"]
  /\ t = [x \in Nodes |-> IF x \in Threads THEN Asks[x] ELSE {}]
  /\ n = [x \in Nodes |-> None] /\ p = [x \in Threads |-> x]

ReposInit ==
  /\ Fresh(owner, done, stage, todo, need, caller, top, asleep)
  /\ src = [r \in Repositories |-> CHOOSE v \in Values[r] : TRUE] /\ overridden = {} /\ commands = 0
  /\ tree = [r \in Repositories |-> Absent] /\ marker = [r \in Repositories |-> Absent]

(* The command ends or is killed, and another starts: what a rule is may have    *)
(* changed, and so may the flags.                                                *)
Restart ==
  /\ commands < MaxCommands /\ commands' = commands + 1
  /\ Fresh(owner', done', stage', todo', need', caller', top', asleep')
  /\ \/ UNCHANGED src
     \/ \E r \in Repositories : \E v \in Values[r] : src' = [src EXCEPT ![r] = v]
  /\ overridden' \in SUBSET Overridable
  /\ UNCHANGED files

-----------------------------------------------------------------------------
(* lookup, make and ensure_ran, each under the state lock. *)

Set(f, x, v) == f' = [f EXCEPT ![x] = v]

(* The job a lookup of r comes to: its extension, until that has run. *)
Wanted(r) == IF Generator[r] \in Extensions \ done THEN Generator[r] ELSE r

(* A label of another repository, or a load from one. *)
Ask(t, r) == LET c == top[t] IN
  /\ stage[c] \in {"load", "run"} /\ need[c] = None /\ r \in todo[c]
  /\ Set(need, c, r)
  /\ UNCHANGED <<owner, done, stage, todo, caller, top, asleep, files, world>>

Got(t) == LET c == top[t] IN
  /\ need[c] \in done /\ t \notin asleep
  /\ Set(need, c, None) /\ Set(todo, c, todo[c] \ {need[c]})
  /\ UNCHANGED <<owner, done, stage, caller, top, asleep, files, world>>

(* Mutant: having waited, it does not look again whether the job is done. *)
WantsBlindly(t) == need[top[t]] # None /\ t \notin asleep
Wants(t) == need[top[t]] # None /\ t \notin asleep /\ Wanted(need[top[t]]) \notin done

(* Nobody is on it: this thread is now. *)
Claim(t) == LET c == top[t]  j == Wanted(need[c]) IN
  /\ Wants(t) /\ owner[j] = None
  /\ Set(owner, j, t) /\ Set(caller, j, c) /\ Set(top, t, j)
  /\ Set(stage, j, IF j \in overridden THEN "link" ELSE "load") /\ Set(todo, j, Loads[j])
  /\ UNCHANGED <<done, need, asleep, files, world>>

Wait(t) ==
  /\ Wants(t) /\ owner[Wanted(need[top[t]])] \notin {None, t}
  /\ asleep' = asleep \cup {t}
  /\ UNCHANGED <<owner, done, stage, todo, need, caller, top, files, world>>

(* An error comes back to node c.  A job whose load, or the label its rule uses,  *)
(* came to nothing fails; a thread goes on to what it is asked for next.         *)
Refused(c, stages) ==
  /\ Set(need, c, None)
  /\ IF c \in Jobs THEN stage' = [stages EXCEPT ![c] = "failed"] /\ Set(todo, c, {})
                   ELSE stage' = stages /\ Set(todo, c, todo[c] \ {need[c]})

(* "Circular definition": needed by the very thread that is making it. *)
Circular(t) ==
  /\ Wants(t) /\ owner[Wanted(need[top[t]])] = t
  /\ Refused(top[t], stage)
  /\ UNCHANGED <<owner, done, caller, top, asleep, files, world>>

(* The end of make and ensure_ran: the job is free, and everyone who waits for   *)
(* anything looks again.                                                         *)
(* Mutant: nobody is told. *)
WakeNone == UNCHANGED asleep
WakeAll == asleep' = {}

Leave(t) == LET c == top[t] IN
  /\ c \in Jobs /\ stage[c] = "leave"
  /\ Set(owner, c, None) /\ Set(stage, c, "idle") /\ Set(top, t, caller[c]) /\ Set(caller, c, None)
  /\ WakeAll /\ UNCHANGED <<done, todo, need, files, world>>

LeaveFailed(t) == LET c == top[t] IN
  /\ c \in Jobs /\ stage[c] = "failed"
  /\ Set(owner, c, None) /\ Set(top, t, caller[c]) /\ Set(caller, c, None)
  /\ Refused(caller[c], [stage EXCEPT ![c] = "idle"])
  /\ WakeAll /\ UNCHANGED <<done, files, world>>

-----------------------------------------------------------------------------
(* make_unguarded and run_extension: what the thread on a job does. *)

At(t, s) == top[t] \in Jobs /\ stage[top[t]] = s /\ need[top[t]] = None /\ todo[top[t]] = {}
Step(t, s) == Set(stage, top[t], s) /\ UNCHANGED <<owner, need, caller, top, asleep, world>>

(* Its rule is loaded.  An extension runs at once. *)
(* Mutant: an extension is looked for on the disk too. *)
LoadedAlike(t) ==
  /\ At(t, "load") /\ Step(t, "check") /\ Set(todo, top[t], {}) /\ UNCHANGED <<done, files>>
Loaded(t) == LET c == top[t] IN
  /\ At(t, "load")
  /\ Step(t, IF c \in Extensions THEN "run" ELSE "check")
  /\ Set(todo, c, IF c \in Extensions THEN Reads[c] ELSE {})
  /\ UNCHANGED <<done, files>>

(* Made by an earlier run from the same rule, attributes and inputs. *)
(* Mutant: a tree that is there will do. *)
MarkerIsCurrentKey(r) == tree[r] # Absent /\ marker[r].kind = "whole"
MarkerIsCurrent(r) == r \notin Local /\ tree[r] # Absent /\ marker[r] = Whole(r)

Found(t) ==
  /\ At(t, "check") /\ MarkerIsCurrent(top[t]) /\ Step(t, "leave")
  /\ done' = done \cup {top[t]} /\ UNCHANGED <<todo, files>>

NotFound(t) ==
  /\ At(t, "check") /\ ~MarkerIsCurrent(top[t]) /\ Step(t, "unmark")
  /\ UNCHANGED <<done, todo, files>>

(* Mutant: the marker stays until the next one is written over it. *)
UnmarkLater(t) ==
  /\ At(t, "unmark") /\ Step(t, "wipe") /\ UNCHANGED <<done, todo, files>>
Unmark(t) ==
  /\ At(t, "unmark") /\ Step(t, "wipe")
  /\ Set(marker, top[t], Absent) /\ UNCHANGED <<done, todo, tree>>

(* The tree is deleted and the rule begins to fill another. *)
Wipe(t) ==
  /\ At(t, "wipe") /\ Step(t, "run")
  /\ Set(tree, top[t], Part) /\ Set(todo, top[t], Reads[top[t]]) /\ UNCHANGED <<done, marker>>

(* The rule has returned. *)
Ran(t) ==
  /\ At(t, "run") /\ top[t] \in Repositories /\ Step(t, "finish")
  /\ Set(tree, top[t], Whole(top[t])) /\ UNCHANGED <<done, todo, marker>>

(* An extension that has run: its repositories are known. *)
RanExtension(t) ==
  /\ At(t, "run") /\ top[t] \in Extensions /\ Step(t, "leave")
  /\ done' = done \cup {top[t]} /\ UNCHANGED <<todo, files>>

(* The rule cannot be loaded or fails, or finish_repo finds no repository there. *)
Fails(t) ==
  /\ At(t, "load") \/ At(t, "run") \/ At(t, "finish") \/ (At(t, "check") /\ MarkerIsCurrent(top[t]))
  /\ top[t] \in MayFail /\ Step(t, "failed") /\ UNCHANGED <<done, todo, files>>

(* finish_repo: the repository is known to the lookups.  It gets no marker if an  *)
(* input of it cannot be checked again.                                          *)
Finish(t) ==
  /\ At(t, "finish")
  /\ \E s \in {"leave", "mark"} : (top[t] \in Local => s = "leave") /\ Step(t, s)
  /\ done' = done \cup {top[t]} /\ UNCHANGED <<todo, files>>

(* write_marker: the file is created, and filled. *)
OpenMarker(t) ==
  /\ At(t, "mark") /\ Step(t, "marking")
  /\ Set(marker, top[t], Part) /\ UNCHANGED <<done, todo, tree>>

WriteMarker(t) ==
  /\ At(t, "marking") /\ Step(t, "leave")
  /\ Set(marker, top[t], tree[top[t]]) /\ UNCHANGED <<done, todo, tree>>

(* link_override: unless there is nothing to link to, the tree is deleted, a link *)
(* at a blow and a directory bit by bit; nothing is said of the marker.          *)
ClearForLink(t) == LET c == top[t] IN
  /\ c \in Jobs /\ stage[c] = "link" /\ Set(todo, c, {}) /\ UNCHANGED <<done, marker>>
  /\ \/ /\ Step(t, "linking")
        /\ \E left \in {Absent, Torn} :
             (left = Torn => tree[c] \notin {Absent, Link}) /\ Set(tree, c, left)
     \/ c \in MayFail /\ Step(t, "failed") /\ UNCHANGED tree

(* The link is made; it may lead to no repository. *)
LinkOverride(t) == LET c == top[t] IN
  /\ At(t, "linking") /\ Set(tree, c, Link) /\ UNCHANGED <<todo, marker>>
  /\ \/ Step(t, "leave") /\ done' = done \cup {c}
     \/ c \in MayFail /\ Step(t, "failed") /\ UNCHANGED done

Move(t) ==
  \/ \E r \in Repositories : Ask(t, r)
  \/ Got(t) \/ Claim(t) \/ Wait(t) \/ Leave(t) \/ Circular(t) \/ LeaveFailed(t)
  \/ Loaded(t) \/ Found(t) \/ NotFound(t) \/ Unmark(t) \/ Wipe(t) \/ Ran(t)
  \/ RanExtension(t) \/ Fails(t) \/ Finish(t) \/ OpenMarker(t) \/ WriteMarker(t)
  \/ ClearForLink(t) \/ LinkOverride(t)

ReposNext == Restart \/ \E t \in Threads : Move(t)
ReposSpec == ReposInit /\ [][ReposNext]_repoVars

(* A thread that is not waiting goes on, and a rule ends. *)
ReposFairSpec == ReposSpec /\ \A t \in Threads : WF_repoVars(Move(t))

-----------------------------------------------------------------------------
(* A marker stands only over the tree it speaks of, whole, wherever a command    *)
(* was killed, unless an override deleted that or put a link in its place        *)
(* (lib.rs:1016, lib.rs:1144).                                                   *)
MarkerIsTrue == \A r \in Repositories :
  marker[r].kind = "whole" => tree[r] \in {marker[r], Absent, Torn, Link}

(* What the lookups hand out was made by the rule and the attributes of this     *)
(* command from trees that were whole, and is so itself.  It may also be a link, *)
(* or what is left of a whole tree that an override was deleting when it was     *)
(* killed: the marker vouches for both.                                          *)
TakenIsWhole == \A r \in done \cap Repositories : tree[r] \in {Link, Torn} \/
  (tree[r].kind = "whole" /\ tree[r].own = src[r] /\ \A q \in Reads[r] : Usable(tree[r].read[q]))

(* What has been handed out is not taken away or changed while the command lives. *)
TakenStays == [][\A r \in done \cap Repositories : tree'[r] = tree[r] \/ commands' # commands]_repoVars

(* "Another thread is on it: wait for the outcome" (lib.rs:910): every thread    *)
(* gets its answers, and no end of a making is slept through.  It holds where no *)
(* two threads enter a cycle of repositories from different sides: then each     *)
(* makes one and waits for the other's, as only a repository needed by its own   *)
(* thread is refused.                                                            *)
FetchesEnd == <>[](\A t \in Threads : todo[t] = {})

(* "A repository made by an earlier run, from the same rule, attributes and      *)
(* inputs, is not made again" (lib.rs:1000): what is handed out is what its rule *)
(* would make of what is handed out.  Not so: its inputs are compared with the   *)
(* files of other repositories as they lie on the disk, and those may be remade  *)
(* afterwards; and a link that an override put in its place is taken for it when *)
(* the override is gone, as the marker has stayed.                               *)
TakenIsCurrent == \A r \in done \cap Repositories :
  r \in overridden \/ (\E q \in Reads[r] : q \notin done) \/ tree[r] = Whole(r)
====
