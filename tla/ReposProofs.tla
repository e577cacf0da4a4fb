---- MODULE ReposProofs ----
(* Proofs about the making of repositories: its types, the truth of its markers, *)
(* and that what is handed out is whole and stays.                               *)
EXTENDS Repos, TLAPS

Of(n) == IF n \in Threads THEN n ELSE owner[n]

(* The nodes a thread is on are its own, a chain from the thread itself to the   *)
(* job it works on: no two have the same caller, and nothing is called by the    *)
(* last.                                                                         *)
Held ==
  /\ \A t \in Threads : Of(top[t]) = t
  /\ \A j \in Jobs : owner[j] # None => caller[j] \in Nodes /\ Of(caller[j]) = owner[j]
  /\ \A j, k \in Jobs : owner[j] # None /\ owner[k] # None /\ caller[j] = caller[k] => j = k
  /\ \A j \in Jobs, t \in Threads : owner[j] # None => caller[j] # top[t]

(* While the tree is unlike the last one, there is no marker or half of one. *)
Marks == \A r \in Repositories :
  /\ stage[r] \in {"wipe", "run", "finish", "mark"} => marker[r] = Absent
  /\ stage[r] = "marking" => marker[r] = Part

Good(r) == tree[r].kind = "whole" /\ tree[r].own = src[r] /\ \A q \in Reads[r] : Usable(tree[r].read[q])

(* Nobody works on the tree of a repository that is handed out; a rule that runs *)
(* has been given what it read.                                                  *)
Makes == \A r \in Repositories :
  /\ r \in done => stage[r] \in {"idle", "mark", "marking", "leave", "failed"}
  /\ stage[r] \in {"mark", "marking"} => r \in done
  /\ stage[r] = "run" => Reads[r] \subseteq todo[r] \cup done
  /\ stage[r] = "finish" => Good(r)
  /\ marker[r].kind = "whole" => \A q \in Reads[r] : Usable(marker[r].read[q])

-----------------------------------------------------------------------------
(* The invariant holds at first. *)
LEMMA InitInv == ReposInit => ReposTypeOK /\ Held /\ Marks /\ Makes /\ MarkerIsTrue /\ TakenIsWhole
<1> SUFFICES ASSUME ReposInit PROVE ReposTypeOK /\ Held /\ Marks /\ Makes /\ MarkerIsTrue /\ TakenIsWhole
  OBVIOUS
<1> USE JobsAssumption DEF ReposInit, Fresh, Jobs, Nodes
<1>1. ReposTypeOK BY DEF ReposTypeOK, Stages, ExtensionStages
<1>2. Held BY DEF Held, Of
<1>3. Marks BY DEF Marks, Absent
<1>4. Makes /\ MarkerIsTrue /\ TakenIsWhole BY DEF Makes, MarkerIsTrue, TakenIsWhole, Absent
<1> QED BY <1>1, <1>2, <1>3, <1>4

(* The job a lookup comes to is one. *)
LEMMA WantedIsAJob ==
  ASSUME NEW r \in Repositories PROVE Wanted(r) \in Jobs
BY JobsAssumption DEF Wanted, Jobs

(* A restart keeps the types. *)
LEMMA RestartTypes == ReposTypeOK /\ Restart => ReposTypeOK'
<1> SUFFICES ASSUME ReposTypeOK, Restart PROVE ReposTypeOK'
  OBVIOUS
<1> USE JobsAssumption DEF Restart, Fresh, files
<1>1. /\ owner' \in [Jobs -> Threads \cup {None}] /\ done' \subseteq Jobs
      /\ stage' \in [Nodes -> Stages] /\ (\A e \in Extensions : stage'[e] \in ExtensionStages)
      /\ todo' \in [Nodes -> SUBSET Repositories]
      /\ need' \in [Nodes -> Repositories \cup {None}] /\ caller' \in [Jobs -> Nodes \cup {None}]
      /\ top' \in [Threads -> Nodes] /\ asleep' \subseteq Threads
  BY DEF Jobs, Nodes, Stages, ExtensionStages
<1>2. commands' \in 0..MaxCommands
  BY DEF ReposTypeOK
<1>3. (\A r \in Repositories : src'[r] \in Values[r]) /\ src' = [r \in Repositories |-> src'[r]]
  BY DEF ReposTypeOK
<1>4. overridden' \subseteq Overridable /\ UNCHANGED <<tree, marker>>
  OBVIOUS
<1> QED BY <1>1, <1>2, <1>3, <1>4 DEF ReposTypeOK

(* A function over the repositories stays one when it is changed at a point. *)
LEMMA ExceptIsAFunction ==
  ASSUME NEW f, f = [r \in Repositories |-> f[r]], NEW x, NEW v
  PROVE  [f EXCEPT ![x] = v] = [r \in Repositories |-> [f EXCEPT ![x] = v][r]]
OBVIOUS

(* A thread changes the files of one repository at a time. *)
LEMMA MoveFiles ==
  ASSUME ReposTypeOK, NEW t \in Threads, Move(t)
  PROVE  /\ tree' = [r \in Repositories |-> tree'[r]] /\ marker' = [r \in Repositories |-> marker'[r]]
         /\ UNCHANGED world
<1>1. tree = [r \in Repositories |-> tree[r]] /\ marker = [r \in Repositories |-> marker[r]]
  BY DEF ReposTypeOK
<1>2. /\ UNCHANGED tree \/ \E v : tree' = [tree EXCEPT ![top[t]] = v]
      /\ UNCHANGED marker \/ \E v : marker' = [marker EXCEPT ![top[t]] = v]
      /\ UNCHANGED world
  BY DEF Move, Ask, Got, Claim, Wait, Leave, Circular, LeaveFailed, Loaded, Found, NotFound, Unmark,
     At, Wipe, Ran, RanExtension, Fails, Finish, OpenMarker, WriteMarker, ClearForLink, LinkOverride, files, Set, Step
<1> QED BY <1>1, <1>2, ExceptIsAFunction

(* A step of a thread keeps the types. *)
LEMMA MoveTypes ==
  ASSUME ReposTypeOK, Held, NEW t \in Threads, Move(t) PROVE ReposTypeOK'
<1> USE JobsAssumption
<1> DEFINE Work ==
  /\ owner \in [Jobs -> Threads \cup {None}] /\ done \subseteq Jobs
  /\ stage \in [Nodes -> Stages] /\ (\A e \in Extensions : stage[e] \in ExtensionStages)
  /\ todo \in [Nodes -> SUBSET Repositories]
  /\ need \in [Nodes -> Repositories \cup {None}] /\ caller \in [Jobs -> Nodes \cup {None}]
  /\ top \in [Threads -> Nodes] /\ asleep \subseteq Threads
<1>1. SUFFICES Work'
  BY MoveFiles DEF ReposTypeOK, world
<1>2. top[t] \in Nodes /\ (top[t] \in Jobs => caller[top[t]] \in Nodes)
  BY DEF ReposTypeOK, Held, Of, Nodes, Jobs
<1>3. need[top[t]] # None => Wanted(need[top[t]]) \in Jobs
  BY <1>2, WantedIsAJob DEF ReposTypeOK
<1>4. Work /\ overridden \subseteq Repositories
  BY DEF ReposTypeOK
<1>5. ASSUME NEW c \in Nodes, NEW s, s \in [Nodes -> Stages], Refused(c, s),
             \A e \in Extensions : s[e] \in ExtensionStages
      PROVE  /\ stage' \in [Nodes -> Stages] /\ (\A e \in Extensions : stage'[e] \in ExtensionStages)
             /\ todo' \in [Nodes -> SUBSET Repositories] /\ need' \in [Nodes -> Repositories \cup {None}]
  <2>1. "failed" \in Stages /\ "failed" \in ExtensionStages BY DEF Stages, ExtensionStages
  <2>2. \A e \in Extensions : [s EXCEPT ![c] = "failed"][e] \in ExtensionStages BY <1>5, <2>1 DEF Nodes, Jobs
  <2>3. stage' \in [Nodes -> Stages] /\ (\A e \in Extensions : stage'[e] \in ExtensionStages)
    BY <1>5, <2>1, <2>2 DEF Refused
  <2>4. todo' = [todo EXCEPT ![c] = {}] \/ todo' = [todo EXCEPT ![c] = todo[c] \ {need[c]}]
    BY <1>5 DEF Refused, Set
  <2>5. need' = [need EXCEPT ![c] = None]
    BY <1>5 DEF Refused, Set
  <2>6. todo \in [Nodes -> SUBSET Repositories] /\ need \in [Nodes -> Repositories \cup {None}]
    BY <1>4
  <2>7. todo' \in [Nodes -> SUBSET Repositories] /\ need' \in [Nodes -> Repositories \cup {None}]
    BY <2>4, <2>5, <2>6
  <2> QED BY <2>3, <2>7
<1> USE <1>4 DEF Set, Step, At
<1>a. ASSUME NEW r \in Repositories, Ask(t, r) PROVE Work'
  BY <1>a, <1>2 DEF Ask
<1>b. CASE Got(t)  BY <1>b, <1>2 DEF Got
<1>c. CASE Claim(t)
  BY <1>c, <1>2, <1>3 DEF Claim, Wants, Stages, ExtensionStages, Jobs, Nodes
<1>d. CASE Wait(t)  BY <1>d DEF Wait
<1>e. CASE Leave(t)
  BY <1>e, <1>2 DEF Leave, WakeAll, Stages, ExtensionStages, Jobs, Nodes
<1>f. CASE Circular(t)
  BY <1>f, <1>2, <1>5 DEF Circular
<1>g. CASE LeaveFailed(t)
  <2> DEFINE s == [stage EXCEPT ![top[t]] = "idle"]
  <2>1. s \in [Nodes -> Stages] /\ (\A e \in Extensions : s[e] \in ExtensionStages)
    BY <1>2 DEF Stages, ExtensionStages, Nodes, Jobs
  <2>2. Refused(caller[top[t]], s) /\ top[t] \in Jobs BY <1>g DEF LeaveFailed
  <2> HIDE DEF s
  <2>3. /\ stage' \in [Nodes -> Stages] /\ (\A e \in Extensions : stage'[e] \in ExtensionStages)
        /\ todo' \in [Nodes -> SUBSET Repositories] /\ need' \in [Nodes -> Repositories \cup {None}]
    BY <1>2, <1>5, <2>1, <2>2
  <2> QED BY <1>g, <1>2, <2>3 DEF LeaveFailed, WakeAll, Nodes
<1>h. CASE Loaded(t) BY <1>h, <1>2 DEF Loaded, Stages, ExtensionStages, Jobs, Nodes
<1>i. CASE Found(t) BY <1>i, <1>2 DEF Found, Stages, ExtensionStages, Jobs, Nodes
<1>j. CASE NotFound(t) BY <1>j, <1>2 DEF NotFound, Stages, ExtensionStages, Jobs, Nodes
<1>k. CASE Unmark(t) BY <1>k, <1>2 DEF Unmark, Stages, ExtensionStages, Jobs, Nodes
<1>l. CASE Wipe(t) BY <1>l, <1>2 DEF Wipe, Stages, ExtensionStages, Jobs, Nodes
<1>m. CASE Ran(t) BY <1>m, <1>2 DEF Ran, Stages, ExtensionStages, Jobs, Nodes
<1>n. CASE RanExtension(t) BY <1>n, <1>2 DEF RanExtension, Stages, ExtensionStages, Jobs, Nodes
<1>o. CASE Fails(t) BY <1>o, <1>2 DEF Fails, Stages, ExtensionStages, Jobs, Nodes
<1>p. CASE Finish(t) BY <1>p, <1>2 DEF Finish, Stages, ExtensionStages, Jobs, Nodes
<1>q. CASE OpenMarker(t) BY <1>q, <1>2 DEF OpenMarker, Stages, ExtensionStages, Jobs, Nodes
<1>r. CASE WriteMarker(t) BY <1>r, <1>2 DEF WriteMarker, Stages, ExtensionStages, Jobs, Nodes
<1>u. CASE ClearForLink(t) BY <1>u, <1>2 DEF ClearForLink, Stages, ExtensionStages, Jobs, Nodes
<1>s. CASE LinkOverride(t) BY <1>s, <1>2 DEF LinkOverride, Stages, ExtensionStages, Jobs, Nodes
<1> QED BY <1>a, <1>b, <1>c, <1>d, <1>e, <1>f, <1>g, <1>h, <1>i, <1>j, <1>k, <1>l, <1>m, <1>n,
           <1>o, <1>p, <1>q, <1>r, <1>s, <1>u DEF Move

-----------------------------------------------------------------------------
(* The chains of jobs.  Three actions change them. *)
LEMMA HeldStep == ReposTypeOK /\ Held /\ [ReposNext]_repoVars => Held'
<1> SUFFICES ASSUME ReposTypeOK, Held, [ReposNext]_repoVars PROVE Held'
  OBVIOUS
<1> USE JobsAssumption
<1>0. \A t \in Threads : t # None /\ t \notin Jobs
  BY DEF Nodes
<1>1. CASE UNCHANGED <<owner, caller, top>>
  BY <1>1 DEF Held, Of
<1>2. CASE Restart
  BY <1>2 DEF Restart, Fresh, Held, Of, Nodes, Jobs
<1>3. ASSUME NEW t \in Threads, Claim(t) PROVE Held'
  <2> DEFINE c == top[t]
             j == Wanted(need[c])
  <2>1. /\ j \in Jobs /\ c \in Nodes /\ owner[j] = None /\ Of(c) = t /\ c # j
        /\ owner' = [owner EXCEPT ![j] = t] /\ caller' = [caller EXCEPT ![j] = c]
        /\ top' = [top EXCEPT ![t] = j]
    BY <1>3, WantedIsAJob DEF Claim, Wants, Set, ReposTypeOK, Held, Of, Nodes, Jobs
  <2>2. owner \in [Jobs -> Threads \cup {None}] /\ caller \in [Jobs -> Nodes \cup {None}]
        /\ top \in [Threads -> Nodes]
    BY DEF ReposTypeOK
  <2> HIDE DEF c, j
  <2>3. \A n \in Nodes : n # j => Of(n)' = Of(n)
    BY <2>1, <2>2 DEF Of, Nodes
  <2>4. owner'[j] = t /\ j \notin Threads
    BY <1>0, <2>1, <2>2
  <2>5. \A k \in Jobs : owner[k] # None => caller[k] # j
    BY <2>1 DEF Held, Of, Jobs
  <2>6. \A u \in Threads : u # t => top[u] # j
    BY <1>0, <2>1 DEF Held, Of
  <2>7. \A u \in Threads : Of(top[u])' = u
    BY <2>1, <2>2, <2>3, <2>4, <2>6 DEF Held, Of
  <2>8. \A k \in Jobs : owner'[k] # None => caller'[k] \in Nodes /\ Of(caller[k])' = owner'[k]
    BY <2>1, <2>2, <2>3, <2>5 DEF Held, Of
  <2>9. \A k, l \in Jobs : owner'[k] # None /\ owner'[l] # None /\ caller'[k] = caller'[l] => k = l
    BY <2>1, <2>2 DEF Held, c
  <2>10. \A k \in Jobs, u \in Threads : owner'[k] # None => caller'[k] # top'[u]
    <3>1. \A u \in Threads : u # t => top[u] # c
      BY <2>1, <2>2 DEF Held, c
    <3> QED BY <2>1, <2>2, <2>5, <3>1 DEF Held
  <2> QED BY <2>7, <2>8, <2>9, <2>10 DEF Held
<1>4. ASSUME NEW t \in Threads, Leave(t) \/ LeaveFailed(t) PROVE Held'
  <2> DEFINE c == top[t]
  <2>1. /\ c \in Jobs /\ owner[c] = t /\ owner' = [owner EXCEPT ![c] = None]
        /\ caller' = [caller EXCEPT ![c] = None] /\ top' = [top EXCEPT ![t] = caller[c]]
    BY <1>4 DEF Leave, LeaveFailed, Set, Held, Of, Jobs
  <2>2. owner \in [Jobs -> Threads \cup {None}] /\ caller \in [Jobs -> Nodes \cup {None}]
        /\ top \in [Threads -> Nodes]
    BY DEF ReposTypeOK
  <2>3. \A k \in Jobs : owner[k] # None => caller[k] # c
    BY DEF Held
  <2> HIDE DEF c
  <2>4. caller[c] \in Nodes /\ Of(caller[c]) = t /\ caller[c] # c
    BY <2>1, <2>3 DEF Held, Nodes
  <2>5. \A n \in Nodes : n # c => Of(n)' = Of(n)
    BY <2>1, <2>2 DEF Of, Nodes
  <2>6. \A u \in Threads : u # t => top[u] # c
    BY <2>1 DEF Held, Of, Jobs
  <2>7. \A u \in Threads : Of(top[u])' = u
    BY <2>1, <2>2, <2>4, <2>5, <2>6 DEF Held, Of
  <2>8. \A k \in Jobs : owner'[k] # None => caller'[k] \in Nodes /\ Of(caller[k])' = owner'[k]
    BY <2>1, <2>2, <2>3, <2>5 DEF Held, Of
  <2>9. \A k, l \in Jobs : owner'[k] # None /\ owner'[l] # None /\ caller'[k] = caller'[l] => k = l
    BY <2>1, <2>2 DEF Held
  <2>10. \A k \in Jobs, u \in Threads : owner'[k] # None => caller'[k] # top'[u]
    BY <1>0, <2>1, <2>2 DEF Held
  <2> QED BY <2>7, <2>8, <2>9, <2>10 DEF Held
<1>5. UNCHANGED <<owner, caller, top>> \/ Restart
      \/ \E t \in Threads : Claim(t) \/ Leave(t) \/ LeaveFailed(t)
  BY DEF ReposNext, Move, Ask, Got, Wait, Circular, Loaded, Found, NotFound, Unmark, Wipe, Ran,
     RanExtension, Fails, Finish, OpenMarker, WriteMarker, ClearForLink, LinkOverride, Step, repoVars, work
<1> QED BY <1>1, <1>2, <1>3, <1>4, <1>5

(* Every step keeps the types. *)
LEMMA TypesStep == ReposTypeOK /\ Held /\ [ReposNext]_repoVars => ReposTypeOK'
<1> SUFFICES ASSUME ReposTypeOK, Held, [ReposNext]_repoVars PROVE ReposTypeOK'
  OBVIOUS
<1>1. CASE UNCHANGED repoVars
  BY <1>1 DEF ReposTypeOK, repoVars, work, files, world
<1> QED BY <1>1, RestartTypes, MoveTypes DEF ReposNext

(* Whatever threads make whatever repositories, and wherever they are killed,    *)
(* the state is well-typed: a job ends only by going back to who called it.      *)
THEOREM ReposTypes == ReposSpec => []ReposTypeOK
<1>1. ReposInit => ReposTypeOK /\ Held
  BY InitInv
<1>2. ReposTypeOK /\ Held /\ [ReposNext]_repoVars => (ReposTypeOK /\ Held)'
  BY TypesStep, HeldStep
<1> QED BY <1>1, <1>2, PTL DEF ReposSpec

-----------------------------------------------------------------------------
(* The files. *)
LEMMA RestartFiles == Restart => Marks' /\ (MarkerIsTrue => MarkerIsTrue')
BY JobsAssumption DEF Restart, Fresh, Marks, MarkerIsTrue, files, Nodes, Jobs

(* Only these change what is said of markers and trees; every other action moves *)
(* to a stage that says nothing of them, or stays.                               *)
LEMMA MarksStep ==
  ASSUME ReposTypeOK, Held, Marks, NEW t \in Threads, Move(t) PROVE Marks'
<1> USE JobsAssumption
<1>1. top[t] \in Nodes /\ (top[t] \in Jobs => caller[top[t]] \in Nodes)
  BY DEF ReposTypeOK, Held, Of, Nodes, Jobs
<1>2. stage \in [Nodes -> Stages] /\ marker = [r \in Repositories |-> marker[r]]
  BY DEF ReposTypeOK
<1>3. ASSUME UNCHANGED marker, NEW c, NEW d, NEW v, NEW w, v \in {"idle", "load", "link", "linking", "check", "unmark", "leave", "failed"},
             w \in {"idle", "load", "link", "linking", "check", "unmark", "leave", "failed"},
             stage' = [[stage EXCEPT ![c] = v] EXCEPT ![d] = w] \/ stage' = [stage EXCEPT ![c] = v] \/ UNCHANGED stage
      PROVE  Marks'
  BY <1>2, <1>3 DEF Marks, Nodes, Jobs
<1> USE DEF Set, Step, At, files
<1>a. CASE \E r \in Repositories : Ask(t, r) BY <1>a DEF Ask, Marks
<1>b. CASE Got(t) BY <1>b DEF Got, Marks
<1>c. CASE Claim(t) BY <1>c, <1>3 DEF Claim
<1>d. CASE Wait(t) BY <1>d DEF Wait, Marks
<1>e. CASE Leave(t) BY <1>e, <1>3 DEF Leave
<1>f. CASE Circular(t) BY <1>f, <1>3 DEF Circular, Refused
<1>g. CASE LeaveFailed(t) BY <1>g, <1>3 DEF LeaveFailed, Refused
<1>h. CASE Loaded(t)
  BY <1>1, <1>2, <1>h DEF Loaded, Marks, Nodes, Jobs
<1>i. CASE Found(t) BY <1>i, <1>3 DEF Found
<1>j. CASE NotFound(t) BY <1>j, <1>3 DEF NotFound
<1>k. CASE Unmark(t) BY <1>k, <1>1, <1>2 DEF Unmark, Marks, Nodes, Jobs
<1>l. CASE Wipe(t) BY <1>l, <1>1, <1>2 DEF Wipe, Marks, Nodes, Jobs
<1>m. CASE Ran(t) BY <1>m, <1>1, <1>2 DEF Ran, Marks, Nodes, Jobs
<1>n. CASE RanExtension(t) BY <1>n, <1>3 DEF RanExtension
<1>o. CASE Fails(t) BY <1>o, <1>3 DEF Fails
<1>p. CASE Finish(t) BY <1>p, <1>1, <1>2 DEF Finish, Marks, Nodes, Jobs
<1>q. CASE OpenMarker(t) BY <1>q, <1>1, <1>2 DEF OpenMarker, Marks, Nodes, Jobs
<1>r. CASE WriteMarker(t) BY <1>r, <1>1, <1>2 DEF WriteMarker, Marks, Nodes, Jobs
<1>u. CASE ClearForLink(t) BY <1>u, <1>3 DEF ClearForLink
<1>s. CASE LinkOverride(t) BY <1>s, <1>3 DEF LinkOverride
<1> QED BY <1>a, <1>b, <1>c, <1>d, <1>e, <1>f, <1>g, <1>h, <1>i, <1>j, <1>k, <1>l, <1>m, <1>n,
           <1>o, <1>p, <1>q, <1>r, <1>s, <1>u DEF Move

(* The step that makes a marker true copies what the tree is; the ones that      *)
(* change a tree find no marker over it, or are an override's.                   *)
LEMMA MarkerStep ==
  ASSUME ReposTypeOK, Marks, MarkerIsTrue, NEW t \in Threads, Move(t) PROVE MarkerIsTrue'
<1> USE JobsAssumption
<1>1. tree = [r \in Repositories |-> tree[r]] /\ marker = [r \in Repositories |-> marker[r]]
  BY DEF ReposTypeOK
<1> USE DEF Set, Step, At, files
<1>a. CASE UNCHANGED files BY <1>a DEF MarkerIsTrue
<1>b. CASE Unmark(t) BY <1>b, <1>1 DEF Unmark, MarkerIsTrue, Absent
<1>c. CASE Wipe(t) BY <1>c, <1>1 DEF Wipe, MarkerIsTrue, Marks, Absent
<1>d. CASE Ran(t) BY <1>d, <1>1 DEF Ran, MarkerIsTrue, Marks, Absent
<1>e. CASE OpenMarker(t) BY <1>e, <1>1 DEF OpenMarker, MarkerIsTrue, Part
<1>f. CASE WriteMarker(t) BY <1>f, <1>1 DEF WriteMarker, MarkerIsTrue
<1>g. CASE ClearForLink(t) \/ LinkOverride(t)
  BY <1>g, <1>1 DEF ClearForLink, LinkOverride, MarkerIsTrue
<1>h. UNCHANGED files \/ Unmark(t) \/ Wipe(t) \/ Ran(t) \/ OpenMarker(t) \/ WriteMarker(t)
      \/ ClearForLink(t) \/ LinkOverride(t)
  BY DEF Move, Ask, Got, Claim, Wait, Leave, Circular, LeaveFailed, Loaded, Found, NotFound,
     RanExtension, Fails, Finish
<1> QED BY <1>a, <1>b, <1>c, <1>d, <1>e, <1>f, <1>g, <1>h

(* A marker stands only over the tree it speaks of, or what an override made of  *)
(* it, wherever a thread or the command is: the marker is deleted before the tree    *)
(* and written after it (lib.rs:1016, lib.rs:1028).                              *)
THEOREM ReposMarkers == ReposSpec => []MarkerIsTrue
<1> DEFINE Inv == ReposTypeOK /\ Held /\ Marks /\ MarkerIsTrue
<1>1. ReposInit => Inv
  BY InitInv
<1>2. Inv /\ [ReposNext]_repoVars => Inv'
  <2> SUFFICES ASSUME Inv, [ReposNext]_repoVars PROVE Inv'
    OBVIOUS
  <2>1. ReposTypeOK' /\ Held'
    BY TypesStep, HeldStep
  <2>2. CASE UNCHANGED repoVars
    BY <2>1, <2>2 DEF Marks, MarkerIsTrue, repoVars, work, files
  <2>3. CASE Restart
    BY <2>1, <2>3, RestartFiles
  <2>4. ASSUME NEW t \in Threads, Move(t) PROVE Inv'
    BY <2>1, <2>4, MarksStep, MarkerStep
  <2> QED BY <2>2, <2>3, <2>4 DEF ReposNext
<1> QED BY <1>1, <1>2, PTL DEF ReposSpec

-----------------------------------------------------------------------------
(* What is handed out. *)
LEMMA RestartMakes == Makes /\ Restart => Makes' /\ TakenIsWhole'
BY JobsAssumption DEF Restart, Fresh, Makes, TakenIsWhole, files, Nodes, Jobs

(* Steps that only stop a job, or send it back to before its tree is touched. *)
LEMMA QuietMakes ==
  ASSUME ReposTypeOK, Makes, TakenIsWhole, UNCHANGED <<done, src, files>>,
         \A r \in Repositories : \/ stage'[r] = stage[r] /\ (stage[r] = "run" => todo'[r] = todo[r])
                                 \/ stage'[r] \in {"idle", "failed"}
                                 \/ stage'[r] \in {"load", "link", "linking", "check", "unmark", "wipe", "leave"} /\ r \notin done
                                 \/ stage'[r] = "leave" /\ r \in done
  PROVE  Makes' /\ TakenIsWhole'
BY DEF Makes, TakenIsWhole, Good, files

(* A step of a thread keeps what is being made, and what was taken, whole. *)
LEMMA MakesStep ==
  ASSUME ReposTypeOK, Held, Marks, MarkerIsTrue, Makes, TakenIsWhole, NEW t \in Threads, Move(t)
  PROVE  Makes' /\ TakenIsWhole'
<1> USE JobsAssumption
<1> DEFINE c == top[t]
<1>1. c \in Nodes /\ (c \in Jobs => caller[c] \in Nodes)
  BY DEF ReposTypeOK, Held, Of, Nodes, Jobs
<1>2. stage \in [Nodes -> Stages] /\ (\A e \in Extensions : stage[e] \in ExtensionStages)
      /\ tree = [r \in Repositories |-> tree[r]] /\ marker = [r \in Repositories |-> marker[r]]
      /\ todo \in [Nodes -> SUBSET Repositories]
  BY DEF ReposTypeOK
<1>3. \A r \in Repositories : r \in Nodes /\ r \notin Threads
  BY DEF Nodes, Jobs
<1>4. need[c] # None => Wanted(need[c]) \in Jobs
  BY <1>1, WantedIsAJob DEF ReposTypeOK
<1>5. \A s : At(t, s) /\ s \in Stages \ ExtensionStages => c \in Repositories
  BY <1>1, <1>2 DEF At, Jobs
<1>6. UNCHANGED src
  BY MoveFiles DEF world
<1> USE DEF Set, Step, At, files
<1>a. CASE \E r \in Repositories : Ask(t, r) BY <1>a, <1>6, QuietMakes DEF Ask
<1>b. CASE Got(t)
  BY <1>b, <1>1, <1>2, <1>6 DEF Got, Makes, TakenIsWhole, Good
<1>c. CASE Claim(t) BY <1>c, <1>1, <1>2, <1>3, <1>4, <1>6, QuietMakes DEF Claim, Wants, Jobs, Nodes
<1>d. CASE Wait(t) BY <1>d, <1>6, QuietMakes DEF Wait
<1>e. CASE Leave(t) BY <1>e, <1>1, <1>2, <1>3, <1>6, QuietMakes DEF Leave
<1>f. CASE Circular(t) BY <1>f, <1>1, <1>2, <1>3, <1>6, QuietMakes DEF Circular, Refused, Jobs, Nodes
<1>g. CASE LeaveFailed(t)
  BY <1>g, <1>1, <1>2, <1>3, <1>6, QuietMakes DEF LeaveFailed, Refused, Jobs, Nodes
<1>h. CASE Loaded(t)
  BY <1>h, <1>1, <1>2, <1>3, <1>6 DEF Loaded, Makes, TakenIsWhole, Good
<1>i. CASE Found(t)
  BY <1>i, <1>1, <1>2, <1>5, <1>6 DEF Found, MarkerIsCurrent, MarkerIsTrue, Makes, TakenIsWhole, Good, Whole
<1>j. CASE NotFound(t) BY <1>j, <1>1, <1>2, <1>3, <1>6, QuietMakes DEF NotFound, Makes
<1>k. CASE Unmark(t)
  BY <1>k, <1>1, <1>2, <1>3, <1>6 DEF Unmark, Makes, TakenIsWhole, Good, Absent
<1>l. CASE Wipe(t)
  BY <1>l, <1>1, <1>2, <1>3, <1>6 DEF Wipe, Makes, TakenIsWhole, Good
<1>m. CASE Ran(t)
  BY <1>m, <1>1, <1>2, <1>3, <1>6 DEF Ran, Makes, TakenIsWhole, Good, Whole, Usable, Link, Torn
<1>n. CASE RanExtension(t)
  BY <1>n, <1>1, <1>2, <1>3, <1>6 DEF RanExtension, Makes, TakenIsWhole, Good, Jobs
<1>o. CASE Fails(t) BY <1>o, <1>1, <1>2, <1>3, <1>6, QuietMakes DEF Fails
<1>p. CASE Finish(t)
  BY <1>p, <1>1, <1>2, <1>3, <1>5, <1>6 DEF Finish, Makes, TakenIsWhole, Good
<1>q. CASE OpenMarker(t)
  BY <1>q, <1>1, <1>2, <1>3, <1>6 DEF OpenMarker, Makes, TakenIsWhole, Good, Part
<1>r. CASE WriteMarker(t)
  <2>1. /\ c \in Jobs /\ stage[c] = "marking" /\ stage' = [stage EXCEPT ![c] = "leave"]
        /\ marker' = [marker EXCEPT ![c] = tree[c]] /\ UNCHANGED <<done, todo, tree>>
    BY <1>r DEF WriteMarker
  <2>2. c \in Repositories /\ c \in done
    BY <1>2, <2>1 DEF ExtensionStages, Jobs, Makes
  <2>3. tree[c].kind = "whole" => \A q \in Reads[c] : Usable(tree[c].read[q])
    BY <2>2 DEF TakenIsWhole, Link, Torn
  <2> HIDE DEF c
  <2>4. \A r \in Repositories : marker'[r].kind = "whole" => \A q \in Reads[r] : Usable(marker'[r].read[q])
    BY <1>2, <2>1, <2>2, <2>3 DEF Makes
  <2>5. \A r \in Repositories : stage'[r] = IF r = c THEN "leave" ELSE stage[r]
    BY <1>2, <1>3, <2>1
  <2> QED BY <1>6, <2>1, <2>4, <2>5 DEF Makes, TakenIsWhole, Good
<1>u. CASE ClearForLink(t)
  BY <1>u, <1>1, <1>2, <1>3, <1>6 DEF ClearForLink, Makes, TakenIsWhole, Good
<1>s. CASE LinkOverride(t)
  BY <1>s, <1>1, <1>2, <1>3, <1>6 DEF LinkOverride, Makes, TakenIsWhole, Good
<1> QED BY <1>a, <1>b, <1>c, <1>d, <1>e, <1>f, <1>g, <1>h, <1>i, <1>j, <1>k, <1>l, <1>m, <1>n,
           <1>o, <1>p, <1>q, <1>r, <1>s, <1>u DEF Move

(* Inductive: everything above together. *)
ReposInv == ReposTypeOK /\ Held /\ Marks /\ MarkerIsTrue /\ Makes /\ TakenIsWhole

(* Every step keeps the invariant. *)
LEMMA ReposInvStep == ReposInv /\ [ReposNext]_repoVars => ReposInv'
<1> SUFFICES ASSUME ReposInv, [ReposNext]_repoVars PROVE ReposInv'
  OBVIOUS
<1> USE DEF ReposInv
<1>1. ReposTypeOK' /\ Held'
  BY TypesStep, HeldStep
<1>2. CASE UNCHANGED repoVars
  BY <1>1, <1>2 DEF Marks, MarkerIsTrue, Makes, TakenIsWhole, Good, repoVars, work, files, world
<1>3. CASE Restart
  BY <1>1, <1>3, RestartFiles, RestartMakes
<1>4. ASSUME NEW t \in Threads, Move(t) PROVE ReposInv'
  BY <1>1, <1>4, MarksStep, MarkerStep, MakesStep
<1> QED BY <1>2, <1>3, <1>4 DEF ReposNext

(* A repository handed out is a whole tree, made by the rule and attributes of   *)
(* this command from trees that were whole, or an override's link, or what an    *)
(* override that was killed left of such a tree.                                 *)
THEOREM ReposTaken == ReposSpec => []TakenIsWhole
BY InitInv, ReposInvStep, PTL DEF ReposSpec, ReposInv

(* No thread touches the tree of a repository another has been handed.           *)
LEMMA TakenStaysStep ==
  ReposInv /\ [ReposNext]_repoVars =>
    \A r \in done \cap Repositories : tree'[r] = tree[r] \/ commands' # commands
<1> SUFFICES ASSUME ReposInv, [ReposNext]_repoVars, NEW r \in done \cap Repositories
             PROVE  tree'[r] = tree[r] \/ commands' # commands
  OBVIOUS
<1>1. CASE Restart
  BY <1>1 DEF Restart, ReposInv, ReposTypeOK
<1>2. ASSUME NEW t \in Threads, Move(t) PROVE tree'[r] = tree[r]
  <2>1. tree = [q \in Repositories |-> tree[q]] /\ stage[r] \notin {"wipe", "run", "link", "linking"}
    BY DEF ReposInv, ReposTypeOK, Makes
  <2>2. UNCHANGED tree \/ Wipe(t) \/ Ran(t) \/ ClearForLink(t) \/ LinkOverride(t)
    BY <1>2 DEF Move, Ask, Got, Claim, Wait, Leave, Circular, LeaveFailed, Loaded, Found, NotFound,
       Unmark, RanExtension, Fails, Finish, OpenMarker, WriteMarker, files
  <2> QED BY <2>1, <2>2 DEF Wipe, Ran, ClearForLink, LinkOverride, At, Set
<1> QED BY <1>1, <1>2 DEF ReposNext, repoVars, files

(* What a lookup has handed out is left alone as long as the command lives.      *)
THEOREM ReposStay == ReposSpec => TakenStays
BY InitInv, ReposInvStep, TakenStaysStep, PTL DEF ReposSpec, ReposInv, TakenStays
====
