--------------------------- MODULE LoaderProofs ---------------------------
(***************************************************************************)
(* What BzlLoader keeps to for any number of threads and files: its types, *)
(* that the walk along `waiting' ends, and that no file on a load cycle is  *)
(* ever done and ok.                                                       *)
(***************************************************************************)
EXTENDS BzlLoader, TLAPS

SlotType ==
    {Empty} \cup [st : {"running"}, owner : Threads]
            \cup [st : {"done"}, result : Results]

PcType == {"idle", "look", "asleep", "woken", "evaluate", "notify"}

(* A thread that evaluates, or is about to return from it, has a file. *)
HasAFile == \A t \in Threads : pc[t] \in {"evaluate", "notify"} => stack[t] # <<>>

LoaderInv == LoaderTypeOK /\ HasAFile

(* What `loaded' returns to is a stack of files being evaluated. *)
LEMMA ReturnedType ==
    ASSUME NEW below \in Seq(Frames), NEW res \in Results
    PROVE  /\ Returned(below, res) \in Seq(Frames)
           /\ Returned(below, res) = <<>> <=> below = <<>>
<1>1. CASE below = <<>>
    BY <1>1 DEF Returned
<1>2. CASE below # <<>>
    <2> DEFINE n == Len(below)
               top == [file |-> below[n].file, at |-> below[n].at + 1, result |-> res]
    <2>1. n \in 1..Len(below)
        BY <1>2
    <2>2. below[n] \in Frames
        BY <2>1
    <2>3. top \in Frames
        BY <2>2 DEF Frames
    <2>4. Returned(below, res) = [below EXCEPT ![n] = top]
        BY <1>2 DEF Returned
    <2> HIDE DEF top
    <2> QED
        BY <1>2, <2>1, <2>3, <2>4
<1> QED
    BY <1>1, <1>2

(* Pushing the file a thread starts to evaluate leaves a stack, not an      *)
(* empty one.                                                               *)
LEMMA AppendType ==
    ASSUME NEW S, NEW q \in Seq(S), NEW e \in S
    PROVE  Append(q, e) \in Seq(S) /\ Append(q, e) # <<>>
<1>1. Append(q, e) \in Seq(S) /\ Len(Append(q, e)) = Len(q) + 1 /\ Len(q) \in Nat
    OBVIOUS
<1> QED
    BY <1>1

(* What a slot of each state carries: an owner, or a result. *)
LEMMA SlotStates ==
    ASSUME LoaderTypeOK, NEW f \in Files
    PROVE  /\ slot[f].st = "running" => slot[f].owner \in Threads
           /\ slot[f].st = "done" => slot[f].result \in Results
    BY DEF LoaderTypeOK, Empty

(* A thread that evaluates has a file on top of its stack. *)
LEMMA TopType ==
    ASSUME LoaderInv, NEW t \in Threads, pc[t] \in {"evaluate", "notify"}
    PROVE  /\ Top(t) \in Frames
           /\ Top(t).file \in Files /\ Top(t).at \in Nat \ {0} /\ Top(t).result \in Results
<1>1. stack[t] \in Seq(Frames) /\ stack[t] # <<>>
    BY DEF LoaderInv, LoaderTypeOK, HasAFile
<1>2. Len(stack[t]) \in 1..Len(stack[t])
    BY <1>1
<1>3. Top(t) \in Frames
    BY <1>1, <1>2 DEF Top
<1> QED
    BY <1>3 DEF Frames

(* Facts about each step: what it does to each variable's type. *)
LEMMA LoaderStep == LoaderInv /\ [LoaderNext]_loaderVars => LoaderInv'
<1> SUFFICES ASSUME LoaderInv, [LoaderNext]_loaderVars PROVE LoaderInv'
    OBVIOUS
<1> USE LoaderAssumption
<1>0. /\ slot \in [Files -> SlotType] /\ waiting \in [Threads -> Threads \cup {Nobody}]
      /\ pc \in [Threads -> PcType] /\ want \in [Threads -> Files]
      /\ stack \in [Threads -> Seq(Frames)]
    BY DEF LoaderInv, LoaderTypeOK, SlotType, PcType
<1>a. SUFFICES /\ slot' \in [Files -> SlotType]
               /\ waiting' \in [Threads -> Threads \cup {Nobody}]
               /\ pc' \in [Threads -> PcType] /\ want' \in [Threads -> Files]
               /\ stack' \in [Threads -> Seq(Frames)]
               /\ HasAFile'
    BY DEF LoaderInv, LoaderTypeOK, SlotType, PcType
<1>b. HasAFile
    BY DEF LoaderInv
<1> DEFINE Goal == /\ slot' \in [Files -> SlotType]
                   /\ waiting' \in [Threads -> Threads \cup {Nobody}]
                   /\ pc' \in [Threads -> PcType] /\ want' \in [Threads -> Files]
                   /\ stack' \in [Threads -> Seq(Frames)]
                   /\ HasAFile'
<1>1. ASSUME NEW t \in Threads, NEW f \in Files, Start(t, f) PROVE Goal
    BY <1>0, <1>b, <1>1 DEF Start, HasAFile, PcType
<1>2. ASSUME NEW t \in Threads, NEW res \in Results, Return(t, res)
      PROVE  /\ pc' \in [Threads -> PcType] /\ stack' \in [Threads -> Seq(Frames)]
             /\ HasAFile'
    <2>1. /\ Returned(stack[t], res) \in Seq(Frames)
          /\ Returned(stack[t], res) = <<>> <=> stack[t] = <<>>
        BY <1>0, ReturnedType
    <2>2. /\ Resumes(stack[t]) \in {"idle", "evaluate"}
          /\ Resumes(stack[t]) = "evaluate" => stack[t] # <<>>
        BY DEF Resumes
    <2> QED
        BY <1>0, <1>b, <1>2, <2>1, <2>2 DEF Return, HasAFile, PcType
<1>3. ASSUME NEW t \in Threads, LookDone(t) PROVE Goal
    <2>1. slot[want[t]].result \in Results
        BY <1>0, <1>3, SlotStates DEF LookDone, LoaderInv
    <2> QED
        BY <1>0, <1>3, <1>2, <2>1 DEF LookDone
<1>4. ASSUME NEW t \in Threads, LookCycle(t) PROVE Goal
    BY <1>0, <1>4, <1>2 DEF LookCycle, Results
<1>5. ASSUME NEW t \in Threads, LookSleep(t) PROVE Goal
    <2>1. slot[want[t]].owner \in Threads
        BY <1>0, <1>5, SlotStates DEF LookSleep, LoaderInv
    <2> QED
        BY <1>0, <1>b, <1>5, <2>1 DEF LookSleep, HasAFile, PcType
<1>6. ASSUME NEW t \in Threads, LookEmpty(t) PROVE Goal
    <2> DEFINE fr == [file |-> want[t], at |-> 1, result |-> "ok"]
    <2>1. fr \in Frames
        BY <1>0 DEF Frames, Results
    <2>2. Append(stack[t], fr) \in Seq(Frames) /\ Append(stack[t], fr) # <<>>
        BY <1>0, <2>1, AppendType
    <2>3. Running(t) \in SlotType
        BY DEF Running, SlotType
    <2>4. stack' = [stack EXCEPT ![t] = Append(stack[t], fr)]
        BY <1>6 DEF LookEmpty
    <2> HIDE DEF fr
    <2> QED
        BY <1>0, <1>b, <1>6, <2>2, <2>3, <2>4 DEF LookEmpty, HasAFile, PcType
<1>7. ASSUME NEW t \in Threads, Spurious(t) PROVE Goal
    BY <1>0, <1>b, <1>7 DEF Spurious, HasAFile, PcType
<1>8. ASSUME NEW t \in Threads, Woken(t) PROVE Goal
    BY <1>0, <1>b, <1>8 DEF Woken, HasAFile, PcType
<1>9. ASSUME NEW t \in Threads, NextLoad(t) PROVE Goal
    <2>1. Top(t).file \in Files /\ Top(t).at \in Nat \ {0}
        BY <1>9, TopType DEF NextLoad
    <2>2. Loads[Top(t).file][Top(t).at] \in Files
        BY <1>9, <2>1 DEF NextLoad
    <2> QED
        BY <1>0, <1>b, <1>9, <2>1, <2>2 DEF NextLoad, HasAFile, PcType
<1>10. ASSUME NEW t \in Threads, Finish(t) PROVE Goal
    <2>1. Top(t).file \in Files /\ Done(Top(t).result) \in SlotType
        BY <1>10, TopType DEF Finish, Done, SlotType
    <2> QED
        BY <1>0, <1>b, <1>10, <2>1 DEF Finish, HasAFile, PcType
<1>11. ASSUME NEW t \in Threads, Notify(t) PROVE Goal
    <2> DEFINE below == SubSeq(stack[t], 1, Len(stack[t]) - 1)
               end == Returned(below, Top(t).result)
    <2>1. stack[t] \in Seq(Frames) /\ stack[t] # <<>>
        BY <1>0, <1>b, <1>11 DEF Notify, HasAFile
    <2>2. below \in Seq(Frames)
        BY <2>1
    <2>3. Top(t).result \in Results
        BY <1>11, TopType DEF Notify
    <2>4. end \in Seq(Frames) /\ (end = <<>> <=> below = <<>>)
        BY <2>2, <2>3, ReturnedType
    <2>5. /\ Resumes(below) \in {"idle", "evaluate"}
          /\ Resumes(below) = "evaluate" => below # <<>>
        BY DEF Resumes
    <2>6. /\ stack' = [stack EXCEPT ![t] = end]
          /\ UNCHANGED <<slot, waiting, want>>
          /\ pc[t] = "notify"
        BY <1>11 DEF Notify
    <2>7. \E wake \in SUBSET Threads :
             /\ \A u \in wake : pc[u] = "asleep"
             /\ pc' = [u \in Threads |->
                   IF u \in wake THEN "woken" ELSE IF u = t THEN Resumes(below) ELSE pc[u]]
        BY <1>11 DEF Notify
    <2> HIDE DEF end, below
    <2> QED
        BY <1>0, <1>b, <2>4, <2>5, <2>6, <2>7 DEF HasAFile, PcType
<1>12. CASE UNCHANGED loaderVars
    BY <1>0, <1>b, <1>12 DEF loaderVars, HasAFile
<1> QED
    BY <1>1, <1>3, <1>4, <1>5, <1>6, <1>7, <1>8, <1>9, <1>10, <1>11, <1>12
    DEF LoaderNext, Step

(***************************************************************************)
(* Slots, stacks and the entries of `waiting' keep their types.            *)
(***************************************************************************)
THEOREM LoaderTypes == LoaderSpec => []LoaderTypeOK
<1>1. LoaderInit => LoaderInv
    BY DEF LoaderInit, LoaderInv, LoaderTypeOK, HasAFile, Empty
<1> QED
    BY <1>1, LoaderStep, PTL DEF LoaderSpec, LoaderInv

(* An entry t -> owner closes no walk if t is not on the walk from owner.   *)
(* That walk stays in a set C without t.  A set X that meets C has, in its  *)
(* part inside C, a thread that waits for none of that part, and C is       *)
(* closed, so for none of X; a set that does not meet C has the thread it   *)
(* had before: if that is t, it now waits for owner, which is in C.         *)
LEMMA NewWait ==
    ASSUME LoaderTypeOK, WalksEnd,
           NEW t \in Threads, NEW owner \in Threads, ~Closes(t, owner),
           waiting' = [waiting EXCEPT ![t] = owner]
    PROVE  WalksEnd'
<1>1. PICK C \in SUBSET Threads :
          /\ owner \in C /\ t \notin C
          /\ \A u \in C : waiting[u] \in Threads => waiting[u] \in C
    BY DEF Closes
<1>2. SUFFICES ASSUME NEW X \in SUBSET Threads, X # {}
               PROVE  \E u \in X : waiting'[u] \notin X
    BY DEF WalksEnd
<1>3. waiting \in [Threads -> Threads \cup {Nobody}]
    BY DEF LoaderTypeOK
<1>4. CASE X \cap C # {}
    <2>1. PICK u \in X \cap C : waiting[u] \notin X \cap C
        BY <1>4 DEF WalksEnd
    <2>2. waiting[u] \notin X
        BY <1>1, <2>1
    <2> QED
        BY <1>1, <1>3, <2>1, <2>2
<1>5. CASE X \cap C = {}
    <2>1. PICK u \in X : waiting[u] \notin X
        BY <1>2 DEF WalksEnd
    <2>2. waiting'[u] \in {waiting[u], owner}
        BY <1>3
    <2> QED
        BY <1>1, <1>5, <2>1, <2>2
<1> QED
    BY <1>4, <1>5

(***************************************************************************)
(* The walk of `loaded' along `waiting' ends, whatever threads wait and    *)
(* whichever entries are those of threads that were woken and have not run *)
(* since.                                                                  *)
(***************************************************************************)
THEOREM LoaderWalksEnd == LoaderSpec => []WalksEnd
<1>1. LoaderInit => LoaderInv /\ WalksEnd
    BY LoaderAssumption
    DEF LoaderInit, LoaderInv, LoaderTypeOK, HasAFile, Empty, WalksEnd
<1>2. LoaderInv /\ WalksEnd /\ [LoaderNext]_loaderVars => WalksEnd'
    <2> SUFFICES ASSUME LoaderInv, WalksEnd, [LoaderNext]_loaderVars PROVE WalksEnd'
        OBVIOUS
    <2>0. waiting \in [Threads -> Threads \cup {Nobody}] /\ want \in [Threads -> Files]
        BY DEF LoaderInv, LoaderTypeOK
    <2>1. ASSUME NEW t \in Threads, LookSleep(t) PROVE WalksEnd'
        <3>1. slot[want[t]].owner \in Threads
            BY <2>0, <2>1, SlotStates DEF LookSleep, LoaderInv
        <3> QED
            BY <2>1, <3>1, NewWait DEF LookSleep, LoaderInv
    <2>2. ASSUME NEW t \in Threads, Woken(t) PROVE WalksEnd'
        <3>1. \A u \in Threads : waiting'[u] \in {waiting[u], Nobody}
            BY <2>0, <2>2 DEF Woken
        <3> QED
            BY <3>1, LoaderAssumption DEF WalksEnd
    <2>3. CASE UNCHANGED waiting
        BY <2>3 DEF WalksEnd
    <2> QED
        BY <2>1, <2>2, <2>3
        DEF LoaderNext, Step, loaderVars, Start, LookDone, LookCycle, LookEmpty,
            Spurious, NextLoad, Finish, Notify
<1> QED
    BY <1>1, <1>2, LoaderStep, PTL DEF LoaderSpec

-----------------------------------------------------------------------------
(* A file that is done, and ok. *)
Ok(f) == slot[f] = Done("ok")

(* The file a frame is evaluating is the thread's own until it is done.     *)
Owned(t) ==
    \A k \in 1..Len(stack[t]) :
        slot[stack[t][k].file] =
            IF pc[t] = "notify" /\ k = Len(stack[t]) THEN Done(stack[t][k].result)
            ELSE Running(t)

(* A thread evaluates a file once. *)
Distinct(t) ==
    \A j, k \in 1..Len(stack[t]) : stack[t][j].file = stack[t][k].file => j = k

(* What a file has loaded so far is ok, unless the file itself failed. *)
LoadedSoFar(t) ==
    \A k \in 1..Len(stack[t]) : stack[t][k].result = "ok" =>
        \A i \in DOMAIN Loads[stack[t][k].file] :
            i < stack[t][k].at => Ok(Loads[stack[t][k].file][i])

(* The load a frame stands at is that of g. *)
StandsAt(fr, g) ==
    /\ fr.result = "ok"
    /\ fr.at \in DOMAIN Loads[fr.file]
    /\ Loads[fr.file][fr.at] = g

(* A frame stands at the load of the file above it, the uppermost at that   *)
(* of the file asked for.                                                   *)
Chained(t) ==
    /\ \A k \in 1..Len(stack[t]) : k < Len(stack[t]) =>
          StandsAt(stack[t][k], stack[t][k + 1].file)
    /\ pc[t] \in {"look", "asleep", "woken"} /\ stack[t] # <<>> => StandsAt(Top(t), want[t])
    /\ pc[t] = "idle" => stack[t] = <<>>

(* A file is ok only after all it loads. *)
LoadsAreOk == \A f \in Files : Ok(f) => \A i \in DOMAIN Loads[f] : Ok(Loads[f][i])

(* Among files that are ok, the one that was first loads none of the others. *)
NoOkCycle ==
    \A S \in SUBSET Files : S # {} /\ (\A f \in S : Ok(f)) =>
        \E f \in S : \A h \in S : ~LoadsFile(f, h)

ThreadInv(t) == Owned(t) /\ Distinct(t) /\ LoadedSoFar(t) /\ Chained(t)

CycleInv ==
    /\ LoaderInv
    /\ \A t \in Threads : ThreadInv(t)
    /\ LoadsAreOk
    /\ NoOkCycle

(* The three kinds of slots are told apart. *)
LEMMA SlotKinds ==
    /\ Empty.st = "empty"
    /\ \A t : Running(t).st = "running" /\ Running(t).owner = t
    /\ \A r : Done(r).st = "done" /\ Done(r).result = r
    BY DEF Empty, Running, Done

(* A return leaves all frames but the uppermost, which moves one load on. *)
LEMMA ReturnedFrames ==
    ASSUME NEW below \in Seq(Frames), below # <<>>, NEW res \in Results
    PROVE  /\ Len(Returned(below, res)) = Len(below)
           /\ \A k \in 1..Len(below) : k # Len(below) => Returned(below, res)[k] = below[k]
           /\ Returned(below, res)[Len(below)] =
                [file |-> below[Len(below)].file, at |-> below[Len(below)].at + 1,
                 result |-> res]
<1> DEFINE n == Len(below)
           top == [file |-> below[n].file, at |-> below[n].at + 1, result |-> res]
<1>1. Returned(below, res) = [below EXCEPT ![n] = top]
    BY DEF Returned
<1>2. n \in 1..Len(below)
    OBVIOUS
<1> HIDE DEF top
<1>3. /\ Len([below EXCEPT ![n] = top]) = Len(below)
      /\ \A k \in 1..Len(below) : k # n => [below EXCEPT ![n] = top][k] = below[k]
      /\ [below EXCEPT ![n] = top][n] = top
    BY <1>2
<1> QED
    BY <1>1, <1>3 DEF top

(* The frames of a thread, and where they lie. *)
LEMMA FrameTypes ==
    ASSUME LoaderInv, NEW t \in Threads, NEW k \in 1..Len(stack[t])
    PROVE  /\ stack[t][k] \in Frames /\ stack[t][k].file \in Files
           /\ stack[t][k].at \in Nat \ {0} /\ stack[t][k].result \in Results
           /\ Len(stack[t]) \in Nat
           /\ \A i \in DOMAIN Loads[stack[t][k].file] : Loads[stack[t][k].file][i] \in Files
<1>1. stack[t] \in Seq(Frames)
    BY DEF LoaderInv, LoaderTypeOK
<1>2. stack[t][k] \in Frames /\ Len(stack[t]) \in Nat
    BY <1>1
<1>3. /\ stack[t][k].file \in Files
      /\ stack[t][k].at \in Nat \ {0} /\ stack[t][k].result \in Results
    BY <1>2 DEF Frames
<1>4. Loads[stack[t][k].file] \in Seq(Files)
    BY <1>3, LoaderAssumption
<1> QED
    BY <1>2, <1>3, <1>4

(* A thread that does not move keeps its frames, whatever is done to slots  *)
(* that are neither its own nor done.                                       *)
LEMMA OthersStay ==
    ASSUME LoaderInv, NEW u \in Threads, ThreadInv(u),
           stack'[u] = stack[u], want'[u] = want[u],
           pc'[u] = pc[u] \/ (pc[u] = "asleep" /\ pc'[u] = "woken"),
           \A f \in Files : slot[f].st = "done" \/ slot[f] = Running(u) => slot'[f] = slot[f]
    PROVE  ThreadInv(u)'
<1>1. Owned(u)'
    <2> SUFFICES ASSUME NEW k \in 1..Len(stack[u])
                 PROVE  slot'[stack[u][k].file] =
                          IF pc'[u] = "notify" /\ k = Len(stack[u])
                          THEN Done(stack[u][k].result) ELSE Running(u)
        BY DEF Owned
    <2>1. stack[u][k].file \in Files
        BY FrameTypes
    <2>2. slot[stack[u][k].file] =
             IF pc[u] = "notify" /\ k = Len(stack[u]) THEN Done(stack[u][k].result)
             ELSE Running(u)
        BY DEF ThreadInv, Owned
    <2>3. slot'[stack[u][k].file] = slot[stack[u][k].file]
        BY <2>1, <2>2, SlotKinds
    <2> QED
        BY <2>2, <2>3
<1>2. Distinct(u)'
    BY DEF ThreadInv, Distinct
<1>3. LoadedSoFar(u)'
    <2> SUFFICES ASSUME NEW k \in 1..Len(stack[u]), stack[u][k].result = "ok",
                        NEW i \in DOMAIN Loads[stack[u][k].file], i < stack[u][k].at
                 PROVE  Ok(Loads[stack[u][k].file][i])'
        BY DEF LoadedSoFar
    <2>1. Ok(Loads[stack[u][k].file][i]) /\ Loads[stack[u][k].file][i] \in Files
        BY FrameTypes DEF ThreadInv, LoadedSoFar
    <2> QED
        BY <2>1, SlotKinds DEF Ok
<1>4. Chained(u)'
    BY DEF ThreadInv, Chained, StandsAt, Top
<1> QED
    BY <1>1, <1>2, <1>3, <1>4 DEF ThreadInv

(* The files that are ok, and what is said of them, stay if the set does. *)
LEMMA SameOk ==
    ASSUME LoadsAreOk, NoOkCycle, \A f \in Files : Ok(f)' <=> Ok(f)
    PROVE  LoadsAreOk' /\ NoOkCycle'
<1>1. \A f \in Files : \A i \in DOMAIN Loads[f] : Loads[f][i] \in Files
    BY LoaderAssumption
<1>2. LoadsAreOk'
    BY <1>1 DEF LoadsAreOk
<1>3. NoOkCycle'
    BY DEF NoOkCycle
<1> QED
    BY <1>2, <1>3

(* A file is added to those that are ok when all it loads are, and it is    *)
(* not yet one of them.                                                     *)
LEMMA OneMoreOk ==
    ASSUME LoadsAreOk, NoOkCycle, NEW g \in Files, ~Ok(g),
           \A i \in DOMAIN Loads[g] : Ok(Loads[g][i]),
           \A f \in Files : Ok(f)' <=> Ok(f) \/ f = g
    PROVE  LoadsAreOk' /\ NoOkCycle'
<1>0. \A f \in Files : \A i \in DOMAIN Loads[f] : Loads[f][i] \in Files
    BY LoaderAssumption
<1>1. LoadsAreOk'
    BY <1>0 DEF LoadsAreOk
<1>2. NoOkCycle'
    <2>1. SUFFICES ASSUME NEW S \in SUBSET Files, S # {}, \A f \in S : Ok(f)'
                   PROVE  \E f \in S : \A h \in S : ~LoadsFile(f, h)
        BY DEF NoOkCycle
    <2>2. \A f \in Files : Ok(f) \/ f = g => ~LoadsFile(f, g)
        BY DEF LoadsFile, LoadsAreOk
    <2>3. CASE S \ {g} = {}
        BY <2>1, <2>2, <2>3
    <2>4. CASE S \ {g} # {}
        <3>1. \A f \in S \ {g} : Ok(f)
            BY <2>1
        <3>2. PICK f \in S \ {g} : \A h \in S \ {g} : ~LoadsFile(f, h)
            BY <2>4, <3>1 DEF NoOkCycle
        <3> QED
            BY <2>2, <3>1, <3>2
    <2> QED
        BY <2>3, <2>4
<1> QED
    BY <1>1, <1>2

(* `loaded' returns res for the file g to the load of the frames below it.  *)
LEMMA ReturnStep ==
    ASSUME LoaderInv, NEW t \in Threads, NEW below \in Seq(Frames),
           NEW g \in Files, NEW res \in Results,
           \A k \in 1..Len(below) : slot[below[k].file] = Running(t),
           \A j, k \in 1..Len(below) : below[j].file = below[k].file => j = k,
           \A k \in 1..Len(below) : below[k].result = "ok" =>
               \A i \in DOMAIN Loads[below[k].file] :
                   i < below[k].at => Ok(Loads[below[k].file][i]),
           \A k \in 1..Len(below) : k < Len(below) => StandsAt(below[k], below[k + 1].file),
           below # <<>> => StandsAt(below[Len(below)], g),
           res = "ok" => Ok(g),
           pc'[t] = Resumes(below), stack'[t] = Returned(below, res), slot' = slot
    PROVE  ThreadInv(t)'
<1>1. CASE below = <<>>
    <2>1. stack'[t] = <<>> /\ pc'[t] = "idle" /\ Len(stack'[t]) = 0
        BY <1>1 DEF Returned, Resumes
    <2> QED
        BY <2>1 DEF ThreadInv, Owned, Distinct, LoadedSoFar, Chained
<1>2. CASE below # <<>>
    <2> DEFINE n == Len(below)
               s == Returned(below, res)
    <2>1. /\ Len(s) = n
          /\ \A k \in 1..n : k # n => s[k] = below[k]
          /\ s[n] = [file |-> below[n].file, at |-> below[n].at + 1, result |-> res]
        BY <1>2, ReturnedFrames
    <2>2. n \in Nat /\ n \in 1..n /\ \A k \in 1..n : below[k] \in Frames
        BY <1>2
    <2>3. pc'[t] = "evaluate" /\ stack'[t] = s
        BY <1>2 DEF Resumes
    <2>4. \A k \in 1..n : s[k].file = below[k].file
        BY <2>1
    <2> HIDE DEF s
    <2>5. Owned(t)'
        BY <2>1, <2>3, <2>4 DEF Owned, Running
    <2>6. Distinct(t)'
        BY <2>1, <2>3, <2>4 DEF Distinct
    <2>7. LoadedSoFar(t)'
        <3> SUFFICES ASSUME NEW k \in 1..n, s[k].result = "ok",
                            NEW i \in DOMAIN Loads[s[k].file], i < s[k].at
                     PROVE  Ok(Loads[s[k].file][i])
            BY <2>1, <2>3 DEF LoadedSoFar, Ok
        <3>1. CASE k # n
            BY <2>1, <3>1
        <3>2. CASE k = n
            <4>1. below[n].at \in Nat /\ below[n].file \in Files /\ i \in Nat
                BY <2>2, <2>4, <3>2, LoaderAssumption DEF Frames
            <4>2. res = "ok" /\ i < below[n].at + 1
                BY <2>1, <3>2
            <4>3. i < below[n].at \/ i = below[n].at
                BY <4>1, <4>2
            <4>4. StandsAt(below[n], g)
                BY <1>2
            <4> QED
                BY <2>2, <2>4, <3>2, <4>2, <4>3, <4>4 DEF StandsAt
        <3> QED
            BY <3>1, <3>2
    <2>8. Chained(t)'
        <3>1. ASSUME NEW k \in 1..n, k < n PROVE StandsAt(s[k], s[k + 1].file)
            BY <2>1, <2>2, <2>4, <3>1
        <3> QED
            BY <2>1, <2>3, <3>1 DEF Chained
    <2> QED
        BY <2>5, <2>6, <2>7, <2>8 DEF ThreadInv
<1> QED
    BY <1>1, <1>2

(* A look returns what it found to the file that asked. *)
LEMMA LookReturns ==
    ASSUME LoaderInv, NEW t \in Threads, ThreadInv(t), pc[t] = "look",
           NEW res \in Results, res = "ok" => Ok(want[t]),
           Return(t, res), slot' = slot
    PROVE  ThreadInv(t)'
<1>1. stack[t] \in Seq(Frames) /\ want[t] \in Files
    BY DEF LoaderInv, LoaderTypeOK
<1>2. pc'[t] = Resumes(stack[t]) /\ stack'[t] = Returned(stack[t], res)
    BY DEF Return, LoaderInv, LoaderTypeOK
<1>3. /\ \A k \in 1..Len(stack[t]) : slot[stack[t][k].file] = Running(t)
      /\ \A j, k \in 1..Len(stack[t]) : stack[t][j].file = stack[t][k].file => j = k
      /\ \A k \in 1..Len(stack[t]) : stack[t][k].result = "ok" =>
               \A i \in DOMAIN Loads[stack[t][k].file] :
                   i < stack[t][k].at => Ok(Loads[stack[t][k].file][i])
      /\ \A k \in 1..Len(stack[t]) : k < Len(stack[t]) =>
               StandsAt(stack[t][k], stack[t][k + 1].file)
      /\ stack[t] # <<>> => StandsAt(stack[t][Len(stack[t])], want[t])
    BY DEF ThreadInv, Owned, Distinct, LoadedSoFar, Chained, Top
<1> QED
    BY <1>1, <1>2, <1>3, ReturnStep

(* The thread that was evaluating a file returns its result. *)
LEMMA NotifyReturns ==
    ASSUME LoaderInv, NEW t \in Threads, ThreadInv(t), Notify(t)
    PROVE  ThreadInv(t)'
<1> DEFINE n == Len(stack[t])
           below == SubSeq(stack[t], 1, n - 1)
<1>1. stack[t] \in Seq(Frames) /\ stack[t] # <<>> /\ n \in Nat \ {0}
    BY DEF LoaderInv, LoaderTypeOK, HasAFile, Notify
<1>2. /\ below \in Seq(Frames) /\ Len(below) = n - 1
      /\ \A k \in 1..(n - 1) : below[k] = stack[t][k]
    BY <1>1
<1>3. Top(t).file \in Files /\ Top(t).result \in Results /\ Top(t) = stack[t][n]
    BY TopType DEF Notify, Top
<1>4. /\ pc'[t] = Resumes(below) /\ stack'[t] = Returned(below, Top(t).result)
      /\ slot' = slot /\ pc[t] = "notify"
    BY DEF Notify, LoaderInv, LoaderTypeOK
<1>5. slot[Top(t).file] = Done(Top(t).result)
    BY <1>1, <1>3, <1>4 DEF ThreadInv, Owned
<1> HIDE DEF below, n
<1>6. /\ \A k \in 1..Len(below) : slot[below[k].file] = Running(t)
      /\ \A j, k \in 1..Len(below) : below[j].file = below[k].file => j = k
      /\ \A k \in 1..Len(below) : below[k].result = "ok" =>
               \A i \in DOMAIN Loads[below[k].file] :
                   i < below[k].at => Ok(Loads[below[k].file][i])
    <2>1. \A k \in 1..(n - 1) : k \in 1..n /\ k # n
        BY <1>1
    <2>2. \A k \in 1..(n - 1) : slot[stack[t][k].file] = Running(t)
        BY <2>1 DEF ThreadInv, Owned, n
    <2>3. \A j, k \in 1..(n - 1) : stack[t][j].file = stack[t][k].file => j = k
        BY <2>1 DEF ThreadInv, Distinct, n
    <2>4. \A k \in 1..(n - 1) : stack[t][k].result = "ok" =>
             \A i \in DOMAIN Loads[stack[t][k].file] :
                 i < stack[t][k].at => Ok(Loads[stack[t][k].file][i])
        BY <2>1 DEF ThreadInv, LoadedSoFar, n
    <2> QED
        BY <1>2, <2>2, <2>3, <2>4
<1>7. \A k \in 1..(n - 1) : StandsAt(stack[t][k], stack[t][k + 1].file)
    BY <1>1 DEF ThreadInv, Chained, n
<1>8. \A k \in 1..Len(below) : k < Len(below) => StandsAt(below[k], below[k + 1].file)
    BY <1>1, <1>2, <1>7
<1>9. below # <<>> => StandsAt(below[Len(below)], Top(t).file)
    <2> SUFFICES ASSUME below # <<>> PROVE StandsAt(below[n - 1], stack[t][n].file)
        BY <1>2, <1>3
    <2>1. n - 1 \in 1..(n - 1)
        BY <1>1, <1>2
    <2>2. below[n - 1] = stack[t][n - 1] /\ (n - 1) + 1 = n
        BY <1>1, <1>2, <2>1
    <2> QED
        BY <1>7, <2>1, <2>2
<1>10. Top(t).result = "ok" => Ok(Top(t).file)
    BY <1>5 DEF Ok
<1> QED
    BY <1>2, <1>3, <1>4, <1>6, <1>8, <1>9, <1>10, ReturnStep

(* A file that no thread had is pushed on the stack of the one that asked.  *)
LEMMA EmptyPushes ==
    ASSUME LoaderInv, NEW t \in Threads, ThreadInv(t), LookEmpty(t)
    PROVE  ThreadInv(t)'
<1> DEFINE n == Len(stack[t])
           s == stack'[t]
           fr == [file |-> want[t], at |-> 1, result |-> "ok"]
<1>1. stack[t] \in Seq(Frames) /\ n \in Nat /\ want[t] \in Files
    BY DEF LoaderInv, LoaderTypeOK
<1>2. s = Append(stack[t], fr) /\ pc'[t] = "evaluate" /\ pc[t] = "look"
    BY DEF LookEmpty, LoaderInv, LoaderTypeOK
<1>3. Len(s) = n + 1 /\ s[n + 1] = fr /\ \A k \in 1..n : s[k] = stack[t][k]
    BY <1>1, <1>2
<1>4. fr.file = want[t] /\ fr.at = 1 /\ fr.result = "ok"
    OBVIOUS
<1>5. \A k \in 1..(n + 1) : k \in 1..n \/ k = n + 1
    BY <1>1
<1>6. /\ slot[want[t]] = Empty /\ slot'[want[t]] = Running(t)
      /\ \A f \in Files : f # want[t] => slot'[f] = slot[f]
    BY <1>1 DEF LookEmpty, LoaderInv, LoaderTypeOK
<1>7. \A k \in 1..n : /\ stack[t][k].file \in Files /\ slot[stack[t][k].file] = Running(t)
                      /\ stack[t][k].file # want[t]
    BY <1>2, <1>6, FrameTypes, SlotKinds DEF ThreadInv, Owned
<1> HIDE DEF s, fr
<1>8. Owned(t)'
    <2>1. \A k \in 1..(n + 1) : slot'[s[k].file] = Running(t)
        BY <1>3, <1>4, <1>5, <1>6, <1>7
    <2> QED
        BY <1>2, <1>3, <2>1 DEF Owned, s, Running
<1>9. Distinct(t)'
    <2>1. \A j, k \in 1..(n + 1) : s[j].file = s[k].file => j = k
        BY <1>3, <1>4, <1>5, <1>7 DEF ThreadInv, Distinct
    <2> QED
        BY <1>3, <2>1 DEF Distinct, s
<1>10. LoadedSoFar(t)'
    <2> SUFFICES ASSUME NEW k \in 1..(n + 1), s[k].result = "ok",
                        NEW i \in DOMAIN Loads[s[k].file], i < s[k].at
                 PROVE  slot'[Loads[s[k].file][i]] = Done("ok")
        BY <1>3 DEF LoadedSoFar, s, Ok
    <2>1. CASE k \in 1..n
        <3>1. Ok(Loads[s[k].file][i]) /\ Loads[s[k].file][i] \in Files
            BY <1>3, <2>1, FrameTypes DEF ThreadInv, LoadedSoFar
        <3> QED
            BY <1>6, <3>1, SlotKinds DEF Ok
    <2>2. CASE k = n + 1
        <3>1. i \in Nat \ {0}
            BY <1>1, <1>3, <1>4, <2>2, LoaderAssumption
        <3> QED
            BY <1>3, <1>4, <2>2, <3>1
    <2> QED
        BY <1>5, <2>1, <2>2
<1>11. Chained(t)'
    <2>1. ASSUME NEW k \in 1..(n + 1), k < n + 1 PROVE StandsAt(s[k], s[k + 1].file)
        <3>1. k \in 1..n
            BY <1>1, <2>1
        <3>2. CASE k < n
            <4>1. StandsAt(stack[t][k], stack[t][k + 1].file) /\ k + 1 \in 1..n
                BY <1>1, <3>1, <3>2 DEF ThreadInv, Chained
            <4> QED
                BY <1>3, <3>1, <4>1
        <3>3. CASE k = n
            <4>1. stack[t] # <<>>
                BY <1>1, <3>1
            <4>2. StandsAt(stack[t][n], want[t])
                BY <1>2, <4>1 DEF ThreadInv, Chained, Top
            <4> QED
                BY <1>3, <1>4, <3>1, <3>3, <4>2
        <3> QED
            BY <1>1, <3>1, <3>2, <3>3
    <2> QED
        BY <1>2, <1>3, <2>1 DEF Chained, s
<1> QED
    BY <1>8, <1>9, <1>10, <1>11 DEF ThreadInv

(* The evaluation of a file is over: its slot is done. *)
LEMMA FinishDone ==
    ASSUME LoaderInv, NEW t \in Threads, ThreadInv(t), Finish(t)
    PROVE  /\ ThreadInv(t)'
           /\ slot[Top(t).file] = Running(t)
           /\ Top(t).result = "ok" =>
                \A i \in DOMAIN Loads[Top(t).file] : Ok(Loads[Top(t).file][i])
<1> DEFINE n == Len(stack[t])
           g == Top(t).file
<1>1. stack[t] \in Seq(Frames) /\ n \in Nat /\ n \in 1..n /\ stack[t] # <<>>
    BY DEF LoaderInv, LoaderTypeOK, HasAFile, Finish
<1>2. Top(t) = stack[t][n] /\ g \in Files /\ Top(t).result \in Results /\ Top(t).at \in Nat
    BY TopType DEF Top, Finish
<1>3. /\ stack' = stack /\ pc'[t] = "notify" /\ pc[t] = "evaluate"
      /\ slot'[g] = Done(Top(t).result)
      /\ \A f \in Files : f # g => slot'[f] = slot[f]
    BY <1>2 DEF Finish, LoaderInv, LoaderTypeOK
<1>4. \A k \in 1..n : slot[stack[t][k].file] = Running(t) /\ stack[t][k].file \in Files
    BY <1>3, FrameTypes DEF ThreadInv, Owned
<1>5. slot[g] = Running(t)
    BY <1>1, <1>2, <1>4
<1>6. Top(t).result = "ok" => \A i \in DOMAIN Loads[g] : Ok(Loads[g][i])
    <2> SUFFICES ASSUME Top(t).result = "ok", NEW i \in DOMAIN Loads[g] PROVE Ok(Loads[g][i])
        OBVIOUS
    <2>1. Top(t).at > Len(Loads[g]) /\ Loads[g] \in Seq(Files)
        BY <1>2, LoaderAssumption DEF Finish
    <2>2. i < Top(t).at
        BY <1>2, <2>1
    <2> QED
        BY <1>1, <1>2, <2>2 DEF ThreadInv, LoadedSoFar
<1> HIDE DEF g, n
<1>7. Owned(t)'
    <2> SUFFICES ASSUME NEW k \in 1..n
                 PROVE  slot'[stack[t][k].file] =
                          IF k = n THEN Done(stack[t][k].result) ELSE Running(t)
        BY <1>3 DEF Owned, n
    <2>1. CASE k = n
        BY <1>2, <1>3, <2>1 DEF g
    <2>2. CASE k # n
        <3>1. stack[t][k].file # g
            BY <1>1, <1>2, <2>2 DEF ThreadInv, Distinct, n, g
        <3> QED
            BY <1>3, <1>4, <2>2, <3>1
    <2> QED
        BY <2>1, <2>2
<1>8. Distinct(t)'
    BY <1>3 DEF ThreadInv, Distinct
<1>9. LoadedSoFar(t)'
    <2> SUFFICES ASSUME NEW k \in 1..n, stack[t][k].result = "ok",
                        NEW i \in DOMAIN Loads[stack[t][k].file], i < stack[t][k].at
                 PROVE  slot'[Loads[stack[t][k].file][i]] = Done("ok")
        BY <1>3 DEF LoadedSoFar, Ok, n
    <2>1. Ok(Loads[stack[t][k].file][i]) /\ Loads[stack[t][k].file][i] \in Files
        BY FrameTypes DEF ThreadInv, LoadedSoFar, n
    <2> QED
        BY <1>3, <1>5, <2>1, SlotKinds DEF Ok
<1>10. Chained(t)'
    BY <1>3 DEF ThreadInv, Chained
<1> QED
    BY <1>5, <1>6, <1>7, <1>8, <1>9, <1>10 DEF ThreadInv, g

(* Every step keeps what the frames and the files that are ok rest on. *)
LEMMA CycleInvStep == CycleInv /\ [LoaderNext]_loaderVars => CycleInv'
<1> SUFFICES ASSUME CycleInv, [LoaderNext]_loaderVars PROVE CycleInv'
    OBVIOUS
<1>0. LoaderInv /\ LoaderInv'
    BY LoaderStep DEF CycleInv
<1>1. /\ slot \in [Files -> SlotType] /\ pc \in [Threads -> PcType]
      /\ want \in [Threads -> Files] /\ stack \in [Threads -> Seq(Frames)]
    BY <1>0 DEF LoaderInv, LoaderTypeOK, SlotType, PcType
<1> DEFINE Goal == (\A u \in Threads : ThreadInv(u)') /\ LoadsAreOk' /\ NoOkCycle'
<1>2. SUFFICES Goal
    BY <1>0 DEF CycleInv
<1>3. LoadsAreOk /\ NoOkCycle /\ \A u \in Threads : ThreadInv(u)
    BY DEF CycleInv
<1>4. ASSUME slot' = slot PROVE LoadsAreOk' /\ NoOkCycle'
    BY <1>3, <1>4, SameOk DEF Ok
(* The other threads, in a step of t alone. *)
<1>5. ASSUME NEW t \in Threads, slot' = slot,
             \A u \in Threads \ {t} : /\ stack'[u] = stack[u] /\ want'[u] = want[u]
                                      /\ pc'[u] = pc[u] \/ (pc[u] = "asleep" /\ pc'[u] = "woken"),
             ThreadInv(t)'
      PROVE  Goal
    <2>1. ASSUME NEW u \in Threads, u # t PROVE ThreadInv(u)'
        BY <1>0, <1>3, <1>5, <2>1, OthersStay
    <2> QED
        BY <1>4, <1>5, <2>1
<1>6. ASSUME NEW t \in Threads, NEW f \in Files, Start(t, f) PROVE Goal
    <2>1. ThreadInv(t)'
        <3>1. /\ stack'[t] = <<>> /\ stack[t] = <<>> /\ pc'[t] = "look"
            BY <1>1, <1>3, <1>6 DEF Start, ThreadInv, Chained
        <3>2. Len(stack'[t]) = 0
            BY <3>1
        <3> QED
            BY <3>1, <3>2 DEF ThreadInv, Owned, Distinct, LoadedSoFar, Chained
    <2>2. /\ slot' = slot
          /\ \A u \in Threads \ {t} : /\ stack'[u] = stack[u] /\ want'[u] = want[u]
                                      /\ pc'[u] = pc[u]
        BY <1>1, <1>6 DEF Start
    <2> QED
        BY <1>5, <2>1, <2>2
<1>7. ASSUME NEW t \in Threads, LookDone(t) \/ LookCycle(t) PROVE Goal
    <2>1. ThreadInv(t)'
        <3>1. CASE LookDone(t)
            <4>1. /\ pc[t] = "look" /\ slot[want[t]].st = "done" /\ slot' = slot
                  /\ Return(t, slot[want[t]].result) /\ slot[want[t]].result \in Results
                BY <1>0, <1>1, <3>1, SlotStates DEF LookDone, LoaderInv
            <4>2. slot[want[t]].result = "ok" => Ok(want[t])
                BY <1>1, <4>1 DEF SlotType, Ok, Done, Empty
            <4> QED
                BY <1>0, <1>3, <4>1, <4>2, LookReturns
        <3>2. CASE LookCycle(t)
            BY <1>0, <1>3, <3>2, LookReturns DEF LookCycle, Results
        <3> QED
            BY <1>7, <3>1, <3>2
    <2>2. /\ slot' = slot
          /\ \A u \in Threads \ {t} : /\ stack'[u] = stack[u] /\ want'[u] = want[u]
                                      /\ pc'[u] = pc[u]
        BY <1>1, <1>7 DEF LookDone, LookCycle, Return
    <2> QED
        BY <1>5, <2>1, <2>2
<1>8. ASSUME NEW t \in Threads, LookSleep(t) \/ Spurious(t) \/ Woken(t) PROVE Goal
    <2>1. /\ slot' = slot /\ stack' = stack /\ want' = want
          /\ pc[t] \in {"look", "asleep", "woken"} /\ pc'[t] \in {"look", "asleep", "woken"}
          /\ \A u \in Threads \ {t} : pc'[u] = pc[u]
        BY <1>1, <1>8 DEF LookSleep, Spurious, Woken
    <2>2. ThreadInv(t)'
        BY <1>3, <2>1
        DEF ThreadInv, Owned, Distinct, LoadedSoFar, Chained, StandsAt, Top, Ok
    <2> QED
        BY <1>5, <2>1, <2>2
<1>9. ASSUME NEW t \in Threads, NextLoad(t) PROVE Goal
    <2>1. /\ slot' = slot /\ stack' = stack /\ pc[t] = "evaluate" /\ pc'[t] = "look"
          /\ want'[t] = Loads[Top(t).file][Top(t).at]
          /\ Top(t).result = "ok" /\ Top(t).at <= Len(Loads[Top(t).file])
          /\ \A u \in Threads \ {t} : pc'[u] = pc[u] /\ want'[u] = want[u]
        BY <1>1, <1>9 DEF NextLoad
    <2>2. Top(t).at \in DOMAIN Loads[Top(t).file]
        <3>1. Top(t).file \in Files /\ Top(t).at \in Nat \ {0}
            BY <1>0, <2>1, TopType
        <3> QED
            BY <2>1, <3>1, LoaderAssumption
    <2>3. StandsAt(Top(t), want[t])'
        BY <2>1, <2>2 DEF StandsAt, Top
    <2>4. ThreadInv(t)'
        BY <1>3, <2>1, <2>3
        DEF ThreadInv, Owned, Distinct, LoadedSoFar, Chained, Ok
    <2> QED
        BY <1>5, <2>1, <2>4
<1>10. ASSUME NEW t \in Threads, Notify(t) PROVE Goal
    <2>1. /\ slot' = slot
          /\ \A u \in Threads \ {t} : /\ stack'[u] = stack[u] /\ want'[u] = want[u]
                                      /\ pc'[u] = pc[u] \/ (pc[u] = "asleep" /\ pc'[u] = "woken")
        BY <1>1, <1>10 DEF Notify
    <2>2. ThreadInv(t)'
        BY <1>0, <1>3, <1>10, NotifyReturns
    <2> QED
        BY <1>5, <2>1, <2>2
<1>11. ASSUME NEW t \in Threads, LookEmpty(t) PROVE Goal
    <2>1. /\ slot[want[t]] = Empty /\ slot' = [slot EXCEPT ![want[t]] = Running(t)]
          /\ want[t] \in Files /\ want' = want
          /\ \A u \in Threads \ {t} : stack'[u] = stack[u] /\ pc'[u] = pc[u]
        BY <1>1, <1>11 DEF LookEmpty
    <2>2. \A f \in Files : Ok(f)' <=> Ok(f)
        BY <1>1, <2>1, SlotKinds DEF Ok
    <2>3. ASSUME NEW u \in Threads, u # t PROVE ThreadInv(u)'
        <3>1. \A f \in Files : slot[f].st = "done" \/ slot[f] = Running(u) => slot'[f] = slot[f]
            BY <1>1, <2>1, SlotKinds
        <3> QED
            BY <1>0, <1>3, <2>1, <2>3, <3>1, OthersStay
    <2>4. ThreadInv(t)'
        BY <1>0, <1>3, <1>11, EmptyPushes
    <2> QED
        BY <1>3, <2>2, <2>3, <2>4, SameOk
<1>12. ASSUME NEW t \in Threads, Finish(t) PROVE Goal
    <2> DEFINE g == Top(t).file
    <2>1. /\ ThreadInv(t)' /\ slot[g] = Running(t)
          /\ Top(t).result = "ok" => \A i \in DOMAIN Loads[g] : Ok(Loads[g][i])
        BY <1>0, <1>3, <1>12, FinishDone
    <2>2. g \in Files
        BY <1>0, <1>12, TopType DEF Finish
    <2>3. /\ slot' = [slot EXCEPT ![g] = Done(Top(t).result)]
          /\ want' = want /\ stack' = stack
          /\ \A u \in Threads \ {t} : pc'[u] = pc[u]
        BY <1>1, <1>12 DEF Finish
    <2> HIDE DEF g
    <2>4. ASSUME NEW u \in Threads, u # t PROVE ThreadInv(u)'
        <3>1. \A f \in Files : slot[f].st = "done" \/ slot[f] = Running(u) => slot'[f] = slot[f]
            BY <1>1, <2>1, <2>2, <2>3, <2>4, SlotKinds
        <3> QED
            BY <1>0, <1>3, <2>3, <2>4, <3>1, OthersStay
    <2>5. ~Ok(g)
        BY <2>1, SlotKinds DEF Ok
    <2>6. CASE Top(t).result = "ok"
        <3>1. \A f \in Files : Ok(f)' <=> Ok(f) \/ f = g
            BY <1>1, <2>2, <2>3, <2>6 DEF Ok
        <3> QED
            BY <1>3, <2>1, <2>2, <2>4, <2>5, <2>6, <3>1, OneMoreOk
    <2>7. CASE Top(t).result # "ok"
        <3>1. \A f \in Files : Ok(f)' <=> Ok(f)
            BY <1>1, <2>2, <2>3, <2>5, <2>7, SlotKinds DEF Ok
        <3> QED
            BY <1>3, <2>1, <2>4, <3>1, SameOk
    <2> QED
        BY <2>6, <2>7
<1>13. CASE UNCHANGED loaderVars
    <2>1. slot' = slot /\ stack' = stack /\ want' = want /\ pc' = pc
        BY <1>13 DEF loaderVars
    <2>2. ASSUME NEW u \in Threads PROVE ThreadInv(u)'
        BY <1>0, <1>3, <2>1, OthersStay
    <2> QED
        BY <1>4, <2>1, <2>2
<1> QED
    BY <1>6, <1>7, <1>8, <1>9, <1>10, <1>11, <1>12, <1>13 DEF LoaderNext, Step

(* What a file needs, it loads, or a file that it loads needs. *)
LEMMA NeedsFirst ==
    ASSUME NEW f \in Files, NEW g \in Files, Needs(f, g)
    PROVE  LoadsFile(f, g) \/ \E e \in Files : LoadsFile(f, e) /\ Needs(e, g)
<1> DEFINE U == {x \in Files : LoadsFile(f, x) \/ \E e \in Files : LoadsFile(f, e) /\ Needs(e, x)}
<1>1. \A h \in Files : LoadsFile(f, h) => h \in U
    OBVIOUS
<1>2. ASSUME NEW x \in U, NEW h \in Files, LoadsFile(x, h) PROVE h \in U
    <2>1. CASE LoadsFile(f, x)
        <3>1. Needs(x, h)
            BY <1>2 DEF Needs
        <3> QED
            BY <2>1, <3>1
    <2>2. ASSUME NEW e \in Files, LoadsFile(f, e), Needs(e, x) PROVE h \in U
        <3>1. Needs(e, h)
            BY <1>2, <2>2 DEF Needs
        <3> QED
            BY <2>2, <3>1
    <2> QED
        BY <2>1, <2>2
<1>3. U \in SUBSET Files
    OBVIOUS
<1> HIDE DEF U
<1>4. g \in U
    BY <1>1, <1>2, <1>3 DEF Needs
<1> QED
    BY <1>4 DEF U

(* Files that are ok need none that are not, and none of them itself: those *)
(* that need a file on a cycle, and are ok, would each load another one.    *)
LEMMA OkIsNotDoomed ==
    ASSUME CycleInv, NEW f \in Files, Ok(f)
    PROVE  ~Doomed(f)
<1> SUFFICES ASSUME NEW g \in Files, g = f \/ Needs(f, g), Needs(g, g) PROVE FALSE
    BY DEF Doomed
<1>0. LoadsAreOk /\ NoOkCycle
    BY DEF CycleInv
<1>1. \A e, h \in Files : Ok(e) /\ LoadsFile(e, h) => Ok(h)
    BY <1>0 DEF LoadsAreOk, LoadsFile
<1>2. Ok(g)
    <2> DEFINE O == {h \in Files : Ok(h)}
    <2>1. \A h \in Files : LoadsFile(f, h) => h \in O
        BY <1>1
    <2>2. \A e \in O, h \in Files : LoadsFile(e, h) => h \in O
        BY <1>1
    <2>3. O \in SUBSET Files
        OBVIOUS
    <2> HIDE DEF O
    <2>4. Needs(f, g) => g \in O
        BY <2>1, <2>2, <2>3 DEF Needs
    <2> QED
        BY <2>4 DEF O
<1> DEFINE S == {h \in Files : Ok(h) /\ Needs(h, g)}
<1>3. g \in S /\ S \in SUBSET Files /\ \A h \in S : Ok(h)
    BY <1>2
<1>4. \A h \in S : \E e \in S : LoadsFile(h, e)
    <2> SUFFICES ASSUME NEW h \in S PROVE \E e \in S : LoadsFile(h, e)
        OBVIOUS
    <2>1. LoadsFile(h, g) \/ \E e \in Files : LoadsFile(h, e) /\ Needs(e, g)
        BY NeedsFirst
    <2> QED
        BY <1>1, <1>3, <2>1
<1> HIDE DEF S
<1> QED
    BY <1>0, <1>3, <1>4 DEF NoOkCycle

(***************************************************************************)
(* Whichever threads load which files, in whatever order: a file is done   *)
(* and ok only if all it loads are, so no file on a load cycle, and none   *)
(* that needs one, ever is.                                                *)
(***************************************************************************)
THEOREM LoaderFindsCycles == LoaderSpec => []CyclesAreFound
<1>1. LoaderInit => CycleInv
    <2> SUFFICES ASSUME LoaderInit PROVE CycleInv
        OBVIOUS
    <2>1. LoaderInv
        BY DEF LoaderInit, LoaderInv, LoaderTypeOK, HasAFile, Empty
    <2>2. \A f \in Files : ~Ok(f)
        BY SlotKinds DEF LoaderInit, Ok
    <2>3. \A t \in Threads : stack[t] = <<>> /\ Len(stack[t]) = 0 /\ pc[t] = "idle"
        BY DEF LoaderInit
    <2>4. \A t \in Threads : ThreadInv(t)
        BY <2>3 DEF ThreadInv, Owned, Distinct, LoadedSoFar, Chained
    <2> QED
        BY <2>1, <2>2, <2>4 DEF CycleInv, LoadsAreOk, NoOkCycle
<1>2. CycleInv => CyclesAreFound
    <2> SUFFICES ASSUME CycleInv, NEW f \in Files, Ok(f)
                 PROVE  ~Doomed(f) /\ \A i \in DOMAIN Loads[f] : Ok(Loads[f][i])
        BY DEF CyclesAreFound, Ok
    <2> QED
        BY OkIsNotDoomed DEF CycleInv, LoadsAreOk
<1> QED
    BY <1>1, <1>2, CycleInvStep, PTL DEF LoaderSpec
=============================================================================
