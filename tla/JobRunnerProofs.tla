---------------------------- MODULE JobRunnerProofs ----------------------------
(***************************************************************************)
(* Proofs about Channels, for every tree of channels, every set of jobs    *)
(* and every sequence of notifications and passes: the types, the place of *)
(* each job (ConsistentFlow), the order of sequential channels             *)
(* (NoOvertaking), that a pass starts all it can (PassIsComplete) and that *)
(* the runner sleeps until the next job can be sent (SleepsUntilNeeded).   *)
(*                                                                         *)
(* Then proofs about JobRunner, which rest on them, for every graph of     *)
(* jobs, number of workers and users, and every choice of faults: the      *)
(* runner implements module QueueJob, what it believes of a job is right   *)
(* or about to be corrected, and no channel is overrun.                    *)
(*                                                                         *)
(* Last, proofs about LazyQueue, for every set of jobs and every order: the *)
(* two heaps of a channel act as the set that Channels takes them for.     *)
(***************************************************************************)
EXTENDS JobRunner, LazyQueue, Induction

------------------------------------------------------------------------------
(* The places of a job in the tree: the patterns are those of FlowOf         *)

TreeType == [queue : [Channel -> SUBSET Job], running : [Channel -> SUBSET Job],
             failed : [Channel -> SUBSET Job]]

Nowhere(t, j) ==
  \A c \in Channel : j \notin t.queue[c] /\ j \notin t.running[c] /\ j \notin t.failed[c]

BlocksIn(t, j, b) ==
  \A c \in Channel : /\ j \notin t.queue[c] /\ j \notin t.running[c]
                     /\ j \in t.failed[c] <=> c = b

RunsBelow(t, j, b) ==
  \A c \in Channel : /\ j \notin t.queue[c] /\ j \notin t.failed[c]
                     /\ j \in t.running[c] <=> c \in Path(b)

WaitsIn(t, j, b, d) ==
  \A c \in Channel : /\ j \in t.queue[c] <=> c = d
                     /\ j \in t.running[c] <=> c \in Path(b) \ Path(d)
                     /\ j \notin t.failed[c]

\* A job of channel b is in a place where it may be.
Flows(t, j, b) ==
  \/ Nowhere(t, j)
  \/ BlocksIn(t, j, b)
  \/ RunsBelow(t, j, b)
  \/ \E d \in Path(b) : WaitsIn(t, j, b, d)

\* The trees t and u differ in nothing about i.
Alike(t, u, i) ==
  \A c \in Channel : /\ i \in t.queue[c] <=> i \in u.queue[c]
                     /\ i \in t.running[c] <=> i \in u.running[c]
                     /\ i \in t.failed[c] <=> i \in u.failed[c]

------------------------------------------------------------------------------
(* The tree of channels                                                      *)

LEMMA PathsAreChannels == ASSUME NEW c \in Channel PROVE Path(c) \subseteq Channel /\ c \in Path(c)
  BY TreeAssumption DEF Path

\* What lies above a channel other than the root is the path of its parent.
LEMMA ParentIsNext ==
  ASSUME NEW c \in Channel, c # Root
  PROVE  ParentOf(c) \in Above[c] /\ Path(ParentOf(c)) = Above[c] /\ ParentOf(c) \in Channel
<1>1. \E p \in Above[c] : \A d \in Above[c] : d \in Path(p)
  BY TreeAssumption DEF Path
<1>2. ParentOf(c) \in Above[c] /\ \A d \in Above[c] : d \in Path(ParentOf(c))
  BY <1>1 DEF ParentOf
<1>3. Above[ParentOf(c)] \subseteq Above[c] /\ Above[c] \subseteq Channel
  BY <1>2, TreeAssumption
<1> QED
  BY <1>2, <1>3 DEF Path

\* Nothing on a path is above itself, and what is above a member is on it.
LEMMA PathsAreClosed ==
  ASSUME NEW b \in Channel, NEW d \in Path(b)
  PROVE  Path(d) \subseteq Path(b) /\ d \notin Above[d] /\ d \in Channel
<1>1. CASE d = b
  <2>1. d \notin Above[d]
    BY <1>1, TreeAssumption
  <2> QED BY <1>1, <2>1
<1>2. CASE d \in Above[b]
  BY <1>2, TreeAssumption DEF Path
<1> QED
  BY <1>1, <1>2 DEF Path

------------------------------------------------------------------------------
(* The changes of a tree                                                     *)

LEMMA AlikeFlows ==
  ASSUME NEW t, NEW u, NEW i, NEW b \in Channel, Alike(t, u, i)
  PROVE  /\ Flows(t, i, b) => Flows(u, i, b)
         /\ Nowhere(t, i) => Nowhere(u, i)
<1>1. Nowhere(t, i) => Nowhere(u, i)
  BY DEF Alike, Nowhere
<1>2. BlocksIn(t, i, b) => BlocksIn(u, i, b)
  BY DEF Alike, BlocksIn
<1>3. RunsBelow(t, i, b) => RunsBelow(u, i, b)
  BY DEF Alike, RunsBelow
<1>4. \A d \in Path(b) : WaitsIn(t, i, b, d) => WaitsIn(u, i, b, d)
  BY DEF Alike, WaitsIn
<1> QED
  BY <1>1, <1>2, <1>3, <1>4 DEF Flows

LEMMA RemoveFlows ==
  ASSUME NEW t \in TreeType, NEW j \in Job, NEW b \in Channel, Flows(t, j, b)
  PROVE  /\ Remove(t, b, j) \in TreeType
         /\ Nowhere(Remove(t, b, j), j)
         /\ \A i \in Job \ {j} : Alike(t, Remove(t, b, j), i)
<1>1. Remove(t, b, j) \in TreeType /\ \A i \in Job \ {j} : Alike(t, Remove(t, b, j), i)
  BY DEF Remove, Without, TreeType, Alike
<1>2. \A c \in Channel \ Path(b) :
        j \notin t.queue[c] /\ j \notin t.running[c] /\ j \notin t.failed[c]
  BY PathsAreChannels DEF Flows, Nowhere, BlocksIn, RunsBelow, WaitsIn
<1>3. Nowhere(Remove(t, b, j), j)
  BY <1>2 DEF Remove, Without, Nowhere
<1> QED
  BY <1>1, <1>3

\* A job flows elsewhere than in the channels of its path nowhere.
LEMMA OnlyOnThePath ==
  ASSUME NEW t \in TreeType, NEW j \in Job, NEW b \in Channel, Flows(t, j, b)
  PROVE  \A c \in Channel \ Path(b) :
           j \notin t.queue[c] /\ j \notin t.running[c] /\ j \notin t.failed[c]
BY PathsAreChannels DEF Flows, Nowhere, BlocksIn, RunsBelow, WaitsIn

LEMMA SetPendingFlows ==
  ASSUME NEW t \in TreeType, NEW j \in Job, NEW b \in Channel, Flows(t, j, b)
  PROVE  /\ SetPending(t, b, j) \in TreeType
         /\ Flows(SetPending(t, b, j), j, b)
         /\ \A i \in Job \ {j} : Alike(t, SetPending(t, b, j), i)
<1>1. CASE j \in t.queue[b]
  BY <1>1 DEF SetPending, Alike
<1>2. CASE j \notin t.queue[b]
  <2> DEFINE u == [queue   |-> With(Without(t.queue, Above[b], j), {b}, j),
                   running |-> Without(t.running, Path(b), j),
                   failed  |-> Without(t.failed, Path(b), j)]
  <2>1. SetPending(t, b, j) = u
    BY <1>2 DEF SetPending
  <2>2. u \in TreeType /\ \A i \in Job \ {j} : Alike(t, u, i)
    BY DEF Without, With, TreeType, Alike
  <2>3. WaitsIn(u, j, b, b)
    BY OnlyOnThePath DEF Without, With, Path, TreeType, WaitsIn
  <2>4. Flows(u, j, b)
    BY <2>3, PathsAreChannels DEF Flows
  <2> QED
    BY <2>1, <2>2, <2>4
<1> QED
  BY <1>1, <1>2

LEMMA SetFailedFlows ==
  ASSUME NEW t \in TreeType, NEW j \in Job, NEW b \in Channel, Flows(t, j, b)
  PROVE  /\ SetFailed(t, b, j) \in TreeType
         /\ Flows(SetFailed(t, b, j), j, b)
         /\ \A i \in Job \ {j} : Alike(t, SetFailed(t, b, j), i)
<1>1. CASE j \in t.failed[b]
  BY <1>1 DEF SetFailed, Alike
<1>2. CASE j \notin t.failed[b]
  <2> DEFINE u == [queue   |-> Without(t.queue, Path(b), j),
                   running |-> Without(t.running, Path(b), j),
                   failed  |-> With(Without(t.failed, Above[b], j), {b}, j)]
  <2>1. SetFailed(t, b, j) = u
    BY <1>2 DEF SetFailed
  <2>2. u \in TreeType /\ \A i \in Job \ {j} : Alike(t, u, i)
    BY DEF Without, With, TreeType, Alike
  <2>3. BlocksIn(u, j, b)
    BY OnlyOnThePath DEF Without, With, Path, TreeType, BlocksIn
  <2> QED
    BY <2>1, <2>2, <2>3 DEF Flows
<1> QED
  BY <1>1, <1>2

\* set_running stops at the first channel where the job runs, and that is its own
\* unless it runs nowhere.
LEMMA SetRunningFlows ==
  ASSUME NEW t \in TreeType, NEW j \in Job, NEW b \in Channel, Flows(t, j, b)
  PROVE  /\ SetRunning(t, b, j) \in TreeType
         /\ Flows(SetRunning(t, b, j), j, b)
         /\ \A i \in Job \ {j} : Alike(t, SetRunning(t, b, j), i)
<1> DEFINE reached == {d \in Path(b) :
                         \A e \in Path(b) : d \in Path(e) => j \notin t.running[e]}
           u == SetRunning(t, b, j)
<1>1. u = [queue   |-> Without(t.queue, reached, j),
           running |-> With(t.running, reached, j),
           failed  |-> Without(t.failed, reached, j)]
  BY DEF SetRunning
<1>2. u \in TreeType /\ \A i \in Job \ {j} : Alike(t, u, i)
  BY <1>1 DEF Without, With, TreeType, Alike
<1>3. CASE j \in t.running[b]
  <2>1. reached = {}
    BY <1>3, PathsAreChannels
  <2>2. Alike(t, u, j)
    BY <1>1, <2>1 DEF Without, With, TreeType, Alike
  <2> QED
    BY <1>2, <2>2, AlikeFlows
<1>4. CASE j \notin t.running[b]
  <2>1. \A c \in Channel : j \notin t.running[c]
    <3>1. CASE Nowhere(t, j) \/ BlocksIn(t, j, b)
      BY <3>1 DEF Nowhere, BlocksIn
    <3>2. CASE RunsBelow(t, j, b)
      BY <1>4, <3>2, PathsAreChannels DEF RunsBelow
    <3>3. CASE \E d \in Path(b) : WaitsIn(t, j, b, d)
      <4>1. PICK d \in Path(b) : WaitsIn(t, j, b, d)
        BY <3>3
      <4>2. b \in Path(d)
        BY <1>4, <4>1, PathsAreChannels DEF WaitsIn
      <4>3. Path(b) \subseteq Path(d)
        BY <4>2, PathsAreChannels, PathsAreClosed
      <4> QED
        BY <4>1, <4>3 DEF WaitsIn
    <3> QED
      BY <3>1, <3>2, <3>3 DEF Flows
  <2>2. reached = Path(b)
    BY <2>1, PathsAreChannels
  <2>3. RunsBelow(u, j, b)
    BY <1>1, <2>1, <2>2, OnlyOnThePath, PathsAreChannels DEF Without, With, TreeType, RunsBelow
  <2> QED
    BY <1>2, <2>3 DEF Flows
<1> QED
  BY <1>3, <1>4

LEMMA TransitionFlows ==
  ASSUME NEW t \in TreeType, NEW j \in Job, NEW b \in Channel, NEW s \in States,
         Flows(t, j, b)
  PROVE  /\ Transition(t, b, j, s) \in TreeType
         /\ Flows(Transition(t, b, j, s), j, b)
         /\ \A i \in Job \ {j} : Alike(t, Transition(t, b, j, s), i)
<1> USE DEF WAIT_DEPENDENCIES, PENDING, ENQUEUED, STARTED, DONE, CANCELLED, FAILED
<1>1. CASE s \in {DONE, CANCELLED}
  <2>1. Transition(t, b, j, s) = Remove(t, b, j)
    BY <1>1 DEF Transition
  <2> QED BY <2>1, RemoveFlows DEF Flows
<1>2. CASE s = PENDING
  <2>1. Transition(t, b, j, s) = SetPending(t, b, j)
    BY <1>2 DEF Transition
  <2> QED BY <2>1, SetPendingFlows
<1>3. CASE s \in {ENQUEUED, STARTED}
  <2>1. Transition(t, b, j, s) = SetRunning(t, b, j)
    BY <1>3 DEF Transition
  <2> QED BY <2>1, SetRunningFlows
<1>4. CASE s = FAILED
  <2>1. Transition(t, b, j, s) = SetFailed(t, b, j)
    BY <1>4 DEF Transition
  <2> QED BY <2>1, SetFailedFlows
<1>5. CASE s = WAIT_DEPENDENCIES
  <2>1. Transition(t, b, j, s) = t
    BY <1>5 DEF Transition
  <2> QED BY <2>1 DEF Alike
<1> QED
  BY <1>1, <1>2, <1>3, <1>4, <1>5 DEF States

------------------------------------------------------------------------------
(* The types and the places of all jobs                                      *)

\* ConsistentFlow channel by channel.
FlowInv ==
  \A j \in Job : IF j \in known THEN Flows(Tree, j, ChannelOf[j]) ELSE Nowhere(Tree, j)

ChannelInv == ChannelsTypeOK /\ FlowInv

LEMMA EveryJobFlows ==
  ASSUME ChannelInv, NEW j \in Job
  PROVE  /\ Tree \in TreeType
         /\ ChannelOf[j] \in Channel
         /\ Flows(Tree, j, ChannelOf[j])
BY ConfigAssumption DEF ChannelInv, FlowInv, ChannelsTypeOK, Tree, TreeType, Flows

\* A tree in which j alone has changed, and is where it may be, is consistent.
LEMMA OneChange ==
  ASSUME ChannelInv, NEW j \in Job, NEW u \in TreeType, Become(u),
         \A i \in Job \ {j} : Alike(Tree, u, i),
         \A i \in Job \ {j} : i \in known' <=> i \in known,
         IF j \in known' THEN Flows(u, j, ChannelOf[j]) ELSE Nowhere(u, j)
  PROVE  /\ FlowInv'
         /\ queue' \in [Channel -> SUBSET Job]
         /\ running' \in [Channel -> SUBSET Job]
         /\ failed' \in [Channel -> SUBSET Job]
<1>1. Tree' = u
  BY DEF Become, Tree, TreeType
<1>2. \A i \in Job \ {j} :
        IF i \in known' THEN Flows(u, i, ChannelOf[i]) ELSE Nowhere(u, i)
  BY AlikeFlows, ConfigAssumption DEF ChannelInv, FlowInv
<1>3. FlowInv'
  BY <1>1, <1>2 DEF FlowInv
<1> QED
  BY <1>3 DEF Become, TreeType

LEMMA NotifyKeeps ==
  ASSUME ChannelInv, NEW j \in Job, NEW s \in States, NEW e \in 0..MaxTime, Notify(j, s, e)
  PROVE  ChannelInv'
<1> DEFINE b == ChannelOf[j]
           t == IF j \in known /\ e # eta[j] THEN Remove(Tree, b, j) ELSE Tree
           u == Transition(t, b, j, s)
<1>1. t \in TreeType /\ Flows(t, j, b) /\ \A i \in Job \ {j} : Alike(Tree, t, i)
  <2>1. CASE j \in known /\ e # eta[j]
    BY <2>1, EveryJobFlows, RemoveFlows DEF Flows
  <2>2. CASE ~(j \in known /\ e # eta[j])
    BY <2>2, EveryJobFlows DEF Alike
  <2> QED
    BY <2>1, <2>2
<1>2. u \in TreeType /\ Flows(u, j, b) /\ \A i \in Job \ {j} : Alike(t, u, i)
  <2> HIDE DEF t
  <2> QED BY <1>1, TransitionFlows, ConfigAssumption
<1>3. \A i \in Job \ {j} : Alike(Tree, u, i)
  <2> HIDE DEF t, u
  <2> QED BY <1>1, <1>2 DEF Alike
<1>4. Become(u) /\ known' = known \cup {j}
  BY DEF Notify
<1>5. FlowInv' /\ queue' \in [Channel -> SUBSET Job]
      /\ running' \in [Channel -> SUBSET Job] /\ failed' \in [Channel -> SUBSET Job]
  <2> HIDE DEF u
  <2> QED BY <1>2, <1>3, <1>4, OneChange
<1>6. ChannelsTypeOK'
  BY <1>4, <1>5 DEF Notify, ChannelInv, ChannelsTypeOK
<1> QED
  BY <1>5, <1>6 DEF ChannelInv

LEMMA RemoveJobKeeps ==
  ASSUME ChannelInv, NEW j \in Job, RemoveJob(j)
  PROVE  ChannelInv'
<1> DEFINE u == IF j \in known THEN Remove(Tree, ChannelOf[j], j) ELSE Tree
<1>1. u \in TreeType /\ Nowhere(u, j) /\ \A i \in Job \ {j} : Alike(Tree, u, i)
  BY EveryJobFlows, RemoveFlows DEF Alike, ChannelInv, FlowInv
<1>2. Become(u) /\ known' = known \ {j}
  BY DEF RemoveJob
<1>3. FlowInv' /\ queue' \in [Channel -> SUBSET Job]
      /\ running' \in [Channel -> SUBSET Job] /\ failed' \in [Channel -> SUBSET Job]
  <2> HIDE DEF u
  <2> QED BY <1>1, <1>2, OneChange
<1>4. ChannelsTypeOK'
  BY <1>2, <1>3, ConfigAssumption DEF RemoveJob, ChannelInv, ChannelsTypeOK
<1> QED
  BY <1>3, <1>4 DEF ChannelInv

LEMMA DueClearedType ==
  ASSUME eta \in [Job -> 0..MaxTime], NEW c \in Channel, DueCleared(c)
  PROVE  eta' \in [Job -> 0..MaxTime]
BY ConfigAssumption DEF DueCleared

\* Below c, j runs in all channels of its path; yielded, it runs in c as well and
\* is queued in what comes next.
LEMMA YieldMoves ==
  ASSUME ChannelInv, NEW c \in Channel, NEW j \in Job, Yield(c, j)
  PROVE  /\ Tree' \in TreeType /\ \A i \in Job \ {j} : Alike(Tree, Tree', i)
         /\ c \in Path(ChannelOf[j]) /\ WaitsIn(Tree, j, ChannelOf[j], c)
         /\ c = Root => RunsBelow(Tree', j, ChannelOf[j])
         /\ c # Root => /\ ParentOf(c) \in Path(ChannelOf[j])
                        /\ WaitsIn(Tree', j, ChannelOf[j], ParentOf(c))
<1> DEFINE b == ChannelOf[j]
           popped == [queue EXCEPT ![c] = @ \ {j}]
           u == [queue |-> IF c = Root THEN popped
                           ELSE [popped EXCEPT ![ParentOf(c)] = @ \cup {j}],
                 running |-> [running EXCEPT ![c] = @ \cup {j}],
                 failed |-> failed]
<1>1. j \in queue[c]
  BY DEF Yield, Pops, PopsAt, Ready, Due
<1>2. queue \in [Channel -> SUBSET Job] /\ running \in [Channel -> SUBSET Job]
      /\ failed \in [Channel -> SUBSET Job] /\ b \in Channel
  BY ConfigAssumption DEF ChannelInv, ChannelsTypeOK
<1>3. u \in TreeType /\ Tree' = u
  BY <1>2, ParentIsNext DEF TreeType, Tree, Yield
<1>4. \A i \in Job \ {j} : Alike(Tree, u, i)
  BY <1>2, ParentIsNext DEF Alike, Tree
<1>5. c \in Path(b) /\ WaitsIn(Tree, j, b, c)
  BY <1>1, EveryJobFlows DEF Flows, Nowhere, BlocksIn, RunsBelow, WaitsIn, Tree
<1>6. CASE c = Root
  <2>1. Path(c) = {c}
    BY <1>6, TreeAssumption DEF Path
  <2>2. RunsBelow(u, j, b)
    BY <1>2, <1>5, <1>6, <2>1 DEF RunsBelow, WaitsIn, Tree
  <2> QED
    BY <1>3, <1>4, <1>5, <1>6, <2>2
<1>7. CASE c # Root
  <2>1. ParentOf(c) \in Path(b) /\ ParentOf(c) \in Channel
        /\ Path(ParentOf(c)) = Above[c] /\ c \notin Above[c]
    BY <1>2, <1>5, <1>7, ParentIsNext, PathsAreClosed DEF Path
  <2>2. Path(b) \ Path(ParentOf(c)) = (Path(b) \ Path(c)) \cup {c}
    BY <1>5, <2>1 DEF Path
  <2>3. ParentOf(c) # c
    BY <2>1, ParentIsNext, <1>7
  <2>4. WaitsIn(u, j, b, ParentOf(c))
    BY <1>2, <1>5, <1>7, <2>1, <2>2, <2>3 DEF WaitsIn, Tree
  <2> QED
    BY <1>3, <1>4, <1>5, <1>7, <2>1, <2>4
<1> QED
  BY <1>6, <1>7

LEMMA YieldKeeps ==
  ASSUME ChannelInv, NEW c \in Channel, NEW j \in Job, Yield(c, j)
  PROVE  ChannelInv'
<1>1. j \in queue[c] /\ known' = known
  BY DEF Yield, Pops, PopsAt, Ready, Due
<1>2. j \in known
  BY <1>1 DEF ChannelInv, FlowInv, Nowhere, Tree
<1>3. Tree' \in TreeType /\ Flows(Tree', j, ChannelOf[j]) /\ Become(Tree')
  BY YieldMoves DEF Flows, Become, Tree
<1>4. FlowInv' /\ queue' \in [Channel -> SUBSET Job]
      /\ running' \in [Channel -> SUBSET Job] /\ failed' \in [Channel -> SUBSET Job]
  BY <1>1, <1>2, <1>3, YieldMoves, OneChange
<1>5. pause' \in [Channel -> Nat] /\ \A d \in Channel : pause'[d] <= MaxTime + Throttle[d]
  <2>1. /\ pause \in [Channel -> Nat] /\ Throttle \in [Channel -> Nat]
        /\ \A d \in Channel : pause[d] <= MaxTime + Throttle[d]
        /\ now \in 0..MaxTime /\ MaxTime \in Nat
    BY ConfigAssumption DEF ChannelInv, ChannelsTypeOK
  <2>2. pause' = [pause EXCEPT ![c] = IF Throttle[c] # 0 THEN now + Throttle[c] ELSE @]
    BY DEF Yield
  <2> QED BY <2>1, <2>2
<1>6. eta' \in [Job -> 0..MaxTime] /\ todo' \subseteq Channel /\ now' = now
  BY DueClearedType DEF ChannelInv, ChannelsTypeOK, Yield
<1>7. ChannelsTypeOK'
  BY <1>1, <1>4, <1>5, <1>6 DEF ChannelInv, ChannelsTypeOK
<1> QED
  BY <1>4, <1>7 DEF ChannelInv

LEMMA ExhaustKeeps ==
  ASSUME ChannelInv, NEW c \in Channel, Exhaust(c)
  PROVE  ChannelInv'
<1>1. UNCHANGED <<known, queue, running, failed, now>>
  BY DEF Exhaust
<1>2. FlowInv'
  BY <1>1 DEF ChannelInv, FlowInv, Tree, Flows, Nowhere, BlocksIn, RunsBelow, WaitsIn
<1>3. eta' \in [Job -> 0..MaxTime] /\ todo' \subseteq Channel
  BY DueClearedType DEF ChannelInv, ChannelsTypeOK, Exhaust
<1>4. pause' \in [Channel -> Nat] /\ \A d \in Channel : pause'[d] <= MaxTime + Throttle[d]
  <2>1. pause' = [pause EXCEPT ![c] = Unpaused(c)]
    BY DEF Exhaust
  <2>2. Unpaused(c) \in {0, pause[c]}
    BY DEF Unpaused
  <2>3. /\ pause \in [Channel -> Nat] /\ Throttle \in [Channel -> Nat] /\ MaxTime \in Nat
        /\ \A d \in Channel : pause[d] <= MaxTime + Throttle[d]
    BY ConfigAssumption DEF ChannelInv, ChannelsTypeOK
  <2>4. Unpaused(c) \in Nat /\ Unpaused(c) <= MaxTime + Throttle[c]
    BY <2>2, <2>3
  <2> QED
    BY <2>1, <2>3, <2>4
<1> QED
  BY <1>1, <1>2, <1>3, <1>4 DEF ChannelInv, ChannelsTypeOK

LEMMA BeginPassKeeps == ASSUME ChannelInv, BeginPass PROVE ChannelInv'
<1>1. UNCHANGED <<known, eta, queue, running, failed, pause>> /\ todo' = Channel
      /\ now' \in now..MaxTime
  BY DEF BeginPass
<1>2. FlowInv'
  BY <1>1 DEF ChannelInv, FlowInv, Tree, Flows, Nowhere, BlocksIn, RunsBelow, WaitsIn
<1> QED
  BY <1>1, <1>2, ConfigAssumption DEF ChannelInv, ChannelsTypeOK

LEMMA RemoveAllKeeps == ASSUME ChannelInv, RemoveAll PROVE ChannelInv'
<1>1. FlowInv'
  BY DEF RemoveAll, Become, FlowInv, Tree, Nowhere
<1>2. ChannelsTypeOK'
  BY ConfigAssumption DEF RemoveAll, Become, ChannelInv, ChannelsTypeOK
<1> QED
  BY <1>1, <1>2 DEF ChannelInv

\* What a runner reads when it connects is a state for each job: each goes where
\* its state puts it.
LEMMA LoadKeeps ==
  ASSUME ChannelInv, NEW rows \in [Job -> RowStates], NEW rowEta \in [Job -> 0..MaxTime],
         Load(rows, rowEta)
  PROVE  ChannelInv'
<1> DEFINE In(c, states) == {j \in Job : c \in Path(ChannelOf[j]) /\ rows[j] \in states}
           Own(c, s) == {j \in Job : ChannelOf[j] = c /\ rows[j] = s}
<1>1. /\ queue' = [c \in Channel |-> Own(c, PENDING)]
      /\ running' = [c \in Channel |-> In(c, {ENQUEUED, STARTED})]
      /\ failed' = [c \in Channel |-> Own(c, FAILED)]
      /\ known' = {j \in Job : rows[j] \in NOT_DONE}
      /\ eta' = [j \in Job |-> IF j \in known' THEN rowEta[j] ELSE 0]
      /\ UNCHANGED <<pause, todo, now>>
  BY DEF Load, Become
<1>2. ASSUME NEW j \in Job
      PROVE  IF j \in known' THEN Flows(Tree', j, ChannelOf[j]) ELSE Nowhere(Tree', j)
  <2> DEFINE b == ChannelOf[j]
  <2>0. b \in Channel /\ rows[j] \in RowStates
    BY ConfigAssumption
  <2>1. \A c \in Channel : /\ j \in queue'[c] <=> (b = c /\ rows[j] = PENDING)
                           /\ j \in running'[c] <=> (c \in Path(b) /\ rows[j] \in {ENQUEUED, STARTED})
                           /\ j \in failed'[c] <=> (b = c /\ rows[j] = FAILED)
    BY <1>1
  <2> USE DEF WAIT_DEPENDENCIES, PENDING, ENQUEUED, STARTED, DONE, CANCELLED, FAILED, Absent
  <2>2. CASE rows[j] = PENDING
    <3>1. WaitsIn(Tree', j, b, b)
      BY <2>1, <2>2 DEF WaitsIn, Tree
    <3> QED
      BY <1>1, <2>0, <2>2, <3>1, PathsAreChannels DEF Flows, NOT_DONE
  <2>3. CASE rows[j] \in {ENQUEUED, STARTED}
    <3>1. RunsBelow(Tree', j, b)
      BY <2>1, <2>3 DEF RunsBelow, Tree
    <3> QED
      BY <1>1, <2>3, <3>1 DEF Flows, NOT_DONE
  <2>4. CASE rows[j] = FAILED
    <3>1. BlocksIn(Tree', j, b)
      BY <2>1, <2>4 DEF BlocksIn, Tree
    <3> QED
      BY <1>1, <2>4, <3>1 DEF Flows, NOT_DONE
  <2>5. CASE rows[j] \in {WAIT_DEPENDENCIES, DONE, CANCELLED, Absent}
    <3>1. Nowhere(Tree', j)
      BY <2>1, <2>5 DEF Nowhere, Tree
    <3> QED
      BY <3>1 DEF Flows
  <2> QED
    BY <2>0, <2>2, <2>3, <2>4, <2>5 DEF RowStates, States
<1>3. FlowInv'
  BY <1>2 DEF FlowInv
<1>4. ChannelsTypeOK'
  BY <1>1, ConfigAssumption DEF ChannelInv, ChannelsTypeOK
<1> QED
  BY <1>3, <1>4 DEF ChannelInv

LEMMA InvHolds == ChannelsSpec => []ChannelInv
<1>1. ChannelsInit => ChannelInv
  <2> SUFFICES ASSUME ChannelsInit PROVE ChannelInv
    OBVIOUS
  <2>1. FlowInv
    BY DEF ChannelsInit, FlowInv, Nowhere, Tree
  <2>2. ChannelsTypeOK
    BY ConfigAssumption DEF ChannelsInit, ChannelsTypeOK
  <2> QED
    BY <2>1, <2>2 DEF ChannelInv
<1>2. ChannelInv /\ [ChannelsNext]_channelVars => ChannelInv'
  <2> SUFFICES ASSUME ChannelInv, [ChannelsNext]_channelVars PROVE ChannelInv'
    OBVIOUS
  <2>1. ASSUME NEW j \in Job, Handle(j) PROVE ChannelInv'
    BY <2>1, NotifyKeeps, RemoveJobKeeps DEF Handle
  <2>2. CASE BeginPass
    BY <2>2, BeginPassKeeps
  <2>3. ASSUME NEW c \in Channel, Exhaust(c) \/ \E j \in Job : Yield(c, j) PROVE ChannelInv'
    BY <2>3, ExhaustKeeps, YieldKeeps
  <2>4. CASE RemoveAll
    BY <2>4, RemoveAllKeeps
  <2>5. CASE UNCHANGED channelVars
    <3>1. FlowInv'
      BY <2>5 DEF channelVars, ChannelInv, FlowInv, Tree, Flows, Nowhere, BlocksIn, RunsBelow, WaitsIn
    <3> QED
      BY <2>5, <3>1 DEF channelVars, ChannelInv, ChannelsTypeOK
  <2> QED
    BY <2>1, <2>2, <2>3, <2>4, <2>5 DEF ChannelsNext
<1> QED
  BY <1>1, <1>2, PTL DEF ChannelsSpec

\* The channels keep their types for every tree, whatever they are notified of.
THEOREM ChannelTypesCorrect == ChannelsSpec => []ChannelsTypeOK
<1>1. ChannelInv => ChannelsTypeOK
  BY DEF ChannelInv
<1> QED
  BY <1>1, InvHolds, PTL

\* The patterns are those of FlowOf.
LEMMA PatternsOfFlow ==
  ASSUME NEW j \in Job, ChannelOf[j] \in Channel
  PROVE  /\ Flows(Tree, j, ChannelOf[j]) => FlowOf(j)
         /\ Nowhere(Tree, j) =>
              Holding(queue, j) \cup Holding(running, j) \cup Holding(failed, j) = {}
<1> DEFINE b == ChannelOf[j]
<1>1. Nowhere(Tree, j) =>
        Holding(queue, j) = {} /\ Holding(running, j) = {} /\ Holding(failed, j) = {}
  BY DEF Nowhere, Tree, Holding
<1>2. BlocksIn(Tree, j, b) =>
        Holding(queue, j) = {} /\ Holding(running, j) = {} /\ Holding(failed, j) = {b}
  BY DEF BlocksIn, Tree, Holding
<1>3. RunsBelow(Tree, j, b) =>
        Holding(queue, j) = {} /\ Holding(running, j) = Path(b) /\ Holding(failed, j) = {}
  BY PathsAreChannels DEF RunsBelow, Tree, Holding
<1>4. ASSUME NEW d \in Path(b), WaitsIn(Tree, j, b, d)
      PROVE  /\ Holding(queue, j) = {d} /\ Holding(failed, j) = {}
             /\ Holding(running, j) = Path(b) \ Path(d)
  BY <1>4, PathsAreChannels DEF WaitsIn, Tree, Holding
<1> QED
  BY <1>1, <1>2, <1>3, <1>4 DEF Flows, FlowOf

\* In every tree, whatever notifications come in whatever order and wherever a pass
\* is: a job is queued in one channel at most and runs in exactly those upstream of
\* it, a failed one blocks its own channel alone, and nothing is left of an unknown
\* one.
THEOREM FlowIsConsistent == ChannelsSpec => []ConsistentFlow
<1>1. ChannelInv => ConsistentFlow
  <2> SUFFICES ASSUME ChannelInv, NEW j \in Job
               PROVE  IF j \in known THEN FlowOf(j)
                      ELSE Holding(queue, j) \cup Holding(running, j) \cup Holding(failed, j) = {}
    BY DEF ConsistentFlow
  <2>1. ChannelOf[j] \in Channel
    BY ConfigAssumption
  <2> QED
    BY <2>1, PatternsOfFlow DEF ChannelInv, FlowInv
<1> QED
  BY <1>1, InvHolds, PTL

------------------------------------------------------------------------------
(* The order of sequential channels                                          *)

\* Only a yield of c makes j run there during a pass.
LEMMA StartsByYield ==
  ASSUME ChannelInv, [ChannelsNext]_channelVars,
         NEW c \in Channel, NEW j \in Job, StartsIn(c, j)
  PROVE  Yield(c, j)
<1>1. todo # {} /\ j \in running'[c] /\ j \notin running[c]
  BY DEF StartsIn
<1>2. ASSUME NEW i \in Job, Handle(i) PROVE FALSE
  BY <1>1, <1>2 DEF Handle
<1>3. ~BeginPass
  BY <1>1 DEF BeginPass
<1>4. ASSUME NEW d \in Channel, Exhaust(d) PROVE FALSE
  BY <1>1, <1>4 DEF Exhaust
<1>5. ASSUME NEW d \in Channel, NEW i \in Job, Yield(d, i) PROVE Yield(c, j)
  <2>1. running' = [running EXCEPT ![d] = @ \cup {i}] /\ running \in [Channel -> SUBSET Job]
    BY <1>5 DEF Yield, ChannelInv, ChannelsTypeOK
  <2>2. d = c /\ i = j
    BY <1>1, <2>1
  <2> QED
    BY <1>5, <2>2
<1>6. ~RemoveAll
  BY <1>1 DEF RemoveAll, Become
<1>7. ~UNCHANGED channelVars
  BY <1>1 DEF channelVars
<1> QED
  BY <1>2, <1>3, <1>4, <1>5, <1>6, <1>7 DEF ChannelsNext

\* In a sequential channel of any tree, a job that starts overtakes no job that is
\* due, and none whose eta is the earliest.
THEOREM OrderIsKept == ChannelsSpec => NoOvertaking
<1>1. ChannelInv /\ [ChannelsNext]_channelVars => [KeepsOrder]_channelVars
  <2> SUFFICES ASSUME ChannelInv, [ChannelsNext]_channelVars,
                      NEW c \in Sequential, NEW i \in Job, NEW j \in Job,
                      StartsIn(c, j), i \in queue[c], Rank[i] < Rank[j]
               PROVE  eta[i] > now /\ \E k \in queue[c] : eta[k] > now /\ ~Earlier(i, k)
    BY DEF KeepsOrder
  <2>1. c \in Channel /\ queue[c] \subseteq Job /\ Rank \in [Job -> Nat]
        /\ eta \in [Job -> Nat] /\ now \in Nat
    BY ConfigAssumption DEF ChannelInv, ChannelsTypeOK
  <2>2. PopsAt(c, j, now)
    BY <2>1, StartsByYield DEF Yield, Pops
  <2>3. i \notin Ready(c, now)
    BY <2>1, <2>2 DEF PopsAt
  <2>4. eta[i] > now
    BY <2>1, <2>3 DEF Ready, Due
  <2>5. PICK k \in queue[c] \ Ready(c, now) : ~Earlier(i, k)
    BY <2>2, <2>3 DEF PopsAt, HeldBack
  <2>6. eta[k] > now
    BY <2>1, <2>5 DEF Ready, Due
  <2> QED
    BY <2>4, <2>5, <2>6
<1> QED
  BY <1>1, InvHolds, PTL DEF ChannelsSpec, NoOvertaking

------------------------------------------------------------------------------
(* A pass                                                                    *)

\* The generators of the channels above one that goes on go on as well, and what
\* is exhausted has nothing left to do.
PassInv ==
  /\ \A d \in todo : Above[d] \subseteq todo
  /\ PassIsComplete

\* Whether e pops a job depends on its own queue, and the etas of it.
LEMMA SamePops ==
  ASSUME NEW e \in Channel, NEW j \in queue[e],
         queue'[e] = queue[e], now' = now, \A k \in queue[e] : eta'[k] = eta[k]
  PROVE  Pops(e, j)' => Pops(e, j)
<1>1. Due(e, now)' = Due(e, now) /\ Ready(e, now)' = Ready(e, now)
  BY DEF Due, Ready
<1>2. Ready(e, now) \subseteq queue[e]
  BY DEF Due, Ready
<1>3. \A i, k \in queue[e] : Earlier(i, k)' <=> Earlier(i, k)
  BY DEF Earlier
<1>4. HeldBack(e, j, now)' <=> HeldBack(e, j, now)
  BY <1>1, <1>3 DEF HeldBack
<1> QED
  BY <1>1, <1>4 DEF Pops, PopsAt

\* That jobs of c whose time has come lose their eta changes nothing either.
LEMMA ClearedPops ==
  ASSUME ChannelInv, NEW c \in Channel, NEW j \in queue[c], DueCleared(c),
         queue' = queue, now' = now
  PROVE  Pops(c, j)' => Pops(c, j)
<1>0. queue[c] \subseteq Job /\ eta \in [Job -> Nat] /\ now \in Nat
  BY ConfigAssumption DEF ChannelInv, ChannelsTypeOK
<1>1. eta' = [k \in Job |-> IF k \in Due(c, now) THEN 0 ELSE eta[k]]
  BY DEF DueCleared
<1>2. Ready(c, now)' = Ready(c, now)
  BY <1>0, <1>1 DEF Due, Ready
<1>3. \A k \in queue[c] \ Ready(c, now) : eta'[k] = eta[k]
  BY <1>0, <1>1 DEF Ready
<1>4. \A i, k \in queue[c] \ Ready(c, now) : Earlier(i, k)' <=> Earlier(i, k)
  BY <1>3 DEF Earlier
<1>5. HeldBack(c, j, now)' <=> HeldBack(c, j, now)
  BY <1>2, <1>4 DEF HeldBack
<1> QED
  BY <1>2, <1>5 DEF Pops, PopsAt

\* Etas that c clears are not of jobs in the queues of others.
LEMMA OtherEtas ==
  ASSUME ChannelInv, NEW c \in Channel, NEW e \in Channel, e # c, DueCleared(c) \/ UNCHANGED eta
  PROVE  \A k \in queue[e] : eta'[k] = eta[k]
<1> SUFFICES ASSUME NEW k \in queue[e] PROVE eta'[k] = eta[k]
  OBVIOUS
<1>1. k \in Job
  BY DEF ChannelInv, ChannelsTypeOK
<1>2. k \notin queue[c]
  BY <1>1, EveryJobFlows DEF Flows, Nowhere, BlocksIn, RunsBelow, WaitsIn, Tree
<1> QED
  BY <1>1, <1>2 DEF DueCleared, Due

\* The generators left above one that goes on, when c ends or goes on.
LEMMA AboveGoesOn ==
  ASSUME PassInv, NEW c \in Channel, MayPull(c), todo' \in {todo, todo \ {c}}
  PROVE  (\A d \in todo : Above[d] \subseteq todo)'
BY DEF PassInv, MayPull

\* Whether e has capacity or is paused does not change where nothing changes.
LEMMA SameCapacity ==
  ASSUME NEW e \in Channel, running'[e] = running[e], failed'[e] = failed[e]
  PROVE  HasCapacity(e)' <=> HasCapacity(e)
BY DEF HasCapacity

LEMMA PausedChannels ==
  ASSUME NEW e \in Channel, pause'[e] = pause[e], now' = now
  PROVE  Paused(e)' <=> Paused(e)
BY DEF Paused

LEMMA ExhaustCompletes ==
  ASSUME ChannelInv, PassInv, NEW c \in Channel, Exhaust(c)
  PROVE  PassInv'
<1> USE DEF Exhaust
<1>1. (\A d \in todo : Above[d] \subseteq todo)'
  BY AboveGoesOn
<1>2. ASSUME todo' # {}, NEW e \in Channel, e \notin todo', HasCapacity(e)', ~Paused(e)',
             NEW j \in queue'[e], Pops(e, j)'
      PROVE  FALSE
  <2>1. pause \in [Channel -> Nat] /\ todo # {}
    BY <1>2 DEF ChannelInv, ChannelsTypeOK
  <2>2. HasCapacity(e)
    BY <1>2, SameCapacity
  <2>3. CASE e # c
    <3>1. ~Paused(e) /\ e \notin todo
      BY <1>2, <2>1, <2>3, PausedChannels
    <3>2. \A k \in queue[e] : eta'[k] = eta[k]
      BY <2>3, OtherEtas
    <3> QED
      BY <1>2, <2>1, <2>2, <3>1, <3>2, SamePops DEF PassInv, PassIsComplete
  <2>4. CASE e = c
    <3>1. ~Paused(c)
      BY <1>2, <2>1, <2>4 DEF Paused, Unpaused
    <3>2. ~Pops(c, j) /\ DueCleared(c)
      BY <1>2, <2>2, <2>4, <3>1
    <3> QED
      BY <1>2, <2>4, <3>2, ClearedPops
  <2> QED
    BY <2>3, <2>4
<1>3. PassIsComplete'
  BY <1>2 DEF PassIsComplete
<1> QED
  BY <1>1, <1>3 DEF PassInv

\* A channel that yields has its parent go on after it, and gives nothing to others.
LEMMA YieldCompletes ==
  ASSUME ChannelInv, PassInv, NEW c \in Channel, NEW i \in Job, Yield(c, i)
  PROVE  PassInv'
<1>1. (\A d \in todo : Above[d] \subseteq todo)'
  BY AboveGoesOn DEF Yield
<1>2. ASSUME todo' # {}, NEW e \in Channel, e \notin todo', HasCapacity(e)', ~Paused(e)',
             NEW j \in queue'[e], Pops(e, j)'
      PROVE  FALSE
  <2>1. /\ pause \in [Channel -> Nat] /\ running \in [Channel -> SUBSET Job]
        /\ queue \in [Channel -> SUBSET Job] /\ now \in Nat /\ Throttle \in [Channel -> Nat]
    BY ConfigAssumption DEF ChannelInv, ChannelsTypeOK
  <2>2. c \in todo /\ UNCHANGED <<failed, now>> /\ DueCleared(c)
        /\ pause' = [pause EXCEPT ![c] = IF Throttle[c] # 0 THEN now + Throttle[c] ELSE @]
        /\ todo' = IF Throttle[c] # 0 THEN todo \ {c} ELSE todo
    BY DEF Yield, MayPull
  <2>3. CASE e = c
    <3>1. Throttle[c] # 0
      BY <1>2, <2>2, <2>3
    <3>2. pause'[c] = now + Throttle[c] /\ now' = now
      BY <2>1, <2>2, <3>1
    <3>3. Paused(c)'
      BY <2>1, <3>1, <3>2 DEF Paused
    <3> QED
      BY <1>2, <2>3, <3>3
  <2>4. CASE e # c
    <3>1. e \notin todo
      BY <1>2, <2>2, <2>4
    <3>2. c # Root => e # ParentOf(c)
      BY <2>2, <3>1, ParentIsNext DEF PassInv
    <3>3. queue'[e] = queue[e] /\ running'[e] = running[e]
      BY <2>1, <2>4, <3>2, ParentIsNext DEF Yield
    <3>4. HasCapacity(e) /\ ~Paused(e)
      BY <1>2, <2>1, <2>2, <2>4, <3>3, SameCapacity, PausedChannels
    <3>5. \A k \in queue[e] : eta'[k] = eta[k]
      BY <2>2, <2>4, OtherEtas
    <3> QED
      BY <1>2, <2>2, <3>1, <3>3, <3>4, <3>5, SamePops DEF PassInv, PassIsComplete
  <2> QED
    BY <2>3, <2>4
<1>3. PassIsComplete'
  BY <1>2 DEF PassIsComplete
<1> QED
  BY <1>1, <1>3 DEF PassInv

LEMMA PassHolds == ChannelsSpec => []PassInv
<1>1. ChannelsInit => PassInv
  BY DEF ChannelsInit, PassInv, PassIsComplete
<1>2. ChannelInv /\ PassInv /\ [ChannelsNext]_channelVars => PassInv'
  <2> SUFFICES ASSUME ChannelInv, PassInv, [ChannelsNext]_channelVars PROVE PassInv'
    OBVIOUS
  <2>1. ASSUME NEW j \in Job, Handle(j) PROVE PassInv'
    <3>1. todo' = {}
      BY <2>1 DEF Handle, Notify, RemoveJob
    <3> QED
      BY <3>1 DEF PassInv, PassIsComplete
  <2>2. CASE BeginPass
    BY <2>2, TreeAssumption DEF BeginPass, PassInv, PassIsComplete
  <2>3. ASSUME NEW c \in Channel, Exhaust(c) \/ \E j \in Job : Yield(c, j) PROVE PassInv'
    BY <2>3, ExhaustCompletes, YieldCompletes
  <2>4. CASE RemoveAll
    <3>1. todo' = {}
      BY <2>4 DEF RemoveAll
    <3> QED
      BY <3>1 DEF PassInv, PassIsComplete
  <2>5. CASE UNCHANGED channelVars
    <3>1. UNCHANGED <<eta, queue, running, failed, pause, todo, now>>
      BY <2>5 DEF channelVars
    <3>2. ASSUME NEW e \in Channel PROVE (HasCapacity(e)' <=> HasCapacity(e)) /\ (Paused(e)' <=> Paused(e))
      BY <3>1, SameCapacity, PausedChannels
    <3>3. ASSUME NEW e \in Channel, NEW j \in queue[e] PROVE Pops(e, j)' => Pops(e, j)
      BY <3>1, SamePops
    <3> QED
      BY <3>1, <3>2, <3>3 DEF PassInv, PassIsComplete
  <2> QED
    BY <2>1, <2>2, <2>3, <2>4, <2>5 DEF ChannelsNext
<1> QED
  BY <1>1, <1>2, InvHolds, PTL DEF ChannelsSpec

\* In every tree, a channel whose generator is exhausted has no job left that it
\* could run, unless its throttle keeps it: one pass is enough.
THEOREM PassesAreComplete == ChannelsSpec => []PassIsComplete
<1>1. PassInv => PassIsComplete
  BY DEF PassInv
<1> QED
  BY <1>1, PassHolds, PTL

------------------------------------------------------------------------------
(* The sleep after a pass                                                    *)

\* A channel whose generator has ended is not paused, or for a time to come; if it has
\* room, no job of it is due, and it has nothing to pop.
AtRest(c) ==
  /\ pause[c] = 0 \/ pause[c] > now
  /\ pause[c] = 0 /\ HasCapacity(c) =>
       Due(c, now) = {} /\ \A j \in queue[c] : ~Pops(c, j)

\* As a pass ends its channels one by one, it ends only if they are finitely many.
RestInv ==
  todo # {} => IsFiniteSet(Channel \ todo) /\ \A c \in Channel \ todo : AtRest(c)

\* What c does leaves others at rest, as long as it gives them nothing.
LEMMA OthersRest ==
  ASSUME ChannelInv, NEW c \in Channel, NEW e \in Channel, e # c, AtRest(e),
         DueCleared(c) \/ UNCHANGED eta, now' = now, queue'[e] = queue[e],
         running'[e] = running[e], failed'[e] = failed[e], pause'[e] = pause[e]
  PROVE  AtRest(e)'
<1>1. \A k \in queue[e] : eta'[k] = eta[k]
  BY OtherEtas
<1>2. Due(e, now)' = Due(e, now)
  BY <1>1 DEF Due
<1>3. \A j \in queue[e] : Pops(e, j)' => Pops(e, j)
  BY <1>1, SamePops
<1>4. HasCapacity(e)' <=> HasCapacity(e)
  BY SameCapacity
<1>5. QED
  BY <1>2, <1>3, <1>4 DEF AtRest

LEMMA ExhaustRests ==
  ASSUME ChannelInv, NEW c \in Channel, Exhaust(c)
  PROVE  AtRest(c)'
<1>1. /\ pause \in [Channel -> Nat] /\ now \in Nat /\ now' = now
      /\ queue' = queue /\ running' = running /\ failed' = failed
      /\ queue[c] \subseteq Job /\ eta \in [Job -> Nat]
  BY ConfigAssumption DEF Exhaust, ChannelInv, ChannelsTypeOK
<1>2. pause'[c] = Unpaused(c)
  BY <1>1 DEF Exhaust
<1>3. CASE Paused(c)
  <2>1. pause'[c] > now /\ pause'[c] # 0
    BY <1>1, <1>2, <1>3 DEF Unpaused, Paused
  <2>2. QED
    BY <1>1, <2>1 DEF AtRest
<1>4. CASE ~Paused(c)
  <2>1. pause'[c] = 0
    BY <1>2, <1>4 DEF Unpaused
  <2>2. ASSUME HasCapacity(c)'
        PROVE  Due(c, now)' = {} /\ \A j \in queue'[c] : ~Pops(c, j)'
    <3>1. DueCleared(c) /\ \A j \in queue[c] : ~Pops(c, j)
      BY <1>1, <1>4, <2>2, SameCapacity DEF Exhaust
    <3>2. Due(c, now)' = {}
      BY <1>1, <3>1 DEF Due, DueCleared
    <3>3. \A j \in queue'[c] : ~Pops(c, j)'
      BY <1>1, <3>1, ClearedPops
    <3>4. QED
      BY <3>2, <3>3
  <2>3. QED
    BY <2>1, <2>2 DEF AtRest
<1>5. QED
  BY <1>3, <1>4

LEMMA YieldRests ==
  ASSUME ChannelInv, NEW c \in Channel, NEW j \in Job, Yield(c, j), Throttle[c] # 0
  PROVE  AtRest(c)'
<1>1. pause \in [Channel -> Nat] /\ now \in Nat /\ now' = now /\ Throttle[c] \in Nat
  <2>1. pause \in [Channel -> Nat] /\ now \in 0..MaxTime
    BY DEF ChannelInv, ChannelsTypeOK
  <2>2. now' = now
    BY DEF Yield
  <2>3. MaxTime \in Nat /\ Throttle \in [Channel -> Nat]
    BY ConfigAssumption
  <2>4. QED
    BY <2>1, <2>2, <2>3
<1>2. pause'[c] = now + Throttle[c]
  BY <1>1 DEF Yield
<1>3. pause'[c] > now /\ pause'[c] # 0
  BY <1>1, <1>2
<1>4. QED
  BY <1>1, <1>3 DEF AtRest

\* One step of a pass: what is exhausted has come to rest, also when nothing is left.
LEMMA PassRests ==
  ASSUME ChannelInv, PassInv, RestInv, NEW c \in Channel,
         Exhaust(c) \/ \E j \in Job : Yield(c, j)
  PROVE  /\ todo' \in {todo, todo \ {c}} /\ c \in todo /\ now' = now
         /\ IsFiniteSet(Channel \ todo')
         /\ \A e \in Channel \ todo' : AtRest(e)'
<1>1. /\ todo' \in {todo, todo \ {c}} /\ c \in todo /\ now' = now
      /\ DueCleared(c) \/ UNCHANGED eta
  BY DEF Exhaust, Yield, MayPull
<1>2. IsFiniteSet(Channel \ todo) /\ \A e \in Channel \ todo : AtRest(e)
  BY <1>1 DEF RestInv
<1>3. IsFiniteSet(Channel \ todo')
  <2>1. Channel \ todo' \in {Channel \ todo, (Channel \ todo) \cup {c}}
    BY <1>1
  <2>2. IsFiniteSet((Channel \ todo) \cup {c})
    BY <1>2, FS_AddElement
  <2>3. QED
    BY <1>2, <2>1, <2>2
<1>4. ASSUME NEW e \in Channel \ todo'
      PROVE  AtRest(e)'
  <2>1. CASE e = c /\ Exhaust(c)
    BY <2>1, ExhaustRests
  <2>2. CASE e = c /\ \E j \in Job : Yield(c, j)
    <3>1. PICK j \in Job : Yield(c, j)
      BY <2>2
    <3>2. Throttle[c] # 0
      BY <1>1, <1>4, <2>2, <3>1 DEF Yield
    <3>3. QED
      BY <2>2, <3>1, <3>2, YieldRests
  <2>3. CASE e # c
    <3>1. e \notin todo /\ AtRest(e)
      BY <1>1, <1>2, <1>4, <2>3
    <3>2. pause'[e] = pause[e] /\ failed'[e] = failed[e]
      BY <2>3 DEF Exhaust, Yield, ChannelInv, ChannelsTypeOK
    <3>3. queue'[e] = queue[e] /\ running'[e] = running[e]
      <4>1. CASE Exhaust(c)
        BY <4>1 DEF Exhaust
      <4>2. ASSUME NEW j \in Job, Yield(c, j)
            PROVE  queue'[e] = queue[e] /\ running'[e] = running[e]
        <5>1. c # Root => e # ParentOf(c)
          BY <1>1, <3>1, ParentIsNext DEF PassInv
        <5>2. running \in [Channel -> SUBSET Job] /\ queue \in [Channel -> SUBSET Job]
          BY DEF ChannelInv, ChannelsTypeOK
        <5>3. QED
          BY <2>3, <4>2, <5>1, <5>2, ParentIsNext DEF Yield
      <4>3. QED
        BY <4>1, <4>2
    <3>4. QED
      BY <1>1, <2>3, <3>1, <3>2, <3>3, OthersRest
  <2>4. QED
    BY <2>1, <2>2, <2>3
<1>5. QED
  BY <1>1, <1>3, <1>4

LEMMA RestKept ==
  ASSUME ChannelInv, PassInv, RestInv, [ChannelsNext]_channelVars
  PROVE  RestInv'
<1>1. ASSUME NEW j \in Job, Handle(j) PROVE RestInv'
  BY <1>1 DEF Handle, Notify, RemoveJob, RestInv
<1>2. CASE BeginPass
  <2>1. todo' = Channel /\ Channel \ Channel = {}
    BY <1>2 DEF BeginPass
  <2>2. QED
    BY <2>1, FS_EmptySet DEF RestInv
<1>3. ASSUME NEW c \in Channel, Exhaust(c) \/ \E j \in Job : Yield(c, j) PROVE RestInv'
  <2>1. IsFiniteSet(Channel \ todo') /\ \A e \in Channel \ todo' : AtRest(e)'
    BY <1>3, PassRests
  <2>2. QED
    BY <2>1 DEF RestInv
<1>4. CASE RemoveAll
  BY <1>4 DEF RemoveAll, RestInv
<1>5. CASE UNCHANGED channelVars
  <2>1. UNCHANGED <<eta, queue, running, failed, pause, todo, now>>
    BY <1>5 DEF channelVars
  <2>2. \A c \in Channel : AtRest(c)' <=> AtRest(c)
    BY <2>1 DEF AtRest, HasCapacity, Due, Pops, PopsAt, Ready, HeldBack, Earlier
  <2>3. QED
    BY <2>1, <2>2 DEF RestInv
<1>6. QED
  BY <1>1, <1>2, <1>3, <1>4, <1>5 DEF ChannelsNext

\* Among finitely many channels, one is above no other of a set of them.
LEMMA Topmost ==
  ASSUME IsFiniteSet(Channel), NEW S \in SUBSET Channel, S # {}
  PROVE  \E d \in S : Above[d] \cap S = {}
<1> DEFINE heights == {Cardinality(Above[d]) : d \in S}
<1>1. \A d \in Channel : IsFiniteSet(Above[d]) /\ Cardinality(Above[d]) \in Nat
  <2> SUFFICES ASSUME NEW d \in Channel
               PROVE  IsFiniteSet(Above[d]) /\ Cardinality(Above[d]) \in Nat
    OBVIOUS
  <2>1. Above[d] \in SUBSET Channel
    BY TreeAssumption
  <2>2. QED
    BY <2>1, FS_Subset, FS_CardinalityType
<1>2. heights \in SUBSET Nat /\ heights # {}
  BY <1>1
<1>3. PICK n \in heights : \A m \in heights : n <= m
  <2> HIDE DEF heights
  <2>1. QED
    BY <1>2, LeastNumber
<1>4. PICK d \in S : n = Cardinality(Above[d])
  BY <1>3
<1>5. ASSUME NEW e \in Above[d] \cap S
      PROVE  FALSE
  <2>1. Above[e] \in SUBSET Above[d] /\ e \notin Above[e] /\ e \in Above[d]
    BY <1>5, TreeAssumption
  <2>2. Above[d] # Above[e]
    BY <2>1
  <2>3. /\ Cardinality(Above[e]) <= Cardinality(Above[d])
        /\ Cardinality(Above[e]) # Cardinality(Above[d])
    BY <1>1, <2>1, <2>2, FS_Subset
  <2>4. Cardinality(Above[d]) <= Cardinality(Above[e])
    BY <1>3, <1>4
  <2>5. Cardinality(Above[d]) \in Nat /\ Cardinality(Above[e]) \in Nat
    BY <1>1
  <2>6. QED
    BY <2>3, <2>4, <2>5
<1>6. QED
  BY <1>5

\* When all channels are at rest, every time that a channel reached by
\* get_wakeup_time says is to come.
LEMMA TimesToCome ==
  ASSUME ChannelInv, \A c \in Channel : AtRest(c), NEW w \in WakeupTimes
  PROVE  w \in Nat /\ w > now
<1>1. /\ pause \in [Channel -> Nat] /\ now \in Nat /\ eta \in [Job -> Nat]
      /\ queue \in [Channel -> SUBSET Job]
  BY ConfigAssumption DEF ChannelInv, ChannelsTypeOK
<1>2. CASE \E c \in Channel : w = pause[c] /\ pause[c] # 0
  BY <1>1, <1>2 DEF AtRest
<1>3. CASE \E c \in Channel : \E i \in queue[c] :
             Reached(c) /\ w = eta[i] /\ eta[i] # 0 /\ pause[c] = 0
  <2>1. PICK c \in Channel : \E i \in queue[c] :
          Reached(c) /\ w = eta[i] /\ eta[i] # 0 /\ pause[c] = 0
    BY <1>3
  <2>1a. PICK i \in queue[c] : Reached(c) /\ w = eta[i] /\ eta[i] # 0 /\ pause[c] = 0
    BY <2>1
  <2>2. HasCapacity(c)
    BY <2>1 DEF Reached, Path
  <2>3. i \notin Due(c, now) /\ i \in Job
    BY <1>1, <2>1a, <2>2 DEF AtRest
  <2>4. QED
    BY <1>1, <2>1a, <2>3 DEF Due
<1>4. QED
  BY <1>2, <1>3 DEF WakeupTimes

\* The runner sleeps, until the first of these times.
LEMMA SleepsUntilFirst ==
  ASSUME ChannelInv, \A c \in Channel : AtRest(c)
  PROVE  Timeout > 0 /\ \A w \in WakeupTimes : now + Timeout <= w
<1>1. now \in Nat /\ MaxTime \in Nat
  BY ConfigAssumption DEF ChannelInv, ChannelsTypeOK
<1>2. CASE WakeupTimes = {}
  <2>1. Timeout = 3 * MaxTime + 1
    BY <1>2 DEF Timeout, WakeupTime, SelectTimeout
  <2>2. QED
    BY <1>1, <1>2, <2>1
<1>3. CASE WakeupTimes # {}
  <2>1. \A w \in WakeupTimes : w \in Nat /\ w > now
    BY TimesToCome
  <2>2. \E x \in WakeupTimes : \A y \in WakeupTimes : x <= y
    BY <1>3, <2>1, LeastNumber
  <2>3. WakeupTime \in WakeupTimes /\ \A y \in WakeupTimes : WakeupTime <= y
    BY <1>3, <2>2 DEF WakeupTime, Min
  <2>4. WakeupTime \in Nat /\ WakeupTime > now
    BY <2>1, <2>3
  <2>5. Timeout = WakeupTime - now
    BY <1>1, <2>4 DEF Timeout
  <2>6. QED
    BY <1>1, <2>1, <2>3, <2>4, <2>5
<1>4. QED
  BY <1>2, <1>3

\* A job that can be sent at a time to come waits for a pause or an eta that
\* get_wakeup_time finds.
LEMMA SendableIsAnnounced ==
  ASSUME ChannelInv, IsFiniteSet(Channel), \A c \in Channel : AtRest(c),
         NEW t \in Int, t >= now, SendableAt(t)
  PROVE  \E w \in WakeupTimes : w <= t
<1>1. /\ pause \in [Channel -> Nat] /\ now \in Nat /\ eta \in [Job -> Nat]
      /\ queue \in [Channel -> SUBSET Job]
  BY ConfigAssumption DEF ChannelInv, ChannelsTypeOK
<1>2. PICK c \in Channel : /\ \A d \in Path(c) : HasCapacity(d) /\ pause[d] <= t
                           /\ \E j \in queue[c] : PopsAt(c, j, t)
  BY DEF SendableAt
<1>3. Path(c) \subseteq Channel /\ c \in Path(c) /\ \A d \in Path(c) : Path(d) \subseteq Path(c)
  BY TreeAssumption DEF Path
<1>4. CASE \E d \in Path(c) : pause[d] # 0
  <2> DEFINE S == {d \in Path(c) : pause[d] # 0}
  <2>1. S \in SUBSET Channel /\ S # {}
    BY <1>3, <1>4
  <2>2. PICK d \in S : Above[d] \cap S = {}
    <3> HIDE DEF S
    <3>1. QED
      BY <2>1, Topmost
  <2>3. Above[d] \subseteq Path(c) /\ d \in Channel
    BY <1>3, <2>2 DEF Path
  <2>4. \A e \in Above[d] : pause[e] = 0
    BY <2>2, <2>3
  <2>5. Reached(d)
    BY <1>2, <1>3, <2>2, <2>4 DEF Reached
  <2>6. pause[d] \in WakeupTimes /\ pause[d] <= t
    BY <1>2, <2>2, <2>3, <2>5 DEF WakeupTimes
  <2>7. QED
    BY <2>6
<1>5. CASE \A d \in Path(c) : pause[d] = 0
  <2>1. Reached(c) /\ HasCapacity(c) /\ pause[c] = 0
    BY <1>2, <1>3, <1>5 DEF Reached, Path
  <2>2. Due(c, now) = {} /\ \A j \in queue[c] : ~PopsAt(c, j, now)
    BY <2>1 DEF AtRest, Pops
  <2>3. PICK i \in queue[c] : eta[i] # 0 /\ eta[i] <= t
    <3> SUFFICES ASSUME \A i \in queue[c] : ~(eta[i] # 0 /\ eta[i] <= t)
                 PROVE  FALSE
      OBVIOUS
    <3>1. Due(c, t) = {}
      BY DEF Due
    <3>2. Ready(c, t) = Ready(c, now)
      BY <2>2, <3>1 DEF Ready
    <3>3. \A j \in queue[c] : PopsAt(c, j, t) <=> PopsAt(c, j, now)
      BY <3>2 DEF PopsAt, HeldBack
    <3>4. QED
      BY <1>2, <2>2, <3>3
  <2>4. eta[i] \in WakeupTimes
    BY <1>1, <2>1, <2>3 DEF WakeupTimes
  <2>5. QED
    BY <2>3, <2>4
<1>6. QED
  BY <1>4, <1>5

\* All channels are at rest, and finitely many.
AllRest == IsFiniteSet(Channel) /\ \A c \in Channel : AtRest(c)

\* What SleepsUntilNeeded says of the state after a pass.
WellTimed ==
  /\ Timeout > 0
  /\ \A t \in now..(2 * MaxTime) : SendableAt(t) => t > now /\ now + Timeout <= t

LEMMA RestIsWellTimed == ChannelInv /\ AllRest => WellTimed
<1> SUFFICES ASSUME ChannelInv, AllRest PROVE WellTimed
  OBVIOUS
<1>1. IsFiniteSet(Channel) /\ \A c \in Channel : AtRest(c)
  BY DEF AllRest
<1>2. Timeout > 0 /\ \A w \in WakeupTimes : now + Timeout <= w
  BY <1>1, SleepsUntilFirst
<1>3. ASSUME NEW t \in now..(2 * MaxTime), SendableAt(t)
      PROVE  t > now /\ now + Timeout <= t
  <2>1. now \in Nat /\ MaxTime \in Nat
    BY ConfigAssumption DEF ChannelInv, ChannelsTypeOK
  <2>2. t \in Int /\ t >= now
    BY <2>1
  <2>3. PICK w \in WakeupTimes : w <= t
    BY <1>1, <1>3, <2>2, SendableIsAnnounced
  <2>4. w \in Nat /\ w > now /\ now + Timeout <= w
    BY <1>1, <1>2, TimesToCome
  <2>5. Timeout \in Int
    <3>1. WakeupTimes # {} /\ \A x \in WakeupTimes : x \in Nat
      BY <1>1, <2>3, TimesToCome
    <3>2. \E x \in WakeupTimes : \A y \in WakeupTimes : x <= y
      BY <3>1, LeastNumber
    <3>3. WakeupTime \in Nat
      BY <3>1, <3>2 DEF WakeupTime, Min
    <3>4. QED
      BY <2>1, <3>3 DEF Timeout, SelectTimeout
  <2>6. QED
    BY <2>1, <2>2, <2>3, <2>4, <2>5
<1>4. QED
  BY <1>2, <1>3 DEF WellTimed

\* After a pass, in every tree with any throttles and etas, the runner neither spins nor
\* sleeps past the moment from which a job can be sent (runner.py:481-485,
\* channels.py:554).
THEOREM SleepIsRight == ChannelsSpec => SleepsUntilNeeded
<1>1. ChannelsInit => RestInv
  BY DEF ChannelsInit, RestInv
<1>2. ChannelInv /\ PassInv /\ RestInv /\ [ChannelsNext]_channelVars =>
        /\ RestInv'
        /\ todo # {} /\ todo' = {} /\ ~RemoveAll => AllRest' /\ now' = now
  <2> SUFFICES ASSUME ChannelInv, PassInv, RestInv, [ChannelsNext]_channelVars,
                      todo # {}, todo' = {}, ~RemoveAll
               PROVE  AllRest' /\ now' = now
    BY RestKept
  <2>1. PICK c \in Channel : Exhaust(c) \/ \E j \in Job : Yield(c, j)
    BY DEF ChannelsNext, Handle, BeginPass, channelVars
  <2>2. /\ now' = now /\ IsFiniteSet(Channel \ todo')
        /\ \A e \in Channel \ todo' : AtRest(e)'
    BY <2>1, PassRests
  <2>3. Channel \ todo' = Channel
    OBVIOUS
  <2>4. QED
    BY <2>2, <2>3 DEF AllRest
<1>3. ChannelInv /\ AllRest => WellTimed
  BY RestIsWellTimed
<1>4. WellTimed' /\ now' = now =>
        /\ Timeout' > 0
        /\ \A t \in now..(2 * MaxTime) : SendableAt(t)' => t > now /\ now + Timeout' <= t
  BY DEF WellTimed
<1>5. QED
  BY <1>1, <1>2, <1>3, <1>4, PassHolds, InvHolds, PTL DEF ChannelsSpec, SleepsUntilNeeded

------------------------------------------------------------------------------
(* Channels and rows together                                                *)

USE DEF WAIT_DEPENDENCIES, PENDING, ENQUEUED, STARTED, DONE, CANCELLED, FAILED, Absent,
        DB!WAIT_DEPENDENCIES, DB!PENDING, DB!ENQUEUED, DB!STARTED, DB!DONE,
        DB!CANCELLED, DB!FAILED, DB!Absent

------------------------------------------------------------------------------
(* The rows                                                                  *)

\* What users have computed and not committed yet.
Writes(u) == txn[u].writes

RowsType ==
  /\ state \in [Job -> RowStates]
  /\ \A u \in User : \A j \in DOMAIN Writes(u) :
       Writes(u)[j] \in {PENDING, WAIT_DEPENDENCIES, DONE, CANCELLED}
  /\ \E Txns : txn \in [User -> Txns]

Underways == {ENQUEUED, STARTED}

\* A step after which rows have states, and no row has become enqueued or started
\* that was neither.
RowsKept ==
  /\ RowsType'
  /\ \A j \in Job : state'[j] \in Underways => state[j] \in Underways

LEMMA RowStatesAre ==
  RowStates = {WAIT_DEPENDENCIES, PENDING, ENQUEUED, STARTED, DONE, CANCELLED, FAILED, Absent}
BY DEF RowStates, States

\* One row gets a state that is none of those under way.
LEMMA OneRow ==
  ASSUME RowsType, NEW j, NEW s \in RowStates \ Underways,
         state' = [state EXCEPT ![j] = s], txn' = txn
  PROVE  RowsKept
BY RowStatesAre DEF RowsType, RowsKept, Writes, Underways

LEMMA SameRows ==
  ASSUME RowsType, state' = state, txn' = txn
  PROVE  RowsKept
BY DEF RowsType, RowsKept, Writes

LEMMA ClientRows ==
  ASSUME RowsType, NEW j \in Job, DB!ClientStep(j) \/ DB!Autovacuum(j)
  PROVE  RowsKept
<1>1. txn' = txn /\ \E s \in {PENDING, Absent} : state' = [state EXCEPT ![j] = s]
  BY DEF DB!ClientStep, DB!ClientTimeout, DB!RequestLost, DB!SetJobPending, DB!Autovacuum
<1> QED
  BY <1>1, OneRow, RowStatesAre DEF Underways

LEMMA WorkerRows ==
  ASSUME RowsType, NEW w \in Worker, DB!WorkerStep(w)
  PROVE  RowsKept
<1>1. ASSUME NEW j \in Job, DB!RunJob(w, j) PROVE RowsKept
  BY <1>1, RowStatesAre DEF DB!RunJob, RowsType, RowsKept, Writes, Underways
<1>2. ASSUME NEW j \in Job, DB!RefuseJob(w, j) PROVE RowsKept
  BY <1>2, SameRows DEF DB!RefuseJob
<1>3. CASE DB!BeginPerform(w) \/ DB!ReleaseFails(w) \/ DB!WorkerCrash(w) \/ DB!HandlerRaises(w)
  BY <1>3, SameRows DEF DB!BeginPerform, DB!ReleaseFails, DB!WorkerCrash, DB!HandlerRaises
<1>4. CASE DB!PerformDone(w)
  BY <1>4, OneRow, RowStatesAre DEF DB!PerformDone, Underways
<1>5. CASE DB!PerformConflict(w) \/ DB!PerformRetry(w) \/ DB!PerformFail(w)
  <2>1. txn' = txn /\ \E s \in {PENDING, WAIT_DEPENDENCIES, FAILED} :
                        state' = [state EXCEPT ![worker[w].job] = s]
    BY <1>5 DEF DB!PerformConflict, DB!PerformRetry, DB!PerformFail, DB!Postpone,
                DB!StoreAndLeave, DB!PendingOrWait
  <2> QED
    BY <2>1, OneRow, RowStatesAre DEF Underways
<1>6. CASE DB!EnqueueDependents(w)
  <2>1. PICK children : state' = DB!Apply([c \in children |-> PENDING]) /\ txn' = txn
    BY <1>6 DEF DB!EnqueueDependents
  <2>2. state' = [j \in Job |-> IF j \in children THEN PENDING ELSE state[j]]
    BY <2>1 DEF DB!Apply
  <2> QED
    BY <2>1, <2>2, RowStatesAre DEF RowsType, RowsKept, Writes, Underways
<1> QED
  BY <1>1, <1>2, <1>3, <1>4, <1>5, <1>6 DEF DB!WorkerStep

LEMMA OpenedRows ==
  ASSUME RowsType, NEW u \in User, NEW op, NEW writes, DB!OpenTxn(u, op, writes),
         \A j \in DOMAIN writes : writes[j] \in {PENDING, WAIT_DEPENDENCIES, DONE, CANCELLED}
  PROVE  RowsKept
<1>1. state' = state /\ txn' = [txn EXCEPT ![u] = [op |-> op, writes |-> writes]]
  BY DEF DB!OpenTxn
<1>2. PICK Txns : txn \in [User -> Txns]
  BY DEF RowsType
<1>3. txn' \in [User -> Txns \cup {[op |-> op, writes |-> writes]}]
  BY <1>1, <1>2
<1>4. ASSUME NEW v \in User PROVE Writes(v)' \in {Writes(v), writes} /\ (v # u => Writes(v)' = Writes(v))
                                   /\ (v = u => Writes(v)' = writes)
  BY <1>1, <1>2 DEF Writes
<1> QED
  BY <1>1, <1>3, <1>4 DEF RowsType, RowsKept

LEMMA CascadeRows ==
  ASSUME NEW j, NEW final, NEW after, NEW k \in DOMAIN DB!Cascade(j, final, after)
  PROVE  DB!Cascade(j, final, after)[k] \in {final, after}
<1> DEFINE rows == {j} \cup DB!Dependents([state EXCEPT ![j] = final], j, final)
           F    == [i \in rows |-> IF i = j THEN final ELSE after]
<1>1. DB!Cascade(j, final, after) = F
  BY DEF DB!Cascade
<1>2. \A i \in DOMAIN F : F[i] \in {final, after}
  OBVIOUS
<1> HIDE DEF F
<1> QED
  BY <1>1, <1>2

LEMMA UserRows ==
  ASSUME RowsType, NEW u \in User, DB!UserStep(u)
  PROVE  RowsKept
<1>1. ASSUME NEW j \in Job, DB!OpenRequeue(u, j) PROVE RowsKept
  BY <1>1, OpenedRows DEF DB!OpenRequeue, DB!PendingOrWait
<1>2. ASSUME NEW j \in Job, DB!OpenDone(u, j) PROVE RowsKept
  BY <1>2, OpenedRows, CascadeRows DEF DB!OpenDone
<1>3. ASSUME NEW j \in Job, DB!OpenCancel(u, j) PROVE RowsKept
  BY <1>3, OpenedRows, CascadeRows DEF DB!OpenCancel
<1>4. CASE DB!Commit(u) \/ DB!Abort(u)
  <2>1. PICK Txns : txn \in [User -> Txns]
    BY DEF RowsType
  <2>2. txn' = [txn EXCEPT ![u] = DB!NoTxn]
    BY <1>4 DEF DB!Commit, DB!Abort
  <2>3. txn' \in [User -> Txns \cup {DB!NoTxn}]
    BY <2>1, <2>2
  <2>4. ASSUME NEW v \in User, NEW j \in DOMAIN Writes(v)'
        PROVE  Writes(v)'[j] \in {PENDING, WAIT_DEPENDENCIES, DONE, CANCELLED}
    <3>1. CASE v = u
      <4>1. Writes(v)' = << >>
        BY <2>1, <2>2, <3>1 DEF Writes, DB!NoTxn
      <4> QED
        BY <2>4, <4>1
    <3>2. CASE v # u
      BY <2>1, <2>2, <2>4, <3>2 DEF Writes, RowsType
    <3> QED
      BY <3>1, <3>2
  <2>5. state' = state \/ state' = DB!Apply(Writes(u))
    BY <1>4 DEF DB!Commit, DB!Abort, Writes
  <2>6. /\ state' \in [Job -> RowStates]
        /\ \A j \in Job : state'[j] \in Underways => state[j] \in Underways
    BY <2>5, RowStatesAre DEF DB!Apply, RowsType, Underways
  <2> QED
    BY <2>3, <2>4, <2>6 DEF RowsType, RowsKept
<1> QED
  BY <1>1, <1>2, <1>3, <1>4 DEF DB!UserStep

------------------------------------------------------------------------------
(* What each step does to the places of the jobs                             *)

LEMMA ChannelsStay == ASSUME ChannelInv, UNCHANGED channelVars PROVE ChannelInv' /\ Tree' = Tree
<1>1. Tree' = Tree /\ known' = known
  BY DEF channelVars, Tree
<1>2. FlowInv'
  BY <1>1 DEF ChannelInv, FlowInv
<1> QED
  BY <1>1, <1>2 DEF channelVars, ChannelInv, ChannelsTypeOK

LEMMA RootOfAll == ASSUME NEW d \in Channel PROVE Root \in Path(d) /\ Root \in Channel
BY TreeAssumption DEF Path

\* One collection that holds a job tells where it is.
LEMMA OnePlace ==
  ASSUME NEW t, NEW j, NEW b \in Channel, NEW c \in Channel, Flows(t, j, b)
  PROVE  /\ j \in t.queue[c] => \E d \in Path(b) : WaitsIn(t, j, b, d)
         /\ j \in t.running[Root] => RunsBelow(t, j, b)
         /\ j \in t.failed[c] => BlocksIn(t, j, b)
<1>1. \A d \in Path(b) : WaitsIn(t, j, b, d) => j \notin t.running[Root]
  BY RootOfAll, PathsAreChannels DEF WaitsIn
<1> QED
  BY <1>1, RootOfAll DEF Flows, Nowhere, BlocksIn, RunsBelow, WaitsIn

\* j is where the state s of its row puts it.
Placed(t, j, b, s) ==
  /\ s = PENDING => \E d \in Path(b) : WaitsIn(t, j, b, d)
  /\ s \in Underways => RunsBelow(t, j, b)
  /\ s = FAILED => BlocksIn(t, j, b)
  /\ s \in {DONE, CANCELLED, Absent} => Nowhere(t, j)

LEMMA AlikePlaced ==
  ASSUME NEW t, NEW u, NEW i, NEW b \in Channel, NEW s, Alike(t, u, i), Placed(t, i, b, s)
  PROVE  Placed(u, i, b, s)
BY DEF Alike, Placed, Nowhere, BlocksIn, RunsBelow, WaitsIn

\* A job under way starts to run from nowhere, or runs already: then each state
\* puts it in its place.
LEMMA TransitionPlaces ==
  ASSUME NEW t \in TreeType, NEW j \in Job, NEW b \in Channel, NEW s \in States,
         Flows(t, j, b), s \in Underways => Nowhere(t, j) \/ RunsBelow(t, j, b)
  PROVE  Placed(Transition(t, b, j, s), j, b, s)
<1> DEFINE u == Transition(t, b, j, s)
<1>0. Flows(u, j, b) /\ u \in TreeType
  BY TransitionFlows
<1>1. CASE s \in {DONE, CANCELLED}
  <2>1. u = Remove(t, b, j)
    BY <1>1 DEF Transition
  <2> QED BY <1>1, <2>1, RemoveFlows DEF Placed, Underways
<1>2. CASE s = PENDING
  <2>1. u = SetPending(t, b, j)
    BY <1>2 DEF Transition
  <2>2. j \in u.queue[b]
    BY <2>1 DEF SetPending, With
  <2>3. Placed(u, j, b, s)
    <3> HIDE DEF u
    <3> QED BY <1>0, <1>2, <2>2, OnePlace DEF Placed, Underways
  <2> QED BY <2>3
<1>3. CASE s \in Underways
  <2>1. u = SetRunning(t, b, j)
    BY <1>3 DEF Transition, Underways
  <2>2. j \in u.running[Root]
    <3>1. CASE Nowhere(t, j)
      <4>1. \A e \in Path(b) : j \notin t.running[e]
        BY <3>1, PathsAreChannels DEF Nowhere
      <4> QED
        BY <2>1, <4>1, RootOfAll DEF SetRunning, With
    <3>2. CASE RunsBelow(t, j, b)
      <4>1. j \in t.running[Root]
        BY <3>2, RootOfAll DEF RunsBelow
      <4> QED
        BY <2>1, <4>1, RootOfAll DEF SetRunning, With
    <3> QED BY <1>3, <3>1, <3>2
  <2>3. Placed(u, j, b, s)
    <3> HIDE DEF u
    <3> QED BY <1>0, <1>3, <2>2, OnePlace DEF Placed, Underways
  <2> QED BY <2>3
<1>4. CASE s = FAILED
  <2>1. u = SetFailed(t, b, j)
    BY <1>4 DEF Transition
  <2>2. j \in u.failed[b]
    BY <2>1 DEF SetFailed, With
  <2>3. Placed(u, j, b, s)
    <3> HIDE DEF u
    <3> QED BY <1>0, <1>4, <2>2, OnePlace DEF Placed, Underways
  <2> QED BY <2>3
<1>5. CASE s = WAIT_DEPENDENCIES
  BY <1>5 DEF Placed, Underways
<1> QED
  BY <1>1, <1>2, <1>3, <1>4, <1>5 DEF States, Underways

\* A transition queues a job in no other state than PENDING, and makes it run in no
\* other state than those under way.
LEMMA TransitionAdds ==
  ASSUME NEW t \in TreeType, NEW j \in Job, NEW b \in Channel, NEW s \in States, NEW c \in Channel
  PROVE  /\ s # PENDING => Transition(t, b, j, s).queue[c] \subseteq t.queue[c]
         /\ s \notin Underways => Transition(t, b, j, s).running[c] \subseteq t.running[c]
BY DEF Transition, Remove, SetPending, SetRunning, SetFailed, Without, With, TreeType,
       States, Underways

LEMMA NotifyPlaces ==
  ASSUME ChannelInv, NEW j \in Job, NEW s \in States, Notify(j, s, 0),
         s \in Underways => RunsBelow(Tree, j, ChannelOf[j])
  PROVE  /\ Placed(Tree', j, ChannelOf[j], s)
         /\ \A i \in Job \ {j} : Alike(Tree, Tree', i)
         /\ \A c \in Channel : running'[c] \subseteq running[c]
<1> DEFINE b == ChannelOf[j]
           t == IF j \in known /\ 0 # eta[j] THEN Remove(Tree, b, j) ELSE Tree
           u == Transition(t, b, j, s)
<1>0. b \in Channel /\ Tree \in TreeType /\ Flows(Tree, j, b)
  BY EveryJobFlows
<1>1. /\ t \in TreeType /\ Flows(t, j, b) /\ \A i \in Job \ {j} : Alike(Tree, t, i)
      /\ t = Tree \/ Nowhere(t, j)
  <2>1. CASE j \in known /\ 0 # eta[j]
    BY <1>0, <2>1, RemoveFlows DEF Flows
  <2>2. CASE ~(j \in known /\ 0 # eta[j])
    BY <1>0, <2>2 DEF Alike
  <2> QED
    BY <2>1, <2>2
<1>2. s \in Underways => Nowhere(t, j) \/ RunsBelow(t, j, b)
  <2> HIDE DEF t
  <2> QED BY <1>1
<1>3. /\ u \in TreeType /\ \A i \in Job \ {j} : Alike(t, u, i)
      /\ Placed(u, j, b, s)
  <2> HIDE DEF t, b
  <2> QED BY <1>0, <1>1, <1>2, TransitionFlows, TransitionPlaces
<1>4. Tree' = u
  <2>1. Become(u)
    BY DEF Notify
  <2> HIDE DEF u
  <2> QED BY <1>3, <2>1 DEF Become, Tree, TreeType
<1>5. \A i \in Job \ {j} : Alike(Tree, u, i)
  <2> HIDE DEF t, u
  <2> QED BY <1>1, <1>3 DEF Alike
<1>6. ASSUME NEW c \in Channel, NEW i \in u.running[c] PROVE i \in Tree.running[c]
  <2>0. i \in Job
    <3> HIDE DEF u
    <3> QED BY <1>3, <1>6 DEF TreeType
  <2>1. CASE i # j
    <3> HIDE DEF u
    <3> QED BY <1>5, <1>6, <2>0, <2>1 DEF Alike
  <2>2. CASE i = j /\ s \in Underways
    <3> HIDE DEF u
    <3> QED BY <1>3, <1>6, <2>2 DEF Placed, RunsBelow
  <2>3. CASE i = j /\ s \notin Underways
    <3>1. i \in t.running[c]
      <4> HIDE DEF t, b
      <4> QED BY <1>0, <1>1, <1>6, <2>3, TransitionAdds
    <3> HIDE DEF t, b
    <3> QED BY <1>1, <2>0, <2>3, <3>1 DEF Nowhere
  <2> QED BY <2>1, <2>2, <2>3
<1> HIDE DEF u, b
<1> QED
  BY <1>3, <1>4, <1>5, <1>6 DEF Tree, b

LEMMA RemoveJobPlaces ==
  ASSUME ChannelInv, NEW j \in Job, RemoveJob(j)
  PROVE  /\ Nowhere(Tree', j)
         /\ \A i \in Job \ {j} : Alike(Tree, Tree', i)
         /\ \A c \in Channel : running'[c] \subseteq running[c] /\ queue'[c] \subseteq queue[c]
<1> DEFINE u == IF j \in known THEN Remove(Tree, ChannelOf[j], j) ELSE Tree
<1>1. u \in TreeType /\ Nowhere(u, j) /\ \A i \in Job \ {j} : Alike(Tree, u, i)
  BY EveryJobFlows, RemoveFlows DEF Alike, ChannelInv, FlowInv
<1>2. Tree' = u
  <2>1. Become(u)
    BY DEF RemoveJob
  <2> HIDE DEF u
  <2> QED BY <1>1, <2>1 DEF Become, Tree, TreeType
<1>3. ASSUME NEW c \in Channel, NEW i \in Job
      PROVE  /\ i \in u.running[c] => i \in Tree.running[c]
             /\ i \in u.queue[c] => i \in Tree.queue[c]
  <2> HIDE DEF u
  <2> QED BY <1>1 DEF Alike, Nowhere
<1> HIDE DEF u
<1> QED
  BY <1>1, <1>2, <1>3 DEF Tree, TreeType

LEMMA LoadPlaces ==
  ASSUME ChannelInv, state \in [Job -> RowStates], NEW j \in Job, Load(state, [i \in Job |-> 0])
  PROVE  /\ ChannelInv'
         /\ Placed(Tree', j, ChannelOf[j], state[j])
         /\ \A c \in Channel : running'[c] = Underway(c)
<1> DEFINE b == ChannelOf[j]
<1>1. ChannelInv' /\ b \in Channel
  BY LoadKeeps, ConfigAssumption, [i \in Job |-> 0] \in [Job -> 0..MaxTime]
<1>2. /\ j \in known' <=> state[j] \in NOT_DONE
      /\ \A c \in Channel : /\ j \in queue'[c] <=> (b = c /\ state[j] = PENDING)
                            /\ j \in running'[c] <=> (c \in Path(b) /\ state[j] \in Underways)
                            /\ j \in failed'[c] <=> (b = c /\ state[j] = FAILED)
  BY DEF Load, Become, Underways
<1>3. Flows(Tree', j, b)
  BY <1>1, ConfigAssumption DEF ChannelInv, FlowInv, Flows
<1>4. state[j] = PENDING => \E d \in Path(b) : WaitsIn(Tree', j, b, d)
  <2>1. state[j] = PENDING => j \in Tree'.queue[b]
    BY <1>1, <1>2 DEF Tree
  <2> QED BY <1>1, <1>3, <2>1, OnePlace
<1>5. state[j] \in Underways => RunsBelow(Tree', j, b)
  <2>1. state[j] \in Underways => j \in Tree'.running[Root]
    BY <1>1, <1>2, RootOfAll DEF Tree
  <2> QED BY <1>1, <1>3, <2>1, OnePlace
<1>6. state[j] = FAILED => BlocksIn(Tree', j, b)
  <2>1. state[j] = FAILED => j \in Tree'.failed[b]
    BY <1>1, <1>2 DEF Tree
  <2> QED BY <1>1, <1>3, <2>1, OnePlace
<1>7. state[j] \in {DONE, CANCELLED, Absent} => Nowhere(Tree', j)
  BY <1>2 DEF Tree, Nowhere, Underways
<1>8. \A c \in Channel : running'[c] = Underway(c)
  BY DEF Load, Become, Underway
<1> QED
  BY <1>1, <1>4, <1>5, <1>6, <1>7, <1>8 DEF Placed

------------------------------------------------------------------------------
(* The inductive invariant                                                   *)

Connected == phase \in {"notify", "run"}

\* A job under way is where it should be even when a notification of it is still to
\* come: nobody but the runner itself starts a job on its way.
ViewRight ==
  \A j \in Job : state[j] \in Underways \/ j \notin notes
                   => Placed(Tree, j, ChannelOf[j], state[j])

RowsAndPlaces ==
  /\ ChannelInv
  /\ RowsType
  /\ phase \in {"down", "loading", "notify", "run"}
  /\ Connected => ViewRight

LEMMA EnvironmentKeeps ==
  ASSUME RowsAndPlaces, RowsKept, NEW A, NEW rows, Environment(A, rows)
  PROVE  RowsAndPlaces'
<1>1. ChannelInv' /\ Tree' = Tree /\ phase' = phase
  BY ChannelsStay DEF Environment, RowsAndPlaces
<1>2. ASSUME Connected, NEW j \in Job, state'[j] \in Underways \/ j \notin notes'
      PROVE  Placed(Tree', j, ChannelOf[j], state'[j])
  <2>1. /\ j \notin notes' => j \notin notes /\ (state'[j] = state[j]
                              \/ (state[j] = DONE /\ state'[j] = Absent))
        /\ notes \subseteq notes'
    BY <1>2 DEF Environment, NotesAfter, Connected, Fires
  <2>2. CASE j \notin notes'
    BY <1>1, <1>2, <2>1, <2>2 DEF RowsAndPlaces, ViewRight, Placed, Underways
  <2>3. CASE state'[j] \in Underways
    BY <1>1, <1>2, <2>3 DEF RowsKept, RowsAndPlaces, ViewRight, Placed, Underways
  <2> QED BY <1>2, <2>2, <2>3
<1> QED
  BY <1>1, <1>2 DEF RowsAndPlaces, ViewRight, Connected, RowsKept

\* The steps of the server and of the users.
Others ==
  \/ \E j \in Job : ClientStep(j) \/ Autovacuum(j)
  \/ \E w \in Worker : WorkerStep(w)
  \/ \E u \in User : UserStep(u)

LEMMA OthersKeep ==
  ASSUME RowsAndPlaces, Others
  PROVE  RowsAndPlaces' /\ RowsKept /\ UNCHANGED <<channelVars, phase>>
<1>1. ASSUME NEW j \in Job, ClientStep(j) \/ Autovacuum(j)
      PROVE  RowsAndPlaces' /\ RowsKept /\ UNCHANGED <<channelVars, phase>>
  BY <1>1, ClientRows, EnvironmentKeeps DEF RowsAndPlaces, ClientStep, Autovacuum, Environment
<1>2. ASSUME NEW w \in Worker, WorkerStep(w)
      PROVE  RowsAndPlaces' /\ RowsKept /\ UNCHANGED <<channelVars, phase>>
  BY <1>2, WorkerRows, EnvironmentKeeps DEF RowsAndPlaces, WorkerStep, Environment
<1>3. ASSUME NEW u \in User, UserStep(u)
      PROVE  RowsAndPlaces' /\ RowsKept /\ UNCHANGED <<channelVars, phase>>
  BY <1>3, UserRows, EnvironmentKeeps DEF RowsAndPlaces, UserStep, Environment
<1> QED
  BY <1>1, <1>2, <1>3 DEF Others

LEMMA ConnectingKeeps ==
  ASSUME RowsAndPlaces, Listen \/ LoadJobs \/ Recover
  PROVE  RowsAndPlaces'
<1>1. RowsType'
  BY SameRows DEF Listen, LoadJobs, Recover, dbVars, RowsKept, RowsAndPlaces
<1>2. CASE Listen
  BY <1>1, <1>2, ChannelsStay DEF Listen, RowsAndPlaces, Connected
<1>3. CASE LoadJobs
  <2>1. state' = state /\ Load(state, [i \in Job |-> 0]) /\ phase' = "notify"
    BY <1>3 DEF LoadJobs, dbVars
  <2>2. ChannelInv'
    BY <2>1, LoadKeeps, ConfigAssumption, [i \in Job |-> 0] \in [Job -> 0..MaxTime]
       DEF RowsAndPlaces, RowsType
  <2>3. ViewRight'
    BY <2>1, LoadPlaces DEF ViewRight, RowsAndPlaces, RowsType
  <2> QED BY <1>1, <2>1, <2>2, <2>3 DEF RowsAndPlaces
<1>4. CASE Recover
  BY <1>1, <1>4, RemoveAllKeeps DEF Recover, RowsAndPlaces, Connected
<1> QED
  BY <1>2, <1>3, <1>4

LEMMA NotificationKeeps ==
  ASSUME RowsAndPlaces, NEW j \in Job, ProcessNotification(j)
  PROVE  RowsAndPlaces' /\ \A c \in Channel : running'[c] \subseteq running[c]
<1>1. RowsType' /\ state' = state /\ phase' = phase /\ notes' = notes \ {j} /\ Connected
  BY SameRows DEF ProcessNotification, dbVars, RowsKept, RowsAndPlaces, Connected
<1>2. /\ ChannelInv'
      /\ Placed(Tree', j, ChannelOf[j], state[j])
      /\ \A i \in Job \ {j} : Alike(Tree, Tree', i)
      /\ \A c \in Channel : running'[c] \subseteq running[c]
  <2>1. CASE state[j] = Absent
    <3>1. RemoveJob(j)
      BY <2>1 DEF ProcessNotification
    <3> QED
      BY <2>1, <3>1, RemoveJobKeeps, RemoveJobPlaces DEF RowsAndPlaces, Placed, Underways
  <2>2. CASE state[j] # Absent
    <3>1. Notify(j, state[j], 0) /\ state[j] \in States /\ 0 \in 0..MaxTime
      BY <2>2, ConfigAssumption DEF ProcessNotification, RowsAndPlaces, RowsType, RowStates
    <3>2. state[j] \in Underways => RunsBelow(Tree, j, ChannelOf[j])
      BY <1>1 DEF RowsAndPlaces, ViewRight, Placed
    <3> QED
      BY <3>1, <3>2, NotifyKeeps, NotifyPlaces DEF RowsAndPlaces
  <2> QED BY <2>1, <2>2
<1>3. ASSUME NEW i \in Job, state[i] \in Underways \/ i \notin notes'
      PROVE  Placed(Tree', i, ChannelOf[i], state[i])
  <2>1. CASE i = j
    BY <1>2, <2>1
  <2>2. CASE i # j
    BY <1>1, <1>2, <1>3, <2>2, AlikePlaced, ConfigAssumption DEF RowsAndPlaces, ViewRight
  <2> QED BY <2>1, <2>2
<1> QED
  BY <1>1, <1>2, <1>3 DEF RowsAndPlaces, ViewRight, Connected

LEMMA PassKeeps ==
  ASSUME RowsAndPlaces, BeginRunJobs \/ \E c \in Channel : ExhaustChannel(c)
  PROVE  RowsAndPlaces' /\ running' = running /\ Connected /\ state' = state
<1>1. RowsType' /\ state' = state /\ notes' = notes /\ phase' \in {"notify", "run"} /\ Connected
  BY SameRows DEF BeginRunJobs, ExhaustChannel, dbVars, RowsKept, RowsAndPlaces, Connected
<1>2. Tree' = Tree /\ running' = running
  BY DEF BeginRunJobs, ExhaustChannel, BeginPass, Exhaust, Tree
<1>3. ChannelInv'
  BY BeginPassKeeps, ExhaustKeeps DEF BeginRunJobs, ExhaustChannel, RowsAndPlaces
<1> QED
  BY <1>1, <1>2, <1>3 DEF RowsAndPlaces, ViewRight, Connected

LEMMA PassDownKeeps ==
  ASSUME RowsAndPlaces, NEW c \in Channel, NEW j \in Job, PassDown(c, j)
  PROVE  RowsAndPlaces'
<1>1. /\ RowsType' /\ state' = state /\ notes' = notes /\ phase' = phase /\ Connected
      /\ c # Root /\ Yield(c, j)
  BY SameRows DEF PassDown, dbVars, RowsKept, RowsAndPlaces, Connected
<1>2. /\ ChannelInv'
      /\ ChannelOf[j] \in Channel
      /\ WaitsIn(Tree, j, ChannelOf[j], c)
      /\ \A i \in Job \ {j} : Alike(Tree, Tree', i)
      /\ \E d \in Path(ChannelOf[j]) : WaitsIn(Tree', j, ChannelOf[j], d)
  BY <1>1, YieldKeeps, YieldMoves, ConfigAssumption DEF RowsAndPlaces
<1>3. ASSUME NEW i \in Job, state[i] \in Underways \/ i \notin notes
      PROVE  Placed(Tree', i, ChannelOf[i], state[i])
  <2>1. Placed(Tree, i, ChannelOf[i], state[i])
    BY <1>1, <1>3 DEF RowsAndPlaces, ViewRight
  <2>2. CASE i = j
    <3>1. state[j] \notin Underways /\ state[j] # FAILED
          /\ state[j] \notin {DONE, CANCELLED, Absent}
      BY <1>2, <2>1, <2>2 DEF Placed, WaitsIn, RunsBelow, BlocksIn, Nowhere
    <3> QED
      BY <1>2, <2>2, <3>1 DEF Placed
  <2>3. CASE i # j
    BY <1>2, <2>1, <2>3, AlikePlaced, ConfigAssumption
  <2> QED BY <2>2, <2>3
<1> QED
  BY <1>1, <1>2, <1>3 DEF RowsAndPlaces, ViewRight, Connected

LEMMA EnqueuedRows ==
  ASSUME RowsType, NEW j \in Job, DB!SetJobEnqueued(j), txn' = txn
  PROVE  /\ RowsType'
         /\ \A i \in Job \ {j} : state'[i] = state[i]
         /\ state'[j] = IF state[j] = Absent THEN Absent ELSE ENQUEUED
BY RowStatesAre DEF RowsType, Writes, DB!SetJobEnqueued

LEMMA SendKeeps ==
  ASSUME RowsAndPlaces, NEW j \in Job, SendJob(j)
  PROVE  RowsAndPlaces'
<1>1. /\ txn' = txn /\ phase' = phase /\ phase = "run" /\ Connected
      /\ Yield(Root, j) /\ DB!SetJobEnqueued(j) /\ NotesAfter({j})
  BY DEF SendJob, Connected
<1>2. /\ RowsType' /\ \A i \in Job \ {j} : state'[i] = state[i]
      /\ state'[j] = IF state[j] = Absent THEN Absent ELSE ENQUEUED
  BY <1>1, EnqueuedRows DEF RowsAndPlaces
<1>3. /\ ChannelInv'
      /\ WaitsIn(Tree, j, ChannelOf[j], Root)
      /\ \A i \in Job \ {j} : Alike(Tree, Tree', i)
      /\ RunsBelow(Tree', j, ChannelOf[j])
  BY <1>1, YieldKeeps, YieldMoves, TreeAssumption DEF RowsAndPlaces
<1>4. notes \subseteq notes'
  BY <1>1 DEF NotesAfter
<1>5. ASSUME NEW i \in Job, state'[i] \in Underways \/ i \notin notes'
      PROVE  Placed(Tree', i, ChannelOf[i], state'[i])
  <2>1. CASE i = j /\ state[j] = Absent
    <3>1. Nowhere(Tree, j)
      BY <1>1, <1>2, <1>4, <1>5, <2>1 DEF RowsAndPlaces, ViewRight, Placed, Underways
    <3> QED
      BY <1>3, <3>1, TreeAssumption DEF WaitsIn, Nowhere
  <2>2. CASE i = j /\ state[j] # Absent
    BY <1>2, <1>3, <2>2 DEF Placed, Underways
  <2>3. CASE i # j
    BY <1>1, <1>2, <1>3, <1>4, <1>5, <2>3, AlikePlaced, ConfigAssumption
       DEF RowsAndPlaces, ViewRight
  <2> QED BY <2>1, <2>2, <2>3
<1> QED
  BY <1>1, <1>2, <1>3, <1>5 DEF RowsAndPlaces, ViewRight, Connected

LEMMA RecoverInSendKeeps ==
  ASSUME RowsAndPlaces, NEW j \in Job, RecoverInSend(j)
  PROVE  RowsAndPlaces'
BY RemoveAllKeeps, EnqueuedRows DEF RecoverInSend, RowsAndPlaces, Connected

LEMMA Starts == Init => RowsAndPlaces
<1> SUFFICES ASSUME Init PROVE RowsAndPlaces
  OBVIOUS
<1>1. ChannelInv
  <2>1. FlowInv
    BY DEF Init, ChannelsInit, FlowInv, Nowhere, Tree
  <2>2. ChannelsTypeOK
    BY ConfigAssumption DEF Init, ChannelsInit, ChannelsTypeOK
  <2> QED BY <2>1, <2>2 DEF ChannelInv
<1>2. RowsType
  <2>1. txn = [u \in User |-> DB!NoTxn]
    BY DEF Init, DB!Init
  <2>2. txn \in [User -> {DB!NoTxn}]
    BY <2>1
  <2>3. \A u \in User : Writes(u) = << >>
    BY <2>1 DEF Writes, DB!NoTxn
  <2>4. state \in [Job -> RowStates]
    BY RowStatesAre DEF Init, DB!Init, DB!PendingOrWait
  <2>5. \A u \in User : DOMAIN Writes(u) = {}
    BY <2>3
  <2>6. \E Txns : txn \in [User -> Txns]
    BY <2>2
  <2> QED BY <2>4, <2>5, <2>6 DEF RowsType
<1> QED
  BY <1>1, <1>2 DEF Init, RowsAndPlaces, Connected

LEMMA NextSteps ==
  ASSUME Next
  PROVE  \/ Listen \/ LoadJobs \/ Recover \/ BeginRunJobs
         \/ \E j \in Job : ProcessNotification(j) \/ SendJob(j) \/ RecoverInSend(j)
         \/ \E c \in Channel : ExhaustChannel(c)
         \/ \E c \in Channel, j \in Job : PassDown(c, j)
         \/ Others
BY DEF Next, RunnerStep, Others

LEMMA RowsAndPlacesKept == RowsAndPlaces /\ [Next]_vars => RowsAndPlaces'
<1> SUFFICES ASSUME RowsAndPlaces, [Next]_vars PROVE RowsAndPlaces'
  OBVIOUS
<1>1. CASE UNCHANGED vars
  <2>1. ChannelInv' /\ Tree' = Tree
    BY <1>1, ChannelsStay DEF vars, RowsAndPlaces
  <2>2. RowsType' /\ state' = state /\ phase' = phase /\ notes' = notes
    BY <1>1, SameRows DEF vars, dbVars, RowsKept, RowsAndPlaces
  <2> QED BY <2>1, <2>2 DEF RowsAndPlaces, ViewRight, Connected
<1>2. CASE Next
  BY <1>2, NextSteps, ConnectingKeeps, NotificationKeeps, PassKeeps, PassDownKeeps,
     SendKeeps, RecoverInSendKeeps, OthersKeep
<1> QED
  BY <1>1, <1>2

LEMMA RowsAndPlacesHold == Spec => []RowsAndPlaces
  BY Starts, RowsAndPlacesKept, PTL DEF Spec

\* No lost notification, for every tree, graph, number of workers and users and
\* choice of faults: a row that has no notification on its way is where the runner
\* believes it to be.
THEOREM ViewIsRight == Spec => []ViewAgrees
<1>1. RowsAndPlaces => ViewAgrees
  <2> SUFFICES ASSUME RowsAndPlaces, Connected, NEW j \in Job \ notes PROVE Agrees(j)
    BY DEF ViewAgrees, Connected
  <2>1. /\ Placed(Tree, j, ChannelOf[j], state[j])
        /\ ChannelOf[j] \in Channel /\ state[j] \in RowStates
    BY ConfigAssumption DEF RowsAndPlaces, ViewRight, RowsType
  <2>2. CASE state[j] = PENDING
    <3>1. PICK d \in Path(ChannelOf[j]) : WaitsIn(Tree, j, ChannelOf[j], d)
      BY <2>1, <2>2 DEF Placed
    <3>2. d \in QueuedIn(j)
      BY <2>1, <3>1, PathsAreChannels DEF WaitsIn, QueuedIn, Tree
    <3> QED BY <2>2, <3>2 DEF Agrees
  <2>3. CASE state[j] \in Underways
    <3>1. Root \in RunningIn(j)
      BY <2>1, <2>3, RootOfAll DEF Placed, RunsBelow, RunningIn, Tree
    <3> QED BY <2>3, <3>1 DEF Agrees, Underways
  <2>4. CASE state[j] = FAILED
    <3>1. FailedIn(j) = {ChannelOf[j]}
      BY <2>1, <2>4 DEF Placed, BlocksIn, FailedIn, Tree
    <3> QED BY <2>4, <3>1 DEF Agrees
  <2>5. CASE state[j] \in {DONE, CANCELLED, Absent}
    <3>1. QueuedIn(j) \cup RunningIn(j) \cup FailedIn(j) = {}
      BY <2>1, <2>5 DEF Placed, Nowhere, QueuedIn, RunningIn, FailedIn, Tree
    <3> QED BY <2>5, <3>1 DEF Agrees
  <2>6. CASE state[j] = WAIT_DEPENDENCIES
    BY <2>6 DEF Agrees
  <2> QED BY <2>1, <2>2, <2>3, <2>4, <2>5, <2>6, RowStatesAre DEF Underways
<1> QED
  BY <1>1, RowsAndPlacesHold, PTL

------------------------------------------------------------------------------
(* The capacities                                                            *)

\* While the runner is connected, its channels count the jobs under way, and no
\* more run there than may; while it is not, nobody enqueues a job.
CountsRight ==
  \A c \in Channel : Capacity[c] # 0 =>
    Cardinality(IF Connected THEN running[c] ELSE Underway(c)) <= Capacity[c]

LEMMA Finite ==
  ASSUME RowsAndPlaces, NEW c \in Channel
  PROVE  /\ IsFiniteSet(running[c]) /\ Cardinality(running[c]) \in Nat
         /\ IsFiniteSet(Underway(c)) /\ Cardinality(Underway(c)) \in Nat
<1>1. running[c] \in SUBSET Job /\ Underway(c) \in SUBSET Job
  BY DEF RowsAndPlaces, ChannelInv, ChannelsTypeOK, Underway
<1> QED
  BY <1>1, RowsAssumption, FS_Subset, FS_CardinalityType

\* A set within one that is small enough is small enough.
LEMMA FewEnough ==
  ASSUME NEW S, NEW T \in SUBSET S, NEW n \in Nat, IsFiniteSet(S), Cardinality(S) <= n
  PROVE  Cardinality(T) <= n
<1>1. Cardinality(T) <= Cardinality(S) /\ IsFiniteSet(T)
  BY FS_Subset
<1>2. Cardinality(T) \in Nat /\ Cardinality(S) \in Nat
  BY <1>1, FS_CardinalityType
<1> QED
  BY <1>1, <1>2

LEMMA RoomForOne ==
  ASSUME NEW S, NEW x, NEW n \in Nat, IsFiniteSet(S), Cardinality(S) < n
  PROVE  IsFiniteSet(S \cup {x}) /\ Cardinality(S \cup {x}) <= n
<1>1. IsFiniteSet(S \cup {x}) /\ Cardinality(S) \in Nat
  BY FS_AddElement, FS_CardinalityType
<1>2. Cardinality(S \cup {x}) \in {Cardinality(S), Cardinality(S) + 1}
  BY FS_AddElement
<1> QED
  BY <1>1, <1>2

LEMMA UnderwayRuns ==
  ASSUME RowsAndPlaces, Connected, NEW c \in Channel
  PROVE  Underway(c) \subseteq running[c]
<1> SUFFICES ASSUME NEW j \in Underway(c) PROVE j \in running[c]
  OBVIOUS
<1>1. j \in Job /\ state[j] \in Underways /\ c \in Path(ChannelOf[j])
  BY DEF Underway, Underways
<1>2. RunsBelow(Tree, j, ChannelOf[j])
  BY <1>1 DEF RowsAndPlaces, ViewRight, Placed
<1> QED
  BY <1>1, <1>2 DEF RunsBelow, Tree

LEMMA CountsRespect == ASSUME RowsAndPlaces, CountsRight PROVE CapacityRespected
<1> SUFFICES ASSUME NEW c \in Channel, Capacity[c] # 0
             PROVE  Cardinality(Underway(c)) <= Capacity[c]
  BY DEF CapacityRespected
<1>1. CASE Connected
  <2>1. Cardinality(running[c]) <= Capacity[c]
    BY <1>1 DEF CountsRight
  <2>2. Underway(c) \in SUBSET running[c]
    BY <1>1, UnderwayRuns
  <2> QED BY <2>1, <2>2, Finite, FewEnough, ConfigAssumption
<1>2. CASE ~Connected
  BY <1>2 DEF CountsRight
<1> QED
  BY <1>1, <1>2

\* Channel c is given one more job to run, and has capacity.
LEMMA OneMoreRuns ==
  ASSUME RowsAndPlaces, CountsRight, Connected, NEW c \in Channel, NEW j \in Job, Yield(c, j),
         NEW d \in Channel, Capacity[d] # 0
  PROVE  Cardinality(running'[d]) <= Capacity[d]
<1>1. running' = [running EXCEPT ![c] = @ \cup {j}] /\ HasCapacity(c)
  BY DEF Yield
<1>2. running \in [Channel -> SUBSET Job]
  BY DEF RowsAndPlaces, ChannelInv, ChannelsTypeOK
<1>3. Cardinality(running[d]) <= Capacity[d]
  BY DEF CountsRight
<1>4. CASE d # c
  <2>1. running'[d] = running[d]
    BY <1>1, <1>2, <1>4
  <2> QED BY <1>3, <2>1
<1>5. CASE d = c
  <2>1. running'[d] = running[d] \cup {j}
    BY <1>1, <1>2, <1>5
  <2>2. Cardinality(running[d]) < Capacity[d]
    BY <1>1, <1>5 DEF HasCapacity
  <2> QED
    BY <2>1, <2>2, RoomForOne, Finite, ConfigAssumption
<1> QED
  BY <1>4, <1>5

\* Without a runner no more jobs get under way.
LEMMA UnconnectedCounts ==
  ASSUME RowsAndPlaces, CountsRight, ~Connected', NEW c \in Channel, Capacity[c] # 0,
         Underway(c)' \subseteq Underway(c)
  PROVE  Cardinality(Underway(c)') <= Capacity[c]
BY Finite, FewEnough, CountsRespect, ConfigAssumption DEF CapacityRespected

LEMMA SameUnderway ==
  ASSUME \A j \in Job : state'[j] \in Underways => state[j] \in Underways
  PROVE  \A c \in Channel : Underway(c)' \subseteq Underway(c)
BY DEF Underway, Underways

\* The request was not sent, but the row is ENQUEUED: the job had its place in all
\* channels but the root, which had capacity.
LEMMA RecoverInSendCounts ==
  ASSUME RowsAndPlaces, CountsRight, NEW j \in Job, RecoverInSend(j)
  PROVE  CountsRight'
<1>0. /\ Connected /\ ~Connected' /\ HasCapacity(Root) /\ j \in queue[Root]
      /\ DB!SetJobEnqueued(j) /\ txn' = txn
  BY DEF RecoverInSend, Connected, Pops, PopsAt, Ready, Due
<1>1. /\ \A i \in Job \ {j} : state'[i] = state[i]
  BY <1>0, EnqueuedRows DEF RowsAndPlaces
<1>2. WaitsIn(Tree, j, ChannelOf[j], Root)
  <2>1. \E d \in Path(ChannelOf[j]) : WaitsIn(Tree, j, ChannelOf[j], d)
    BY <1>0, EveryJobFlows, OnePlace, TreeAssumption DEF RowsAndPlaces, Tree
  <2> QED
    BY <1>0, <2>1, TreeAssumption DEF WaitsIn, Tree
<1>3. Path(Root) = {Root} /\ Root \in Channel
  BY TreeAssumption DEF Path
<1> SUFFICES ASSUME NEW c \in Channel, Capacity[c] # 0
             PROVE  Cardinality(Underway(c)') <= Capacity[c]
  BY <1>0 DEF CountsRight
<1>4. Underway(c)' \subseteq Underway(c) \cup {i \in {j} : c \in Path(ChannelOf[j])}
  BY <1>1 DEF Underway
<1>5. Underway(c) \subseteq running[c] /\ Cardinality(running[c]) <= Capacity[c]
  BY <1>0, UnderwayRuns DEF CountsRight
<1>6. CASE c = Root
  <2>1. Cardinality(running[c]) < Capacity[c]
    BY <1>0, <1>6 DEF HasCapacity
  <2>2. Cardinality(running[c] \cup {j}) <= Capacity[c] /\ IsFiniteSet(running[c] \cup {j})
    BY <2>1, RoomForOne, Finite, ConfigAssumption
  <2> QED
    BY <1>4, <1>5, <2>2, FewEnough, ConfigAssumption
<1>7. CASE c # Root
  <2>1. c \in Path(ChannelOf[j]) => j \in running[c]
    BY <1>2, <1>3, <1>7 DEF WaitsIn, Tree
  <2> QED
    BY <1>4, <1>5, <2>1, Finite, FewEnough, ConfigAssumption
<1> QED
  BY <1>6, <1>7

LEMMA CountsKept == RowsAndPlaces /\ CountsRight /\ [Next]_vars => CountsRight'
<1> SUFFICES ASSUME RowsAndPlaces, CountsRight, [Next]_vars PROVE CountsRight'
  OBVIOUS
<1>1. CASE Others \/ UNCHANGED vars
  <2>1. running' = running /\ Connected' = Connected
        /\ \A j \in Job : state'[j] \in Underways => state[j] \in Underways
    BY <1>1, OthersKeep DEF channelVars, vars, dbVars, Connected, RowsKept
  <2>2. CASE Connected
    BY <2>1, <2>2, CountsRespect DEF CountsRight, CapacityRespected
  <2>3. CASE ~Connected
    BY <2>1, <2>3, SameUnderway, UnconnectedCounts DEF CountsRight
  <2> QED BY <2>2, <2>3
<1>2. CASE Listen \/ Recover
  <2>1. ~Connected' /\ state' = state
    BY <1>2 DEF Listen, Recover, dbVars, Connected
  <2> QED BY <2>1, SameUnderway, UnconnectedCounts DEF CountsRight
<1>3. CASE LoadJobs
  <2>1. Connected' /\ state' = state /\ Load(state, [i \in Job |-> 0])
    BY <1>3 DEF LoadJobs, dbVars, Connected
  <2>2. \A c \in Channel : running'[c] = Underway(c)
    BY <2>1 DEF Load, Become, Underway
  <2> QED BY <2>1, <2>2, CountsRespect DEF CountsRight, CapacityRespected
<1>4. ASSUME NEW j \in Job, ProcessNotification(j) PROVE CountsRight'
  <2>1. Connected /\ Connected' /\ \A c \in Channel : running'[c] \subseteq running[c]
    BY <1>4, NotificationKeeps DEF ProcessNotification, Connected
  <2>2. \A c \in Channel : Capacity[c] # 0 => Cardinality(running'[c]) <= Capacity[c]
    BY <2>1, Finite, FewEnough, ConfigAssumption DEF CountsRight
  <2> QED BY <2>1, <2>2 DEF CountsRight
<1>5. CASE BeginRunJobs \/ \E c \in Channel : ExhaustChannel(c)
  <2>1. Connected /\ Connected' /\ running' = running
    BY <1>5, PassKeeps DEF BeginRunJobs, ExhaustChannel, Connected
  <2> QED BY <2>1 DEF CountsRight
<1>6. ASSUME NEW c \in Channel, NEW j \in Job, Connected, Connected', Yield(c, j)
      PROVE  CountsRight'
  BY <1>6, OneMoreRuns DEF CountsRight
<1>7. ASSUME NEW c \in Channel, NEW j \in Job, PassDown(c, j) PROVE CountsRight'
  BY <1>6, <1>7 DEF PassDown, Connected
<1>8. ASSUME NEW j \in Job, SendJob(j) PROVE CountsRight'
  BY <1>6, <1>8, TreeAssumption DEF SendJob, Connected
<1> QED
  BY <1>1, <1>2, <1>3, <1>4, <1>5, <1>7, <1>8, NextSteps, RecoverInSendCounts

LEMMA StartCounts == Init => CountsRight
<1> SUFFICES ASSUME Init, NEW c \in Channel, Capacity[c] # 0
             PROVE  Cardinality(Underway(c)) <= Capacity[c] /\ ~Connected
  BY DEF CountsRight
<1>1. Underway(c) = {} /\ ~Connected
  BY DEF Init, DB!Init, DB!PendingOrWait, Underway, Connected
<1> QED
  BY <1>1, FS_EmptySet, ConfigAssumption

\* The server is not overrun, however many jobs, channels and workers there are,
\* whatever notifications are late, requests time out and processes crash.
THEOREM CapacitiesHold == Spec => []CapacityRespected
<1>1. RowsAndPlaces /\ CountsRight => CapacityRespected
  BY CountsRespect
<1> QED
  BY <1>1, Starts, StartCounts, RowsAndPlacesKept, CountsKept, PTL DEF Spec

------------------------------------------------------------------------------
(* The refinement                                                            *)

\* Reading the table puts no job in a queue that is not PENDING there.
LEMMA OffersPending ==
  ASSUME RowsAndPlaces, LoadJobs \/ (\E j \in Job : ProcessNotification(j))
  PROVE  Offered' \subseteq Offered \cup {j \in Job : state[j] = PENDING}
<1>1. CASE LoadJobs
  BY <1>1 DEF LoadJobs, Load, Become, Offered, QueuedIn
<1>2. ASSUME NEW j \in Job, ProcessNotification(j)
      PROVE  Offered' \subseteq Offered \cup {i \in Job : state[i] = PENDING}
  <2>1. CASE state[j] = Absent
    BY <1>2, <2>1, RemoveJobPlaces DEF ProcessNotification, RowsAndPlaces, Offered, QueuedIn
  <2>2. CASE state[j] # Absent
    <3>1. Notify(j, state[j], 0) /\ state[j] \in States
      BY <1>2, <2>2 DEF ProcessNotification, RowsAndPlaces, RowsType, RowStates
    <3>2. /\ \A i \in Job \ {j} : Alike(Tree, Tree', i)
      BY <1>2, <3>1, NotifyPlaces
         DEF ProcessNotification, RowsAndPlaces, Connected, ViewRight, Placed
    <3>3. ASSUME state[j] # PENDING, NEW c \in Channel, j \in queue'[c]
          PROVE  j \in queue[c]
      <4> DEFINE b == ChannelOf[j]
                 t == IF j \in known /\ 0 # eta[j] THEN Remove(Tree, b, j) ELSE Tree
                 u == Transition(t, b, j, state[j])
      <4>1. t \in TreeType /\ \A d \in Channel : t.queue[d] \subseteq queue[d]
        BY EveryJobFlows, RemoveFlows DEF RowsAndPlaces, Remove, Without, Tree, TreeType
      <4>2. queue' = u.queue
        BY <3>1 DEF Notify, Become
      <4>3. u.queue[c] \subseteq t.queue[c]
        <5> HIDE DEF t
        <5> QED BY <3>1, <3>3, <4>1, EveryJobFlows, TransitionAdds DEF RowsAndPlaces
      <4> QED
        BY <3>3, <4>1, <4>2, <4>3
    <3> QED
      BY <3>2, <3>3 DEF Alike, Tree, Offered, QueuedIn
  <2> QED BY <2>1, <2>2
<1> QED
  BY <1>1, <1>2

LEMMA SameQueues == ASSUME queue' = queue PROVE Offered' = Offered
BY DEF Offered, QueuedIn

LEMMA StepImplements == RowsAndPlaces /\ [Next]_vars => [DB!Next]_(DB!vars)
<1> SUFFICES ASSUME RowsAndPlaces, [Next]_vars PROVE DB!Next \/ UNCHANGED DB!vars
  OBVIOUS
<1>1. CASE UNCHANGED vars \/ Listen \/ BeginRunJobs \/ \E c \in Channel : ExhaustChannel(c)
  <2>1. UNCHANGED dbVars /\ queue' = queue
    BY <1>1 DEF vars, channelVars, Listen, BeginRunJobs, BeginPass, ExhaustChannel, Exhaust
  <2> QED
    BY <2>1, SameQueues DEF dbVars, DB!vars
<1>2. ASSUME UNCHANGED dbVars, Offered' \subseteq Offered \cup {j \in Job : state[j] = PENDING}
      PROVE  DB!Next
  BY <1>2 DEF dbVars, DB!Next, DB!ReadRows
<1>3. CASE LoadJobs \/ \E j \in Job : ProcessNotification(j)
  BY <1>2, <1>3, OffersPending DEF LoadJobs, ProcessNotification
<1>4. CASE Recover
  <2>1. Offered' = {}
    BY <1>4 DEF Recover, RemoveAll, Become, Offered, QueuedIn
  <2> QED BY <1>2, <1>4, <2>1 DEF Recover
<1>5. ASSUME NEW c \in Channel, NEW j \in Job, PassDown(c, j) PROVE DB!Next
  <2>1. /\ UNCHANGED dbVars /\ c # Root /\ Yield(c, j) /\ ChannelInv
        /\ \A i \in Job \ {j} : Alike(Tree, Tree', i)
        /\ WaitsIn(Tree, j, ChannelOf[j], c)
    BY <1>5, YieldMoves DEF PassDown, RowsAndPlaces
  <2>2. j \in Offered
    BY <2>1 DEF WaitsIn, Tree, Offered, QueuedIn
  <2>3. Offered' \subseteq Offered
    BY <2>1, <2>2 DEF Alike, Tree, Offered, QueuedIn
  <2> QED BY <1>2, <2>1, <2>3
<1>6. ASSUME NEW j \in Job, SendJob(j) PROVE DB!Next
  <2>1. /\ Yield(Root, j) /\ DB!SetJobEnqueued(j) /\ DB!AsyncHttpGet(j)
        /\ UNCHANGED <<retry, worker, txn, everDone>>
    BY <1>6 DEF SendJob
  <2>2. /\ \A i \in Job \ {j} : Alike(Tree, Tree', i)
        /\ WaitsIn(Tree, j, ChannelOf[j], Root) /\ RunsBelow(Tree', j, ChannelOf[j])
        /\ Root \in Channel
    BY <2>1, YieldMoves, TreeAssumption DEF RowsAndPlaces
  <2>3. j \in Offered /\ j \notin Offered'
    BY <2>2 DEF WaitsIn, RunsBelow, Tree, Offered, QueuedIn
  <2>4. Offered' = Offered \ {j}
    BY <2>2, <2>3 DEF Alike, Tree, Offered, QueuedIn
  <2>5. DB!Dispatch(j)
    BY <2>1, <2>3, <2>4 DEF DB!Dispatch
  <2> QED BY <2>5 DEF DB!Next, DB!RunnerStep
<1>7. ASSUME NEW j \in Job, RecoverInSend(j) PROVE DB!Next
  <2>1. Offered' = {}
    BY <1>7 DEF RecoverInSend, RemoveAll, Become, Offered, QueuedIn
  <2>2. j \in Offered
    BY <1>7, TreeAssumption DEF RecoverInSend, Pops, PopsAt, Ready, Due, Offered, QueuedIn
  <2>3. DB!DispatchCrash(j)
    BY <1>7, <2>1, <2>2 DEF RecoverInSend, DB!DispatchCrash
  <2> QED BY <2>3 DEF DB!Next, DB!RunnerStep
<1>8. CASE Others
  BY <1>8 DEF Others, ClientStep, Autovacuum, WorkerStep, UserStep, Environment, DB!Next
<1> QED
  BY <1>1, <1>3, <1>4, <1>5, <1>6, <1>7, <1>8, NextSteps

\* The runner with its channels and notifications implements the runner that
\* module QueueJob allows, whose queues are what it believes to be PENDING: it sends
\* only jobs that it read as PENDING, each once per reading.
THEOREM RunnerImplements == Spec => ImplementsQueueJob
<1>1. Init => DB!Init
  <2>1. ChannelsInit => Offered = {}
    BY DEF ChannelsInit, Offered, QueuedIn
  <2> QED BY <2>1 DEF Init
<1> QED
  BY <1>1, RowsAndPlacesHold, StepImplements, PTL DEF Spec, ImplementsQueueJob, DB!Spec

------------------------------------------------------------------------------
(* Heaps with lazy removal                                                   *)

LEMMA LessIsAnOrder ==
  ASSUME NEW etas \in [Object -> Nat]
  PROVE  /\ \A o \in Object : ~Less(etas, o, o)
         /\ \A o, p \in Object : Less(etas, o, p) => ~Less(etas, p, o)
         /\ \A o, p \in Object : ~Less(etas, o, p) /\ ~Less(etas, p, o)
              => etas[o] = etas[p] /\ Order[o] = Order[p]
<1>1. \A o \in Object : Order[o] \in Nat /\ etas[o] \in Nat
  BY ObjectAssumption
<1>2. \A o \in Object : ~Less(etas, o, o)
  BY <1>1 DEF Less
<1>3. \A o, p \in Object : Less(etas, o, p) => ~Less(etas, p, o)
  BY <1>1 DEF Less
<1>4. \A o, p \in Object : ~Less(etas, o, p) /\ ~Less(etas, p, o)
        => etas[o] = etas[p] /\ Order[o] = Order[p]
  BY <1>1 DEF Less
<1>5. QED
  BY <1>2, <1>3, <1>4

LEMMA FirstExists ==
  ASSUME NEW etas \in [Object -> Nat], NEW S \in SUBSET Object, S # {}
  PROVE  Firsts(S, etas) # {}
<1> DEFINE Timed == {o \in S : etas[o] # 0}
           T == IF Timed = {} THEN S ELSE Timed
           Soonest == {o \in T : \A p \in T : etas[o] <= etas[p]}
<1>1. T # {} /\ T \subseteq S /\ \A o \in T : etas[o] \in Nat
  OBVIOUS
<1>2. Soonest # {} /\ Soonest \subseteq S
  BY <1>1, LeastOf
<1>3. \A o \in Soonest : Order[o] \in Nat
  BY <1>2, ObjectAssumption
<1>4. PICK o \in Soonest : \A p \in Soonest : Order[o] <= Order[p]
  BY <1>2, <1>3, LeastOf
<1>5. ASSUME NEW p \in S
      PROVE  ~Less(etas, p, o)
  <2>1. /\ o \in Object /\ p \in Object /\ Order[o] \in Nat /\ Order[p] \in Nat
        /\ etas[o] \in Nat /\ etas[p] \in Nat
    BY <1>2, <1>5, ObjectAssumption
  <2>2. CASE p \in Soonest
    <3>1. etas[o] = etas[p] /\ Order[o] <= Order[p]
      BY <1>4, <2>1, <2>2
    <3>2. QED
      BY <2>1, <3>1 DEF Less
  <2>3. CASE p \in T /\ p \notin Soonest
    <3>1. PICK q \in T : ~(etas[p] <= etas[q])
      BY <2>3
    <3>2. etas[q] \in Nat /\ etas[o] <= etas[q]
      BY <1>1, <3>1
    <3>3. etas[o] < etas[p] /\ ((etas[o] = 0) = (etas[p] = 0))
      BY <2>1, <2>3, <3>1, <3>2
    <3>4. QED
      BY <2>1, <3>3 DEF Less
  <2>4. CASE p \notin T
    <3>1. etas[o] # 0 /\ etas[p] = 0
      BY <2>4, <1>5
    <3>2. QED
      BY <3>1 DEF Less
  <2>5. QED
    BY <2>2, <2>3, <2>4
<1>6. QED
  BY <1>2, <1>4, <1>5 DEF Firsts

\* Of several firsts of a set, all have one place in the order.
LEMMA FirstsAlike ==
  ASSUME NEW etas \in [Object -> Nat], NEW S \in SUBSET Object,
         NEW o \in Firsts(S, etas), NEW p \in Firsts(S, etas)
  PROVE  etas[o] = etas[p] /\ Order[o] = Order[p]
BY LessIsAnOrder DEF Firsts

LEMMA HeapLength ==
  ASSUME NEW h, IsHeap(h), IsFiniteSet(h.known)
  PROVE  /\ HeapLen(h) = Cardinality(Live(h)) /\ IsFiniteSet(Live(h))
         /\ HeapLen(h) \in Nat
         /\ HeapLen(h) = 0 <=> Live(h) = {}
<1>0. h.heap = h.known /\ h.removed \subseteq h.known
  BY DEF IsHeap
<1>1. h.heap = h.known /\ h.removed \subseteq h.known /\ IsFiniteSet(h.removed)
  BY <1>0, FS_Subset
<1>2. h.known \cap h.removed = h.removed
  BY <1>1
<1>3. Cardinality(Live(h)) = Cardinality(h.known) - Cardinality(h.removed)
  <2>1. Live(h) = h.known \ h.removed
    BY <1>1 DEF Live
  <2>2. Cardinality(h.known \ h.removed)
          = Cardinality(h.known) - Cardinality(h.known \cap h.removed)
    BY <1>1, FS_Difference
  <2>3. QED
    BY <1>2, <2>1, <2>2
<1>4. IsFiniteSet(Live(h))
  BY <1>1, FS_Subset DEF Live
<1>5. Cardinality(Live(h)) \in Nat /\ (Cardinality(Live(h)) = 0 <=> Live(h) = {})
  BY <1>4, FS_CardinalityType, FS_EmptySet
<1>6. QED
  BY <1>3, <1>4, <1>5 DEF HeapLen

LEMMA EmptyHeapIsHeap ==
  IsHeap(EmptyHeap) /\ Live(EmptyHeap) = {} /\ EmptyHeap.known = {}
BY DEF IsHeap, EmptyHeap, Live

\* add and remove act as on a set of those that are not marked.
LEMMA HeapAdds ==
  ASSUME NEW h, IsHeap(h), NEW o \in Object
  PROVE  /\ IsHeap(HeapAdd(h, o))
         /\ Live(HeapAdd(h, o)) = Live(h) \cup {o}
         /\ HeapAdd(h, o).known = h.known \cup {o}
BY DEF IsHeap, HeapAdd, Live

LEMMA HeapRemoves ==
  ASSUME NEW h, IsHeap(h), NEW o \in Object
  PROVE  /\ IsHeap(HeapRemove(h, o))
         /\ Live(HeapRemove(h, o)) = Live(h) \ {o}
         /\ HeapRemove(h, o).known = h.known
BY DEF IsHeap, HeapRemove, Live

LEMMA HeapDrops ==
  ASSUME NEW h, IsHeap(h), NEW os
  PROVE  /\ IsHeap(Dropped(h, os))
         /\ Live(Dropped(h, os)) = Live(h) \ os
         /\ Dropped(h, os).known = h.known \ os
BY DEF IsHeap, Dropped, Live

\* Peeling a heap takes marked ones only.
LEMMA HeapPeels ==
  ASSUME NEW etas, NEW h, IsHeap(h), NEW peeled \in Peelings(h, etas)
  PROVE  /\ IsHeap(peeled)
         /\ Live(peeled) = Live(h)
         /\ peeled.known \subseteq h.known
<1>1. PICK os \in SUBSET h.removed : peeled = Dropped(h, os)
  BY DEF Peelings
<1>2. Live(h) \ os = Live(h)
  BY <1>1 DEF Live
<1>3. /\ IsHeap(Dropped(h, os))
      /\ Live(Dropped(h, os)) = Live(h) \ os
      /\ Dropped(h, os).known = h.known \ os
  BY HeapDrops
<1>4. QED
  BY <1>1, <1>2, <1>3

LEMMA FirstOfHeap ==
  ASSUME NEW etas \in [Object -> Nat], NEW h, IsHeap(h), Live(h) # {}
  PROVE  First(h, etas) \in Firsts(Live(h), etas) /\ First(h, etas) \in Live(h)
<1>1. Live(h) \in SUBSET Object
  BY DEF Live, IsHeap
<1>2. Firsts(Live(h), etas) # {}
  BY <1>1, FirstExists
<1>3. First(h, etas) \in Firsts(Live(h), etas)
  BY <1>2 DEF First
<1>4. QED
  BY <1>3 DEF Firsts

LEMMA HeapLooks ==
  ASSUME NEW etas \in [Object -> Nat], NEW h, IsHeap(h), IsFiniteSet(h.known)
  PROVE  /\ \A looked \in Looks(h, etas) : /\ IsHeap(looked)
                                           /\ Live(looked) = Live(h)
                                           /\ looked.known \subseteq h.known
         /\ Live(h) # {} => /\ First(h, etas) \in Firsts(Live(h), etas)
                            /\ FirstEtaOf(h, etas) = etas[First(h, etas)]
         /\ Live(h) = {} => FirstEtaOf(h, etas) = 0
<1>1. HeapLen(h) = 0 <=> Live(h) = {}
  BY HeapLength
<1>2. ASSUME NEW looked \in Looks(h, etas)
      PROVE  IsHeap(looked) /\ Live(looked) = Live(h) /\ looked.known \subseteq h.known
  BY <1>2, HeapPeels DEF Looks
<1>3. QED
  BY <1>1, <1>2, FirstOfHeap DEF FirstEtaOf

\* pop returns a first of those that are not marked.
LEMMA HeapPop ==
  ASSUME NEW etas \in [Object -> Nat], NEW h, IsHeap(h), NEW rest \in HeapPops(h, etas)
  PROVE  /\ IsHeap(rest.heap)
         /\ Live(rest.heap) = Live(h) \ rest.out
         /\ rest.heap.known \subseteq h.known \ rest.out
         /\ IF Live(h) = {} THEN rest.out = {}
            ELSE \E o \in Firsts(Live(h), etas) : rest.out = {o}
<1>1. PICK peeled \in Peelings(h, etas),
           out \in IF Live(h) = {} THEN {{}} ELSE {{o} : o \in Firsts(Live(h), etas)} :
             rest = [heap |-> Dropped(peeled, out), out |-> out]
  BY DEF HeapPops
<1>2. IsHeap(peeled) /\ Live(peeled) = Live(h) /\ peeled.known \subseteq h.known
  BY HeapPeels
<1>3. QED
  BY <1>1, <1>2, HeapDrops

------------------------------------------------------------------------------
(* The two heaps of a ChannelQueue as a set                                  *)

HeapsAreASet == HeapsTypeOK /\ HeapsInv

LEMMA QueueInitAsSet ==
  QueueInit => HeapsAreASet
<1>1. ASSUME QueueInit
      PROVE  HeapsTypeOK
  BY <1>1, EmptyHeapIsHeap, ObjectAssumption DEF QueueInit, HeapsTypeOK
<1>2. ASSUME QueueInit
      PROVE  HeapsInv
  BY <1>2, EmptyHeapIsHeap, FS_EmptySet DEF QueueInit, HeapsInv
<1>3. QED
  BY <1>1, <1>2 DEF HeapsAreASet

\* What the looks and calls before and between pops do.
LEMMA CallsAsSet ==
  ASSUME HeapsAreASet,
         (\E o \in Object : AddObject(o) \/ RemoveObject(o)) \/ GetWakeupTime \/ BeginPop
  PROVE  HeapsAreASet'
<1> USE DEF HeapsAreASet
<1>0. /\ jobEta \in [Object -> Nat] /\ IsHeap(soon) /\ IsHeap(someday)
      /\ IsFiniteSet(soon.known) /\ IsFiniteSet(someday.known)
  BY DEF HeapsTypeOK, HeapsInv
<1>1. ASSUME NEW o \in Object, AddObject(o)
      PROVE  HeapsAreASet'
  <2>1. /\ IsHeap(HeapAdd(soon, o)) /\ Live(HeapAdd(soon, o)) = Live(soon) \cup {o}
        /\ HeapAdd(soon, o).known = soon.known \cup {o}
        /\ IsHeap(HeapAdd(someday, o)) /\ Live(HeapAdd(someday, o)) = Live(someday) \cup {o}
        /\ HeapAdd(someday, o).known = someday.known \cup {o}
    BY <1>0, HeapAdds
  <2>2. IsFiniteSet(HeapAdd(soon, o).known) /\ IsFiniteSet(HeapAdd(someday, o).known)
    <3>1. IsFiniteSet(soon.known \cup {o})
      BY <1>0, FS_AddElement
    <3>2. IsFiniteSet(someday.known \cup {o})
      BY <1>0, FS_AddElement
    <3>3. QED
      BY <2>1, <3>1, <3>2
  <2>3. HeapsTypeOK'
    BY <1>1, <2>1 DEF AddObject, HeapsTypeOK
  <2>4. /\ members' = members \cup {o}
        /\ Live(soon)' \cup Live(someday)' = Live(soon) \cup Live(someday) \cup {o}
    BY <1>1, <2>1 DEF AddObject
  <2>5. HeapsInv'
    BY <1>0, <1>1, <2>2, <2>4 DEF AddObject, HeapsInv
  <2>6. QED
    BY <2>3, <2>5
<1>2. ASSUME NEW o \in Object, RemoveObject(o)
      PROVE  HeapsAreASet'
  <2>1. /\ IsHeap(HeapRemove(soon, o)) /\ Live(HeapRemove(soon, o)) = Live(soon) \ {o}
        /\ HeapRemove(soon, o).known = soon.known
        /\ IsHeap(HeapRemove(someday, o))
        /\ Live(HeapRemove(someday, o)) = Live(someday) \ {o}
        /\ HeapRemove(someday, o).known = someday.known
    BY <1>0, HeapRemoves
  <2>2. HeapsTypeOK'
    BY <1>2, <2>1 DEF RemoveObject, HeapsTypeOK
  <2>3. /\ members' = members \ {o} /\ popTime = 0 /\ popTime' = 0
        /\ Live(soon)' \cup Live(someday)' = (Live(soon) \cup Live(someday)) \ {o}
    BY <1>2, <2>1 DEF RemoveObject
  <2>4. \A p \in Object : jobEta[p] = memberEta[p]
    BY <2>3 DEF HeapsInv
  <2>5. HeapsInv'
    BY <1>0, <1>2, <2>1, <2>3, <2>4 DEF RemoveObject, HeapsInv
  <2>6. QED
    BY <2>2, <2>5
<1>3. ASSUME GetWakeupTime
      PROVE  HeapsAreASet'
  <2>1. /\ IsHeap(someday') /\ Live(someday') = Live(someday)
        /\ someday'.known \subseteq someday.known
    BY <1>0, <1>3, HeapLooks DEF GetWakeupTime
  <2>2. IsFiniteSet(someday'.known)
    BY <1>0, <2>1, FS_Subset
  <2>3. HeapsTypeOK'
    BY <1>3, <2>1 DEF GetWakeupTime, memberVars, HeapsTypeOK
  <2>4. /\ members' = members
        /\ Live(soon)' \cup Live(someday)' = Live(soon) \cup Live(someday)
    BY <1>3, <2>1 DEF GetWakeupTime, memberVars
  <2>5. HeapsInv'
    BY <1>0, <1>3, <2>2, <2>4 DEF GetWakeupTime, memberVars, HeapsInv
  <2>6. QED
    BY <2>3, <2>5
<1>4. ASSUME BeginPop
      PROVE  HeapsAreASet'
  <2>1. HeapsTypeOK'
    BY <1>4, ObjectAssumption DEF BeginPop, memberVars, HeapsTypeOK
  <2>2. popTime = 0 /\ \A p \in Object : jobEta[p] = memberEta[p]
    BY <1>4 DEF BeginPop, HeapsInv
  <2>3. HeapsInv'
    BY <1>4, <2>2 DEF BeginPop, memberVars, HeapsInv, Live
  <2>4. QED
    BY <2>1, <2>3
<1>5. QED
  BY <1>1, <1>2, <1>3, <1>4

\* An object that comes due changes heaps; the set keeps it.
LEMMA DueAsSet ==
  ASSUME HeapsAreASet, MoveDue
  PROVE  HeapsAreASet'
<1> USE DEF HeapsAreASet
<1>0. /\ jobEta \in [Object -> Nat] /\ IsHeap(soon) /\ IsHeap(someday)
      /\ IsFiniteSet(soon.known) /\ IsFiniteSet(someday.known)
  BY DEF HeapsTypeOK, HeapsInv
<1>a. PICK rest \in HeapPops(someday, jobEta) : \E x \in rest.out :
        /\ someday' = rest.heap /\ jobEta' = [jobEta EXCEPT ![x] = 0]
        /\ soon' = HeapAdd(soon, x)
  BY DEF MoveDue
<1>b. PICK o \in rest.out :
        /\ someday' = rest.heap /\ jobEta' = [jobEta EXCEPT ![o] = 0]
        /\ soon' = HeapAdd(soon, o)
  BY <1>a
<1>c. /\ IsHeap(rest.heap) /\ Live(rest.heap) = Live(someday) \ rest.out
      /\ rest.heap.known \subseteq someday.known \ rest.out
      /\ o \in Firsts(Live(someday), jobEta) /\ rest.out = {o} /\ Live(someday) # {}
  BY <1>0, <1>b, HeapPop
<1>1. /\ popTime # 0
      /\ UNCHANGED <<sequential, popTime, returned, members, memberEta, allowed>>
      /\ Wakeup # 0 /\ Wakeup <= popTime
  BY DEF MoveDue, FirstIsDue, memberVars
<1>2. Wakeup = jobEta[o]
  <2>1. Live(someday) \in SUBSET Object
    BY <1>0 DEF Live, IsHeap
  <2>2. First(someday, jobEta) \in Firsts(Live(someday), jobEta) /\ Wakeup = jobEta[First(someday, jobEta)]
    BY <1>0, <1>c, HeapLooks DEF Wakeup
  <2>3. QED
    BY <1>0, <1>c, <2>1, <2>2, FirstsAlike
<1>3. o \in Live(someday) /\ o \in someday.known /\ o \in Object /\ o \notin soon.known
  BY <1>0, <1>c DEF Firsts, Live, IsHeap, HeapsTypeOK
<1>4. /\ IsHeap(someday') /\ Live(someday') = Live(someday) \ {o}
      /\ someday'.known \subseteq someday.known \ {o}
  BY <1>b, <1>c
<1>5. /\ IsHeap(soon') /\ Live(soon') = Live(soon) \cup {o}
      /\ soon'.known = soon.known \cup {o}
  BY <1>0, <1>b, <1>3, HeapAdds
<1>6. IsFiniteSet(soon'.known) /\ IsFiniteSet(someday'.known)
  BY <1>0, <1>4, <1>5, FS_AddElement, FS_Subset
<1>7. jobEta' \in [Object -> Nat] /\ jobEta'[o] = 0 /\ \A p \in Object \ {o} : jobEta'[p] = jobEta[p]
  BY <1>0, <1>b, <1>3
<1>8. HeapsTypeOK'
  <2>1. (\A p \in soon'.known : jobEta'[p] = 0) /\ (\A p \in someday'.known : jobEta'[p] # 0)
    BY <1>0, <1>4, <1>5, <1>7 DEF HeapsTypeOK, IsHeap
  <2>2. QED
    BY <1>1, <1>4, <1>5, <1>7, <2>1 DEF HeapsTypeOK
<1>9. HeapsInv'
  <2>1. members = Live(soon) \cup Live(someday)
    BY DEF HeapsInv
  <2>2. members' = Live(soon') \cup Live(someday')
    BY <1>1, <1>3, <1>4, <1>5, <2>1
  <2>3. jobEta[o] = memberEta[o] /\ o \in members
    BY <1>1, <1>2, <1>3, <1>c, <2>1 DEF HeapsInv
  <2>4. memberEta[o] \in 1..popTime
    BY <1>0, <1>1, <1>2, <1>3, <2>3 DEF HeapsTypeOK
  <2>5. ASSUME NEW p \in Object
        PROVE  \/ jobEta'[p] = memberEta'[p]
               \/ jobEta'[p] = 0 /\ p \in members' /\ memberEta'[p] \in 1..popTime'
    <3>1. CASE p = o
      BY <1>1, <1>7, <2>3, <2>4, <3>1
    <3>2. CASE p # o
      BY <1>1, <1>7, <3>2 DEF HeapsInv
    <3>3. QED
      BY <3>1, <3>2
  <2>6. QED
    BY <1>1, <1>6, <2>1, <2>2, <2>5 DEF HeapsInv, Live
<1>10. QED
  BY <1>8, <1>9

\* When no object is due any more, those that are ready are on the one heap and the
\* others on the other.
LEMMA ReadyOnes ==
  ASSUME HeapsAreASet, popTime # 0, ~FirstIsDue
  PROVE  /\ Set!Ready(sequential, popTime) = Live(soon)
         /\ members \ Set!Ready(sequential, popTime) = Live(someday)
         /\ \A o \in Live(soon) : jobEta[o] = 0
         /\ \A o \in Live(someday) : jobEta[o] = memberEta[o] /\ jobEta[o] > popTime
         /\ \A o \in Object : jobEta[o] = IF o \in Set!Due(sequential, popTime) THEN 0
                                          ELSE memberEta[o]
<1> USE DEF HeapsAreASet
<1>0. /\ jobEta \in [Object -> Nat] /\ memberEta \in [Object -> Nat] /\ popTime \in Nat
      /\ IsHeap(soon) /\ IsHeap(someday) /\ IsFiniteSet(someday.known)
      /\ members = Live(soon) \cup Live(someday) /\ members \subseteq Object
      /\ sequential \in BOOLEAN
  BY ObjectAssumption DEF HeapsTypeOK, HeapsInv
<1>1. \A o \in Live(soon) : jobEta[o] = 0
  BY DEF HeapsTypeOK, Live, IsHeap
<1>2. ASSUME NEW o \in Live(someday)
      PROVE  jobEta[o] = memberEta[o] /\ jobEta[o] > popTime
  <2> DEFINE first == First(someday, jobEta)
  <2>1. first \in Firsts(Live(someday), jobEta) /\ Wakeup = jobEta[first]
    BY <1>0, <1>2, HeapLooks DEF Wakeup
  <2> HIDE DEF first
  <2>2. \A p \in Live(someday) : jobEta[p] # 0 /\ p \in Object /\ jobEta[p] \in Nat
    BY <1>0 DEF HeapsTypeOK, Live, IsHeap
  <2>3. jobEta[first] > popTime
    BY <1>0, <2>1, <2>2 DEF FirstIsDue, Firsts
  <2>4. jobEta[first] <= jobEta[o]
    BY <1>2, <2>1, <2>2 DEF Firsts, Less
  <2>5. jobEta[o] = memberEta[o]
    BY <1>2, <2>2 DEF HeapsInv
  <2>6. QED
    BY <1>0, <1>2, <2>1, <2>2, <2>3, <2>4, <2>5 DEF Firsts
<1>3. Set!Due(sequential, popTime) = {p \in members : memberEta[p] # 0 /\ memberEta[p] <= popTime}
  BY <1>0 DEF Set!Due
<1>4. Set!Ready(sequential, popTime) = {p \in members : memberEta[p] = 0}
        \cup {p \in members : memberEta[p] # 0 /\ memberEta[p] <= popTime}
  BY <1>0 DEF Set!Ready, Set!Due
<1>5. \A o \in Live(soon) : memberEta[o] = 0 \/ memberEta[o] <= popTime
  BY <1>0, <1>1 DEF HeapsInv
<1>6. \A o \in Live(someday) : o \in Object /\ memberEta[o] \in Nat /\ memberEta[o] # 0 /\ ~(memberEta[o] <= popTime)
  BY <1>0, <1>2
<1>7. Set!Ready(sequential, popTime) = Live(soon)
  BY <1>0, <1>4, <1>5, <1>6
<1>8. members \ Set!Ready(sequential, popTime) = Live(someday)
  BY <1>0, <1>4, <1>5, <1>6
<1>9. ASSUME NEW o \in Object
      PROVE  jobEta[o] = IF o \in Set!Due(sequential, popTime) THEN 0 ELSE memberEta[o]
  <2>1. CASE o \in Set!Due(sequential, popTime)
    <3>1. o \in members /\ memberEta[o] <= popTime /\ memberEta[o] # 0
      BY <1>3, <2>1
    <3>2. QED
      BY <1>0, <1>1, <1>6, <2>1, <3>1
  <2>2. CASE o \notin Set!Due(sequential, popTime)
    <3>1. ~(jobEta[o] = 0 /\ o \in members /\ memberEta[o] \in 1..popTime)
      BY <1>0, <1>3, <2>2
    <3>2. QED
      BY <2>2, <3>1 DEF HeapsInv
  <2>3. QED
    BY <2>1, <2>2
<1>10. QED
  BY <1>1, <1>2, <1>7, <1>8, <1>9

\* What the heaps return is what the set returns: nothing while the queue waits, or
\* the first of those that are ready.
LEMMA SamePop ==
  ASSUME HeapsAreASet, popTime # 0, ~FirstIsDue
  PROVE  {o \in members : Set!PopsAt(sequential, o, popTime)}
           = IF Waits THEN {} ELSE Firsts(Live(soon), jobEta)
<1> USE DEF HeapsAreASet
<1> DEFINE later == First(someday, jobEta)
           next == First(soon, jobEta)
           readyOnes == Set!Ready(sequential, popTime)
<1>0. /\ jobEta \in [Object -> Nat] /\ memberEta \in [Object -> Nat] /\ popTime \in Nat
      /\ IsHeap(soon) /\ IsHeap(someday)
      /\ IsFiniteSet(soon.known) /\ IsFiniteSet(someday.known)
      /\ members = Live(soon) \cup Live(someday) /\ members \subseteq Object
      /\ sequential \in BOOLEAN
  BY ObjectAssumption DEF HeapsTypeOK, HeapsInv
<1>1. /\ readyOnes = Live(soon) /\ members \ readyOnes = Live(someday)
      /\ \A o \in Live(soon) : jobEta[o] = 0
      /\ \A o \in Live(someday) : jobEta[o] = memberEta[o] /\ jobEta[o] > popTime
  BY ReadyOnes
<1>2. \A o \in Object : Order[o] \in Nat /\ jobEta[o] \in Nat /\ memberEta[o] \in Nat
  BY <1>0, ObjectAssumption
<1>3. ASSUME NEW o \in Live(soon)
      PROVE  o \in Firsts(Live(soon), jobEta) <=> \A p \in Live(soon) : Order[o] <= Order[p]
  <2>1. \A p \in Live(soon) : /\ jobEta[p] = 0 /\ p \in Object /\ Order[p] \in Nat
    BY <1>0, <1>1, <1>3, ObjectAssumption
  <2>2. \A p \in Live(soon) : ~Less(jobEta, p, o) <=> Order[o] <= Order[p]
    BY <1>3, <2>1 DEF Less
  <2>3. QED
    BY <1>3, <2>1, <2>2 DEF Firsts
<1>4. ASSUME NEW o \in Live(someday)
      PROVE  o \in Firsts(Live(someday), jobEta) <=> \A p \in Live(someday) : Set!Earlier(o, p)
  <2>1. \A p \in Live(someday) : /\ jobEta[p] = memberEta[p] /\ jobEta[p] # 0 /\ p \in Object
                                 /\ Order[p] \in Nat /\ jobEta[p] \in Nat
    BY <1>0, <1>1, <1>2, <1>4, ObjectAssumption
  <2>2. \A p \in Live(someday) : ~Less(jobEta, p, o) <=> Set!Earlier(o, p)
    BY <1>4, <2>1 DEF Less, Set!Earlier
  <2>3. QED
    BY <1>4, <2>2 DEF Firsts
<1>5. Live(someday) # {} => later \in Firsts(Live(someday), jobEta) /\ later \in Live(someday)
  BY <1>0, FirstOfHeap
<1>6. Live(soon) # {} => next \in Firsts(Live(soon), jobEta) /\ next \in Live(soon)
  BY <1>0, FirstOfHeap
<1>7. TwoHeads <=> sequential /\ Live(someday) # {} /\ Live(soon) # {}
  <2>1. /\ HeapLen(soon) \in Nat /\ HeapLen(someday) \in Nat
        /\ HeapLen(soon) = 0 <=> Live(soon) = {}
        /\ HeapLen(someday) = 0 <=> Live(someday) = {}
    BY <1>0, HeapLength
  <2>2. QED
    BY <2>1 DEF TwoHeads
<1>8. Waits <=> TwoHeads /\ Order[later] < Order[next]
  BY DEF Waits
<1>9. Live(soon) \in SUBSET Object /\ Live(someday) \in SUBSET Object
  BY <1>0
<1> HIDE DEF later, next
<1>10. ASSUME NEW o \in Firsts(Live(soon), jobEta)
       PROVE  Set!HeldBack(sequential, o, popTime) <=> Waits
  <2>0. o \in Live(soon)
    BY DEF Firsts
  <2>1. Order[o] = Order[next]
    BY <1>0, <1>6, <1>9, <2>0, FirstsAlike
  <2>2. Set!HeldBack(sequential, o, popTime) <=>
          /\ sequential \in {TRUE}
          /\ \E p \in Live(someday) : (\A q \in Live(someday) : Set!Earlier(p, q)) /\ Order[p] < Order[o]
    <3>1. [c \in BOOLEAN |-> members][sequential] \ readyOnes = Live(someday)
      BY <1>0, <1>1
    <3> HIDE DEF readyOnes
    <3>2. QED
      BY <3>1 DEF Set!HeldBack, readyOnes
  <2>3. ASSUME NEW p \in Live(someday), \A q \in Live(someday) : Set!Earlier(p, q)
        PROVE  Order[p] = Order[later]
    <3>1. p \in Firsts(Live(someday), jobEta)
      BY <1>4, <2>3
    <3>2. QED
      BY <1>0, <1>5, <1>9, <3>1, FirstsAlike
  <2>4. Live(someday) # {} => \A q \in Live(someday) : Set!Earlier(later, q)
    BY <1>4, <1>5
  <2>5. (\E p \in Live(someday) : (\A q \in Live(someday) : Set!Earlier(p, q)) /\ Order[p] < Order[o])
          <=> Live(someday) # {} /\ Order[later] < Order[o]
    BY <1>5, <2>3, <2>4
  <2>6. QED
    BY <1>0, <1>7, <1>8, <2>0, <2>1, <2>2, <2>5
<1>11. ASSUME NEW o \in members
       PROVE  Set!PopsAt(sequential, o, popTime) <=> o \in Firsts(Live(soon), jobEta) /\ ~Waits
  <2>1. Set!PopsAt(sequential, o, popTime) <=>
          /\ o \in Live(soon) /\ \A p \in Live(soon) : Order[o] <= Order[p]
          /\ ~Set!HeldBack(sequential, o, popTime)
    BY <1>1 DEF Set!PopsAt
  <2>2. o \in Firsts(Live(soon), jobEta) => o \in Live(soon)
    BY DEF Firsts
  <2>3. QED
    BY <1>3, <1>10, <2>1, <2>2
<1>12. Firsts(Live(soon), jobEta) \subseteq members
  BY <1>0 DEF Firsts
<1>13. QED
  BY <1>11, <1>12

LEMMA EndPopAsSet ==
  ASSUME HeapsAreASet, EndPop
  PROVE  HeapsAreASet'
<1> USE DEF HeapsAreASet
<1>0. /\ jobEta \in [Object -> Nat] /\ memberEta \in [Object -> Nat] /\ popTime \in Nat
      /\ IsHeap(soon) /\ IsHeap(someday)
      /\ IsFiniteSet(soon.known) /\ IsFiniteSet(someday.known)
      /\ members = Live(soon) \cup Live(someday) /\ members \subseteq Object
      /\ sequential \in BOOLEAN
  BY ObjectAssumption DEF HeapsTypeOK, HeapsInv
<1>1. /\ popTime # 0 /\ ~FirstIsDue
      /\ IF Waits THEN soon' \in Looks(soon, jobEta) /\ returned' = {}
         ELSE \E rest \in HeapPops(soon, jobEta) : soon' = rest.heap /\ returned' = rest.out
      /\ someday' \in Looks(someday, jobEta)
      /\ popTime' = 0
      /\ allowed' = {o \in members : Set!PopsAt(sequential, o, popTime)}
      /\ members' = members \ returned'
      /\ memberEta' = [o \in Object |-> IF o \in Set!Due(sequential, popTime) THEN 0
                                        ELSE memberEta[o]]
      /\ UNCHANGED <<jobEta, sequential>>
  BY DEF EndPop
<1>2. Live(soon) \in SUBSET Object /\ allowed' = IF Waits THEN {} ELSE Firsts(Live(soon), jobEta)
  BY <1>0, <1>1, SamePop
<1>3. /\ IsHeap(someday') /\ Live(someday') = Live(someday)
      /\ someday'.known \subseteq someday.known
  BY <1>0, <1>1, HeapLooks
<1>5. /\ IsHeap(soon') /\ Live(soon') = Live(soon) \ returned'
      /\ soon'.known \subseteq soon.known
      /\ (returned' = {} /\ allowed' = {}) \/ \E o \in allowed' : returned' = {o}
  <2>1. CASE Waits
    BY <1>0, <1>1, <1>2, <2>1, HeapLooks
  <2>2. CASE ~Waits
    <3>1. PICK rest \in HeapPops(soon, jobEta) : soon' = rest.heap /\ returned' = rest.out
      BY <1>1, <2>2
    <3>2. /\ IsHeap(rest.heap) /\ Live(rest.heap) = Live(soon) \ rest.out
          /\ rest.heap.known \subseteq soon.known
          /\ IF Live(soon) = {} THEN rest.out = {}
             ELSE \E o \in Firsts(Live(soon), jobEta) : rest.out = {o}
      BY <1>0, HeapPop
    <3>3. Live(soon) = {} => Firsts(Live(soon), jobEta) = {}
      BY DEF Firsts
    <3>4. QED
      BY <1>2, <2>2, <3>1, <3>2, <3>3
  <2>3. QED
    BY <2>1, <2>2
<1>6. returned' \subseteq Live(soon) /\ allowed' \subseteq Live(soon)
  BY <1>2, <1>5 DEF Firsts
<1>7. IsFiniteSet(soon'.known) /\ IsFiniteSet(someday'.known)
  BY <1>0, <1>3, <1>5, FS_Subset
<1>8. jobEta' = memberEta' /\ Live(soon) \cap Live(someday) = {}
  <2>1. /\ \A o \in Object : jobEta[o] = IF o \in Set!Due(sequential, popTime) THEN 0
                                          ELSE memberEta[o]
        /\ \A o \in Live(soon) : jobEta[o] = 0
        /\ \A o \in Live(someday) : jobEta[o] > popTime
    BY <1>1, ReadyOnes
  <2>2. QED
    BY <1>0, <1>1, <2>1
<1>9. HeapsTypeOK'
  <2>1. (\A o \in soon'.known : jobEta'[o] = 0) /\ (\A o \in someday'.known : jobEta'[o] # 0)
    BY <1>1, <1>3, <1>5 DEF HeapsTypeOK
  <2>2. jobEta' \in [Object -> Nat] /\ memberEta' \in [Object -> Nat] /\ sequential' \in BOOLEAN
    BY <1>0, <1>1, <1>8
  <2>3. popTime' \in 0..LastTime
    BY <1>1, ObjectAssumption
  <2>4. returned' \subseteq Object /\ allowed' \subseteq Object /\ members' \subseteq Object
    BY <1>0, <1>1, <1>6
  <2>5. QED
    BY <1>3, <1>5, <2>1, <2>2, <2>3, <2>4 DEF HeapsTypeOK
<1>10. HeapsInv'
  <2>1. members' = Live(soon') \cup Live(someday')
    BY <1>0, <1>1, <1>3, <1>5, <1>6, <1>8
  <2>2. \A o \in Object : jobEta'[o] = memberEta'[o]
    BY <1>8
  <2>3. QED
    BY <1>5, <1>7, <2>1, <2>2 DEF HeapsInv, Live
<1>11. QED
  BY <1>9, <1>10

\* What one may see of the heaps between two calls.
LEMMA ASetIsSeen ==
  HeapsAreASet => ActsAsSet
<1> SUFFICES ASSUME HeapsAreASet, popTime = 0 PROVE ActsAsSet
  BY DEF ActsAsSet
<1> USE DEF HeapsAreASet
<1>0. /\ jobEta \in [Object -> Nat] /\ memberEta \in [Object -> Nat]
      /\ IsHeap(soon) /\ IsHeap(someday)
      /\ IsFiniteSet(soon.known) /\ IsFiniteSet(someday.known)
      /\ members = Live(soon) \cup Live(someday) /\ members \subseteq Object
      /\ (returned = {} /\ allowed = {}) \/ \E o \in allowed : returned = {o}
  BY DEF HeapsTypeOK, HeapsInv
<1>1. jobEta = memberEta
  <2>1. \A o \in Object : jobEta[o] = memberEta[o]
    BY DEF HeapsInv
  <2>2. QED
    BY <1>0, <2>1
<1>2. \A o \in Object : Contains(o) <=> o \in members
  BY <1>0 DEF Contains, HeapContains, Live, IsHeap
<1>3. (\A o \in Live(soon) : jobEta[o] = 0) /\ (\A o \in Live(someday) : jobEta[o] # 0)
  BY DEF HeapsTypeOK, Live, IsHeap
<1>4. HeapLen(soon) + HeapLen(someday) = Cardinality(members)
  <2>1. /\ HeapLen(soon) = Cardinality(Live(soon)) /\ IsFiniteSet(Live(soon))
        /\ HeapLen(someday) = Cardinality(Live(someday)) /\ IsFiniteSet(Live(someday))
    BY <1>0, HeapLength
  <2>2. Live(soon) \cap Live(someday) = {}
    BY <1>3
  <2>3. Cardinality(Live(soon) \cup Live(someday)) = Cardinality(Live(soon)) + Cardinality(Live(someday))
    <3>1. Cardinality({}) = 0
      BY FS_EmptySet
    <3>2. Cardinality(Live(soon) \cup Live(someday))
            = Cardinality(Live(soon)) + Cardinality(Live(someday)) - Cardinality({})
      BY <2>1, <2>2, FS_Union
    <3>3. Cardinality(Live(soon)) \in Nat /\ Cardinality(Live(someday)) \in Nat
      BY <2>1, FS_CardinalityType
    <3>4. QED
      BY <3>1, <3>2, <3>3
  <2>4. QED
    BY <1>0, <2>1, <2>3
<1> DEFINE etas == {memberEta[o] : o \in members} \ {0}
           first == First(someday, jobEta)
<1>5. etas = {jobEta[o] : o \in Live(someday)}
  BY <1>0, <1>1, <1>3
<1>6. /\ Live(someday) # {} => first \in Firsts(Live(someday), jobEta) /\ Wakeup = jobEta[first]
      /\ Live(someday) = {} => Wakeup = 0
  BY <1>0, HeapLooks DEF Wakeup
<1> HIDE DEF first, etas
<1>7. CASE Live(someday) = {}
  BY <1>0, <1>1, <1>2, <1>4, <1>5, <1>6, <1>7 DEF ActsAsSet, etas
<1>8. CASE Live(someday) # {}
  <2>1. \A o \in Live(someday) : o \in Object /\ jobEta[o] \in Nat /\ jobEta[o] # 0
    BY <1>0, <1>3
  <2>2. Wakeup \in etas
    BY <1>5, <1>6, <1>8 DEF Firsts
  <2>3. \A o \in Live(someday) : jobEta[first] <= jobEta[o]
    BY <1>6, <1>8, <2>1 DEF Firsts, Less
  <2>4. \A e \in etas : Wakeup <= e
    BY <1>5, <1>6, <1>8, <2>3
  <2>5. QED
    BY <1>0, <1>1, <1>2, <1>4, <2>2, <2>4 DEF ActsAsSet, etas
<1>9. QED
  BY <1>7, <1>8

LEMMA HeapsAlwaysASet ==
  QueueSpec => []HeapsAreASet
<1>1. ASSUME HeapsAreASet, [QueueNext]_<<heapVars, memberVars>>
      PROVE  HeapsAreASet'
  <2>1. CASE UNCHANGED <<heapVars, memberVars>>
    BY <1>1, <2>1 DEF heapVars, memberVars, HeapsAreASet, HeapsTypeOK, HeapsInv, Live
  <2>2. CASE QueueNext
    BY <1>1, <2>2, CallsAsSet, DueAsSet, EndPopAsSet DEF QueueNext
  <2>3. QED
    BY <1>1, <2>1, <2>2
<1>2. QED
  BY <1>1, QueueInitAsSet, PTL DEF QueueSpec

\* The types of LazyQueue; an object with an eta is in the one heap only, one without
\* in the other.
THEOREM HeapsTypeCorrect ==
  QueueSpec => []HeapsTypeOK
<1>1. HeapsAreASet => HeapsTypeOK
  BY DEF HeapsAreASet
<1>2. QED
  BY <1>1, HeapsAlwaysASet, PTL

\* Whatever calls a channel makes, the two heaps of its ChannelQueue, with their
\* lazy removal, act as the set that module Channels takes them for.
THEOREM HeapsActAsSets ==
  QueueSpec => []ActsAsSet
BY HeapsAlwaysASet, ASetIsSeen, PTL

==============================================================================
