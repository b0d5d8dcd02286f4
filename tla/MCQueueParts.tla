----------------------------- MODULE MCQueueParts -----------------------------
(* An instance for TLC of three parts of the queue that write nothing of each  *)
(* other: the channels, the heaps under one of them, the retry pattern of a    *)
(* job function.  A behaviour is one of the part that is chosen at its start.  *)
EXTENDS Channels, LazyQueue, RetryPattern, TLC

------------------------------------------------------------------------------
(* Channels: a branch of three channels, the deepest sequential and the one in *)
(* the middle with a throttle.                                                 *)

CONSTANTS j1, j2, j3, root, sub, leaf

\* root > root.sub > root.sub.leaf
BranchAbove == (root :> {}) @@ (sub :> {root}) @@ (leaf :> {root, sub})

\* Two jobs compete at every level, the third joins them further down.
BranchChannelOf == (j1 :> leaf) @@ (j2 :> leaf) @@ (j3 :> sub)
BranchCapacity  == (root :> 1) @@ (sub :> 0) @@ (leaf :> 1)
BranchThrottle  == (root :> 0) @@ (sub :> 1) @@ (leaf :> 0)

ByName == (j1 :> 1) @@ (j2 :> 2) @@ (j3 :> 3)

------------------------------------------------------------------------------
(* LazyQueue: two objects that are equal, with an eta, a third with a later eta *)
(* that comes before them without; two without an eta, one of them equal to the *)
(* first two once they are due.                                                *)

FewObjects == 1..5
FewOrders == [o \in FewObjects |-> <<2, 2, 1, 2, 3>>[o]]
FewEtas == [o \in FewObjects |-> <<1, 1, 2, 0, 0>>[o]]

------------------------------------------------------------------------------
(* RetryPattern: keys whose order is not that of their texts; numbers, an      *)
(* interval, a reversed one, a tuple of three, texts of two digits and three.  *)

Keys == {1, 5, 10}

Numbers == {Number(n) : n \in {10, 20}}
Tuples == {[kind |-> "tuple", of |-> s] : s \in {<<1, 3>>, <<3, 1>>, <<1, 2, 3>>}}
Digits == {[kind |-> "text", of |-> s] : s \in {<<3, 0>>, <<3, 0, 0>>}}

Values == Numbers \cup Tuples \cup Digits

------------------------------------------------------------------------------
VARIABLE part

partVars == <<channelVars, heapVars, memberVars, patternVars, part>>

PartsInit ==
  /\ part \in {"channels", "heaps", "pattern"}
  /\ ChannelsInit
  /\ QueueInit
  /\ part # "heaps" => ~sequential
  /\ PatternInit

PartsNext ==
  \/ part = "channels" /\ ChannelsNext /\ UNCHANGED <<heapVars, memberVars, patternVars, part>>
  \/ part = "heaps" /\ QueueNext /\ UNCHANGED <<channelVars, patternVars, part>>
  \/ part = "pattern" /\ PatternNext /\ UNCHANGED <<channelVars, heapVars, memberVars, part>>

PartsSpec == PartsInit /\ [][PartsNext]_partVars

==============================================================================
