------------------------------- MODULE LazyQueue -------------------------------
(***************************************************************************)
(* The priority queues under a ChannelQueue (jobrunner/channels.py).  A    *)
(* PriorityQueue is a heap with lazy removal: an object that is removed    *)
(* stays in the heap, marked, until it comes to the top.  A ChannelQueue   *)
(* has two of them, one for the jobs whose eta lies ahead.  Beside it goes *)
(* the set that module Channels takes it for, with what that module says   *)
(* that pop returns.                                                       *)
(***************************************************************************)
EXTENDS Naturals, FiniteSets

CONSTANTS
  Object,       \* instances of ChannelJob, which are told apart by identity
  Order,        \* their order by (priority, date_created, seq); two instances for
                \* one row, as notify creates them, have the same place in it
  FirstEta,     \* the eta each is created with; 0 stands for None
  LastTime      \* bound of the model: what the clock of a pass may read

ASSUME ObjectAssumption ==
  /\ Order \in [Object -> Nat]
  /\ FirstEta \in [Object -> Nat]
  /\ LastTime \in Nat

VARIABLES
  soon,         \* _queue
  someday,      \* _eta_queue
  jobEta,       \* eta of the ChannelJobs
  sequential,
  popTime,      \* the now of the pop that is under way; 0 when none is
  returned,     \* what the last pop returned, as a set of one or none
  members,      \* the set that stands for both heaps
  memberEta,    \* the etas that go with it
  allowed       \* what pop may return according to module Channels

heapVars == <<soon, someday, jobEta, sequential, popTime, returned>>
memberVars == <<members, memberEta, allowed>>

------------------------------------------------------------------------------
(* ChannelJob and PriorityQueue                                              *)

\* __lt__: jobs with an eta come before the others.
Less(etas, o, p) ==
  \/ etas[o] # 0 /\ etas[p] = 0
  \/ /\ (etas[o] = 0) = (etas[p] = 0)
     /\ etas[o] < etas[p] \/ (etas[o] = etas[p] /\ Order[o] < Order[p])

EmptyHeap == [heap |-> {}, known |-> {}, removed |-> {}]

\* Mutant of HeapAdd: a removed object that is still in the heap is not unmarked.
HeapAddMarked(h, o) ==
  IF o \in h.known THEN h
  ELSE [h EXCEPT !.heap = @ \cup {o}, !.known = @ \cup {o}]

\* add: an object still in the heap is only unmarked.
HeapAdd(h, o) ==
  LET unmarked == [h EXCEPT !.removed = @ \ {o}]
  IN  IF o \in h.known THEN unmarked
      ELSE [unmarked EXCEPT !.heap = @ \cup {o}, !.known = @ \cup {o}]

HeapRemove(h, o) == IF o \in h.known THEN [h EXCEPT !.removed = @ \cup {o}] ELSE h

HeapLen(h) == Cardinality(h.known) - Cardinality(h.removed)

HeapContains(h, o) == o \in h.known /\ o \notin h.removed

\* Those of a heap that are not marked.
Live(h) == h.heap \ h.removed

\* heappop takes an object before which there is none: of several that are equal in
\* the order, the one or the other.
Firsts(os, etas) == {o \in os : \A p \in os : ~Less(etas, p, o)}

\* After heappop of the objects of set os.
Dropped(h, os) ==
  [heap |-> h.heap \ os, known |-> h.known \ os, removed |-> h.removed \ os]

\* __getitem__(0) first pops the marked objects at the top; so does pop.  Those that
\* come before all others go; those that are equal to the first of the others may.
Peelings(h, etas) ==
  LET Before(o) == \A p \in Live(h) : Less(etas, o, p)
      NotAfter(o) == \A p \in Live(h) : ~Less(etas, p, o)
  IN  {Dropped(h, os) : os \in {s \in SUBSET h.removed :
         (\A o \in h.removed : Before(o) => o \in s) /\ (\A o \in s : NotAfter(o))}}

\* What pop may leave and return.
HeapPops(h, etas) ==
  {[heap |-> Dropped(peeled, out), out |-> out] :
     peeled \in Peelings(h, etas),
     out \in IF Live(h) = {} THEN {{}} ELSE {{o} : o \in Firsts(Live(h), etas)}}

------------------------------------------------------------------------------
(* ChannelQueue                                                              *)

\* One queue of module Channels, with what the runner's set keeps of it: the root,
\* named FALSE, is not sequential, and its child, TRUE, is.
Set == INSTANCE Channels WITH
  Job        <- Object,
  Channel    <- BOOLEAN,
  Root       <- FALSE,
  Above      <- [c \in BOOLEAN |-> IF c THEN {FALSE} ELSE {}],
  ChannelOf  <- [o \in Object |-> TRUE],
  Capacity   <- [c \in BOOLEAN |-> 1],
  Sequential <- {TRUE},
  Throttle   <- [c \in BOOLEAN |-> 0],
  Rank       <- Order,
  MaxTime    <- LastTime,
  known      <- members,
  eta        <- memberEta,
  queue      <- [c \in BOOLEAN |-> members],
  running    <- [c \in BOOLEAN |-> {}],
  failed     <- [c \in BOOLEAN |-> {}],
  pause      <- [c \in BOOLEAN |-> 0],
  todo       <- {},
  now        <- popTime

QueueInit ==
  /\ soon = EmptyHeap
  /\ someday = EmptyHeap
  /\ jobEta = FirstEta
  /\ sequential \in BOOLEAN
  /\ popTime = 0
  /\ returned = {}
  /\ members = {}
  /\ memberEta = FirstEta
  /\ allowed = {}

Contains(o) == HeapContains(someday, o) \/ HeapContains(soon, o)

AddObject(o) ==
  /\ popTime = 0
  /\ IF jobEta[o] # 0 THEN someday' = HeapAdd(someday, o) /\ UNCHANGED soon
     ELSE soon' = HeapAdd(soon, o) /\ UNCHANGED someday
  /\ members' = members \cup {o}
  /\ UNCHANGED <<jobEta, sequential, popTime, returned, memberEta, allowed>>

RemoveObject(o) ==
  /\ popTime = 0
  /\ someday' = HeapRemove(someday, o)
  /\ soon' = HeapRemove(soon, o)
  /\ members' = members \ {o}
  /\ UNCHANGED <<jobEta, sequential, popTime, returned, memberEta, allowed>>

\* Looking at the first element of a heap that has one removes marked ones.
Looks(h, etas) == IF HeapLen(h) = 0 THEN {h} ELSE Peelings(h, etas)

\* The first element: whichever it is, its place in the order is the same.
First(h, etas) == CHOOSE o \in Firsts(Live(h), etas) : TRUE

FirstEtaOf(h, etas) == IF HeapLen(h) = 0 THEN 0 ELSE etas[First(h, etas)]

\* get_wakeup_time
Wakeup == FirstEtaOf(someday, jobEta)

GetWakeupTime ==
  /\ popTime = 0
  /\ someday' \in Looks(someday, jobEta)
  /\ UNCHANGED <<soon, jobEta, sequential, popTime, returned, memberVars>>

BeginPop ==
  /\ popTime = 0
  /\ popTime' \in 1..LastTime
  /\ UNCHANGED <<soon, someday, jobEta, sequential, returned, memberVars>>

\* The loop of pop goes on while this holds.
FirstIsDue == Wakeup # 0 /\ Wakeup <= popTime

\* One turn of it: an object whose eta is past competes with the rest.
MoveDue ==
  /\ popTime # 0
  /\ FirstIsDue
  /\ \E rest \in HeapPops(someday, jobEta) : \E o \in rest.out :
       /\ someday' = rest.heap
       /\ jobEta' = [jobEta EXCEPT ![o] = 0]
       /\ soon' = HeapAdd(soon, o)
  /\ UNCHANGED <<sequential, popTime, returned, memberVars>>

\* A sequential queue looks at both heads when there are two.
TwoHeads == sequential /\ HeapLen(someday) > 0 /\ HeapLen(soon) > 0

\* It waits for its first object with an eta, if that comes first by the order that
\* ignores etas.
Waits ==
  /\ TwoHeads
  /\ Order[First(someday, jobEta)] < Order[First(soon, jobEta)]

\* The rest of pop, and what module Channels says of it.
EndPop ==
  /\ popTime # 0
  /\ ~FirstIsDue
  /\ IF Waits THEN soon' \in Looks(soon, jobEta) /\ returned' = {}
     ELSE \E rest \in HeapPops(soon, jobEta) : soon' = rest.heap /\ returned' = rest.out
  /\ someday' \in Looks(someday, jobEta)
  /\ popTime' = 0
  /\ allowed' = {o \in members : Set!PopsAt(sequential, o, popTime)}
  /\ members' = members \ returned'
  /\ memberEta' = [o \in Object |-> IF o \in Set!Due(sequential, popTime) THEN 0
                                    ELSE memberEta[o]]
  /\ UNCHANGED <<jobEta, sequential>>

QueueNext ==
  \/ \E o \in Object : AddObject(o) \/ RemoveObject(o)
  \/ GetWakeupTime
  \/ BeginPop
  \/ MoveDue
  \/ EndPop

\* The calls that a channel makes, in any order.
QueueSpec == QueueInit /\ [][QueueNext]_<<heapVars, memberVars>>

------------------------------------------------------------------------------
(* Properties                                                                *)

IsHeap(h) ==
  /\ h \in [heap : SUBSET Object, known : SUBSET Object, removed : SUBSET Object]
  /\ h.heap = h.known
  /\ h.removed \subseteq h.known

\* Type invariant: what is known of a heap is in it, also what is marked, and the
\* eta of an object says in which of both it is (channels.py:49-89, 302-306).
HeapsTypeOK ==
  /\ IsHeap(soon) /\ IsHeap(someday)
  /\ \A o \in soon.known : jobEta[o] = 0
  /\ \A o \in someday.known : jobEta[o] # 0
  /\ jobEta \in [Object -> Nat]
  /\ sequential \in BOOLEAN
  /\ popTime \in 0..LastTime
  /\ returned \subseteq Object
  /\ members \subseteq Object
  /\ memberEta \in [Object -> Nat]
  /\ allowed \subseteq Object

\* A job that is removed and added again is neither lost nor popped twice, and none
\* is popped out of turn, though removal from the heaps is lazy
\* (channels.py:75-102) and a removed instance may be equal in the order to the one
\* that notify creates for the same row: whatever calls were made, the two heaps of
\* a ChannelQueue act as the set by which Channels models them.
ActsAsSet ==
  popTime = 0 =>
    /\ \A o \in Object : Contains(o) <=> o \in members
    /\ HeapLen(soon) + HeapLen(someday) = Cardinality(members)
    /\ (returned = {} /\ allowed = {}) \/ \E o \in allowed : returned = {o}
    /\ jobEta = memberEta
    /\ LET etas == {memberEta[o] : o \in members} \ {0}
       IN  /\ Wakeup \in IF etas = {} THEN {0} ELSE etas
           /\ \A e \in etas : Wakeup <= e

\* Strengthening of ActsAsSet.  While a pop is under way, the objects that have come
\* due may have lost their eta already.
HeapsInv ==
  /\ IsFiniteSet(soon.known) /\ IsFiniteSet(someday.known)
  /\ members = Live(soon) \cup Live(someday)
  /\ (returned = {} /\ allowed = {}) \/ \E o \in allowed : returned = {o}
  /\ \A o \in Object :
       \/ jobEta[o] = memberEta[o]
       \/ jobEta[o] = 0 /\ o \in members /\ memberEta[o] \in 1..popTime

==============================================================================
