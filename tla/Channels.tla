------------------------------- MODULE Channels -------------------------------
(***************************************************************************)
(* The channel manager of the job runner (jobrunner/channels.py): a tree   *)
(* of channels with capacities, through which jobs flow down to the root.  *)
(*                                                                         *)
(* A job is queued in its own channel, runs there when the channel has     *)
(* capacity, which queues it in the parent, and so on; a job running in    *)
(* the root is sent to Odoo.  The manager learns of the jobs by notify,    *)
(* which gets the current row of a job.                                    *)
(*                                                                         *)
(* A ChannelQueue is a set of jobs here: eta[j] tells which of its two     *)
(* priority queues holds j.  Time is what the clock of a pass reads.       *)
(***************************************************************************)
EXTENDS Integers, FiniteSets, FiniteSetsExt, JobStates

CONSTANTS
  Job,
  Channel,      \* channels by full name
  Root,         \* the root channel
  Above,        \* Above[c]: the channels between c and the root, inclusive
  ChannelOf,    \* the channel of each job's row
  Capacity,     \* 0 stands for None: unlimited
  Sequential,   \* the channels that are sequential
  Throttle,     \* seconds between two jobs of a channel; 0 for no throttle
  Rank,         \* order of the jobs by (priority, date_created, seq)
  MaxTime       \* bound of the model: the clock and the etas

ASSUME TreeAssumption ==
  /\ Root \in Channel
  /\ Above \in [Channel -> SUBSET Channel]
  /\ Above[Root] = {}
  /\ \A c \in Channel \ {Root} : Root \in Above[c] /\ c \notin Above[c]
  /\ \A c \in Channel : \A d \in Above[c] :
       Above[d] \subseteq Above[c] /\ d \notin Above[d]
  /\ \A c \in Channel \ {Root} : \E p \in Above[c] :
       \A d \in Above[c] : d = p \/ d \in Above[p]

ASSUME ConfigAssumption ==
  /\ ChannelOf \in [Job -> Channel]
  /\ Capacity \in [Channel -> Nat]
  /\ Throttle \in [Channel -> Nat]
  /\ Sequential \subseteq {c \in Channel : Capacity[c] = 1}
  /\ Rank \in [Job -> Nat]
  /\ MaxTime \in Nat

VARIABLES
  known,     \* _jobs_by_uuid
  eta,       \* eta of the ChannelJob; 0 stands for None
  queue,     \* _queue of each channel
  running,   \* _running
  failed,    \* _failed
  pause,     \* _pause_until; 0 when the channel is not paused
  todo,      \* channels whose generator is not exhausted in the current pass
  now        \* the clock, read at the beginning of the pass

channelVars == <<known, eta, queue, running, failed, pause, todo, now>>

Path(c) == {c} \cup Above[c]

------------------------------------------------------------------------------
(* ChannelManager.notify                                                     *)

\* A set per channel, without j in the channels of cs.
Without(sets, cs, j) ==
  [c \in Channel |-> IF c \in cs THEN sets[c] \ {j} ELSE sets[c]]

With(sets, cs, j) ==
  [c \in Channel |-> IF c \in cs THEN sets[c] \cup {j} ELSE sets[c]]

\* Where a job is in the tree, as a value: notify may chain two changes of it.
Tree == [queue |-> queue, running |-> running, failed |-> failed]

Become(t) == queue' = t.queue /\ running' = t.running /\ failed' = t.failed

\* Mutant of Remove: the channels upstream are not told.
RemoveHere(t, c, j) ==
  [queue   |-> Without(t.queue, {c}, j),
   running |-> Without(t.running, {c}, j),
   failed  |-> Without(t.failed, {c}, j)]

\* Channel.remove, from c up to the root.
Remove(t, c, j) ==
  [queue   |-> Without(t.queue, Path(c), j),
   running |-> Without(t.running, Path(c), j),
   failed  |-> Without(t.failed, Path(c), j)]

\* Mutant of SetPending: the channels upstream are not told.
SetPendingHere(t, c, j) ==
  [queue   |-> With(t.queue, {c}, j),
   running |-> Without(t.running, {c}, j),
   failed  |-> Without(t.failed, {c}, j)]

SetPending(t, c, j) ==
  IF j \in t.queue[c] THEN t
  ELSE [queue   |-> With(Without(t.queue, Above[c], j), {c}, j),
        running |-> Without(t.running, Path(c), j),
        failed  |-> Without(t.failed, Path(c), j)]

SetFailed(t, c, j) ==
  IF j \in t.failed[c] THEN t
  ELSE [queue   |-> Without(t.queue, Path(c), j),
        running |-> Without(t.running, Path(c), j),
        failed  |-> With(Without(t.failed, Above[c], j), {c}, j)]

\* set_running goes up the path and ends where the job runs already.
SetRunning(t, c, j) ==
  LET reached == {d \in Path(c) :
                    \A e \in Path(c) : d \in Path(e) => j \notin t.running[e]}
  IN  [queue   |-> Without(t.queue, reached, j),
       running |-> With(t.running, reached, j),
       failed  |-> Without(t.failed, reached, j)]

\* Mutant of Transition: waiting jobs are queued.
TransitionOfWaiting(t, c, j, s) ==
  CASE s \in {DONE, CANCELLED}   -> Remove(t, c, j)
    [] s \in {PENDING, WAIT_DEPENDENCIES} -> SetPending(t, c, j)
    [] s \in {ENQUEUED, STARTED} -> SetRunning(t, c, j)
    [] s = FAILED                -> SetFailed(t, c, j)

\* The state transitions of notify.  A job that waits for dependencies stays
\* where it is.
Transition(t, c, j, s) ==
  CASE s \in {DONE, CANCELLED}   -> Remove(t, c, j)
    [] s = PENDING               -> SetPending(t, c, j)
    [] s \in {ENQUEUED, STARTED} -> SetRunning(t, c, j)
    [] s = FAILED                -> SetFailed(t, c, j)
    [] s = WAIT_DEPENDENCIES     -> t

\* Mutant of Notify: the eta rounded up past the end of the clock.
NotifyRoundedUp(j, s, rowEta) ==
  /\ Become(Transition(Tree, ChannelOf[j], j, s))
  /\ known' = known \cup {j}
  /\ eta' = [eta EXCEPT ![j] = rowEta + 1]
  /\ UNCHANGED <<pause, todo, now>>

\* A job whose eta is not the one the manager holds is removed and created
\* again.  (Priority and channel of a row do not change in this model.)
Notify(j, s, rowEta) ==
  LET c == ChannelOf[j]
      t == IF j \in known /\ rowEta # eta[j] THEN Remove(Tree, c, j) ELSE Tree
  IN  /\ Become(Transition(t, c, j, s))
      /\ known' = known \cup {j}
      /\ eta' = [eta EXCEPT ![j] = rowEta]
      /\ UNCHANGED <<pause, todo, now>>

\* remove_job: the row is gone.
RemoveJob(j) ==
  /\ Become(IF j \in known THEN Remove(Tree, ChannelOf[j], j) ELSE Tree)
  /\ known' = known \ {j}
  /\ eta' = [eta EXCEPT ![j] = 0]
  /\ UNCHANGED <<pause, todo, now>>

\* initialize_databases: the manager of a new connection gets every row that
\* is in one of the states of NOT_DONE, out of one SELECT.
Load(rows, rowEta) ==
  LET In(c, states) == {j \in Job : c \in Path(ChannelOf[j]) /\ rows[j] \in states}
      Own(c, s) == {j \in Job : ChannelOf[j] = c /\ rows[j] = s}
  IN  /\ Become([queue   |-> [c \in Channel |-> Own(c, PENDING)],
                 running |-> [c \in Channel |-> In(c, {ENQUEUED, STARTED})],
                 failed  |-> [c \in Channel |-> Own(c, FAILED)]])
      /\ known' = {j \in Job : rows[j] \in NOT_DONE}
      /\ eta' = [j \in Job |-> IF j \in known' THEN rowEta[j] ELSE 0]
      /\ UNCHANGED <<pause, todo, now>>

\* remove_db, when an exception ends the loop of the runner.  The channels stay,
\* with their pauses.
RemoveAll ==
  /\ Become([queue |-> [c \in Channel |-> {}], running |-> [c \in Channel |-> {}],
             failed |-> [c \in Channel |-> {}]])
  /\ known' = {}
  /\ eta' = [j \in Job |-> 0]
  /\ todo' = {}
  /\ UNCHANGED <<pause, now>>

------------------------------------------------------------------------------
(* ChannelManager.get_jobs_to_run                                            *)

\* Mutant of HasCapacity: off by one.
HasCapacityForOneMore(c) ==
  /\ ~(c \in Sequential /\ failed[c] # {})
  /\ Capacity[c] = 0 \/ Cardinality(running[c]) <= Capacity[c]

HasCapacity(c) ==
  /\ ~(c \in Sequential /\ failed[c] # {})
  /\ Capacity[c] = 0 \/ Cardinality(running[c]) < Capacity[c]

\* The jobs of c that are ready at time t: those that ChannelQueue.pop moves from
\* the eta queue to the other, and those that are in the other already.
Due(c, t) == {j \in queue[c] : eta[j] # 0 /\ eta[j] <= t}

Ready(c, t) == {j \in queue[c] : eta[j] = 0} \cup Due(c, t)

\* The head of a heap of jobs with an eta: by eta, then by rank.
Earlier(i, j) == eta[i] < eta[j] \/ (eta[i] = eta[j] /\ Rank[i] <= Rank[j])

\* Mutant of HeldBack: the comparison turned round.
HeldBackByLower(c, j, t) ==
  LET later == queue[c] \ Ready(c, t)
  IN  /\ c \in Sequential
      /\ \E i \in later : (\A k \in later : Earlier(i, k)) /\ Rank[i] > Rank[j]

\* A sequential queue waits for its first job with an eta, if that job comes
\* before the one that would be popped.
HeldBack(c, j, t) ==
  LET later == queue[c] \ Ready(c, t)
  IN  /\ c \in Sequential
      /\ \E i \in later : (\A k \in later : Earlier(i, k)) /\ Rank[i] < Rank[j]

\* What pop returns at time t, when it returns a job.
PopsAt(c, j, t) ==
  /\ j \in Ready(c, t)
  /\ \A k \in Ready(c, t) : Rank[j] <= Rank[k]
  /\ ~HeldBack(c, j, t)

Pops(c, j) == PopsAt(c, j, now)

ParentOf(c) == CHOOSE p \in Above[c] : \A d \in Above[c] : d \in Path(p)

DueCleared(c) ==
  eta' = [j \in Job |-> IF j \in Due(c, now) THEN 0 ELSE eta[j]]

\* Mutant of MayPull: parents before children.
MayPullInAnyOrder(c) == c \in todo

\* A generator runs once those of the children are exhausted.
MayPull(c) == c \in todo /\ \A d \in todo : c \notin Above[d]

\* A pass begins: the clock is read and the generators are created.
BeginPass ==
  /\ todo = {}
  /\ todo' = Channel
  /\ now' \in now..MaxTime
  /\ UNCHANGED <<known, eta, queue, running, failed, pause>>

Paused(c) == Throttle[c] # 0 /\ now < pause[c]

\* Channel c yields j; a channel other than the root queues it in its parent.  A
\* channel with a throttle yields one job and pauses.
Yield(c, j) ==
  /\ MayPull(c)
  /\ ~Paused(c)
  /\ HasCapacity(c)
  /\ Pops(c, j)
  /\ DueCleared(c)
  /\ running' = [running EXCEPT ![c] = @ \cup {j}]
  /\ queue' = LET popped == [queue EXCEPT ![c] = @ \ {j}]
              IN  IF c = Root THEN popped
                  ELSE [popped EXCEPT ![ParentOf(c)] = @ \cup {j}]
  /\ pause' = [pause EXCEPT ![c] = IF Throttle[c] # 0 THEN now + Throttle[c] ELSE @]
  /\ todo' = IF Throttle[c] # 0 THEN todo \ {c} ELSE todo
  /\ UNCHANGED <<known, failed, now>>

\* A pause that is over is forgotten.
Unpaused(c) == IF Paused(c) THEN pause[c] ELSE 0

\* The generator of c ends: a pause, no capacity, or nothing to pop.
Exhaust(c) ==
  /\ MayPull(c)
  /\ Paused(c) \/ ~HasCapacity(c) \/ \A j \in queue[c] : ~Pops(c, j)
  /\ todo' = todo \ {c}
  /\ IF Paused(c) \/ ~HasCapacity(c) THEN UNCHANGED eta ELSE DueCleared(c)
  /\ pause' = [pause EXCEPT ![c] = Unpaused(c)]
  /\ UNCHANGED <<known, queue, running, failed, now>>

------------------------------------------------------------------------------
(* get_wakeup_time and wait_notification                                     *)

\* Mutant of Reached: a channel that is full is asked as well.
ReachedWhenFull(c) == \A d \in Above[c] : pause[d] = 0

\* get_wakeup_time goes down the tree and stops at a channel that is full, and
\* after one that is paused.
Reached(c) ==
  /\ \A d \in Path(c) : HasCapacity(d)
  /\ \A d \in Above[c] : pause[d] = 0

\* What the channels say one by one; None is left out.
WakeupTimes ==
  LET reached == {c \in Channel : Reached(c)}
  IN  {pause[c] : c \in {d \in reached : pause[d] # 0}}
      \cup {eta[j] : j \in {i \in Job : eta[i] # 0 /\ \E c \in reached :
                                         pause[c] = 0 /\ i \in queue[c]}}

\* 0 stands for "no timed wakeup".
WakeupTime == IF WakeupTimes = {} THEN 0 ELSE Min(WakeupTimes)

\* The timeout "just to be safe", longer than any time the model looks ahead.
SelectTimeout == 3 * MaxTime + 1

\* What wait_notification gives select; it does not wait unless it is positive.
Timeout == IF WakeupTime = 0 THEN SelectTimeout ELSE WakeupTime - now

ChannelsInit ==
  /\ known = {}
  /\ eta = [j \in Job |-> 0]
  /\ queue = [c \in Channel |-> {}]
  /\ running = [c \in Channel |-> {}]
  /\ failed = [c \in Channel |-> {}]
  /\ pause = [c \in Channel |-> 0]
  /\ todo = {}
  /\ now = 0

\* The runner is one thread: it handles notifications between two passes.
Handle(j) ==
  /\ todo = {}
  /\ \/ \E s \in States, e \in 0..MaxTime : Notify(j, s, e)
     \/ RemoveJob(j)

ChannelsNext ==
  \/ \E j \in Job : Handle(j)
  \/ BeginPass
  \/ \E c \in Channel : Exhaust(c) \/ \E j \in Job : Yield(c, j)
  \/ RemoveAll

\* The manager alone, whatever the rows it is notified of.
ChannelsSpec == ChannelsInit /\ [][ChannelsNext]_channelVars

------------------------------------------------------------------------------
(* Properties                                                                *)

ChannelsTypeOK ==
  /\ known \subseteq Job
  /\ eta \in [Job -> 0..MaxTime]
  /\ queue \in [Channel -> SUBSET Job]
  /\ running \in [Channel -> SUBSET Job]
  /\ failed \in [Channel -> SUBSET Job]
  /\ pause \in [Channel -> Nat]
  /\ \A c \in Channel : pause[c] <= MaxTime + Throttle[c]
  /\ todo \subseteq Channel
  /\ now \in 0..MaxTime

\* The channels that hold j in one of their collections.
Holding(sets, j) == {c \in Channel : j \in sets[c]}

\* "From the point of view of a channel, 'running' means enqueued in the
\* downstream channel" (channels.py:370): a job is queued in at most one channel
\* and runs in exactly the channels upstream of it; a failed job blocks its own
\* channel and no other; nothing is left behind of a job that the manager no longer
\* knows, for a new ChannelJob of it could then be in two places.
FlowOf(j) ==
  LET path == Path(ChannelOf[j])
      Q == Holding(queue, j)
      R == Holding(running, j)
      F == Holding(failed, j)
  IN  \/ Q = {} /\ R = {} /\ F = {}
      \/ Q = {} /\ R = {} /\ F = {ChannelOf[j]}
      \/ Q = {} /\ R = path /\ F = {}
      \/ \E d \in path : Q = {d} /\ R = path \ Path(d) /\ F = {}

ConsistentFlow ==
  \A j \in Job :
    IF j \in known THEN FlowOf(j)
    ELSE Holding(queue, j) \cup Holding(running, j) \cup Holding(failed, j) = {}

\* A pass leaves nothing undone: once the generator of a channel is exhausted,
\* no job is left in its queue that the channel could run at this time, unless its
\* throttle says so.
PassIsComplete ==
  \A c \in Channel :
    todo # {} /\ c \notin todo /\ HasCapacity(c) /\ ~Paused(c) => \A j \in queue[c] : ~Pops(c, j)

\* A sequential channel keeps the order of its jobs (channels.py:317-325): a job
\* that starts to run there overtakes no job that is due, nor the one with the
\* earliest eta.
StartsIn(c, j) == todo # {} /\ j \in running'[c] \ running[c]

KeepsOrder ==
  \A c \in Sequential, i, j \in Job :
    StartsIn(c, j) /\ i \in queue[c] /\ Rank[i] < Rank[j]
    => eta[i] > now /\ \E k \in queue[c] : eta[k] > now /\ ~Earlier(i, k)

NoOvertaking == [][KeepsOrder]_channelVars

\* Whether a channel could pop a job at time t that nothing would stop on its way
\* to the server.
SendableAt(t) ==
  \E c \in Channel :
    /\ \A d \in Path(c) : HasCapacity(d) /\ pause[d] <= t
    /\ \E j \in queue[c] : PopsAt(c, j, t)

\* "if timeout is negative (ie wakeup time in the past) [...] it is most probably a
\* bug" (runner.py:481-485), and the loop would spin; a wake-up time that comes too
\* late leaves jobs unsent although nothing stops them.  After a pass the runner
\* sleeps, and no longer than until a job can be sent.
SleepsUntilNeeded ==
  [][todo # {} /\ todo' = {} /\ ~RemoveAll =>
       /\ Timeout' > 0
       /\ \A t \in now..(2 * MaxTime) :
            SendableAt(t)' => t > now /\ now + Timeout' <= t]_channelVars

==============================================================================
