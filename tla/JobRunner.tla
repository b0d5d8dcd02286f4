------------------------------- MODULE JobRunner -------------------------------
(***************************************************************************)
(* The job runner (jobrunner/runner.py) at work: the table and the server  *)
(* of module QueueJob, the channel manager of module Channels, and between *)
(* them the notifications of the trigger queue_job_notify.                 *)
(*                                                                         *)
(* The runner never looks at the table to decide what to run.  It knows    *)
(* the rows it read when a notification came, and a row may have changed   *)
(* again by the time the runner marks it ENQUEUED.                         *)
(*                                                                         *)
(* Etas are left out of this composition (they are in Channels): a         *)
(* postponed job competes at once.                                         *)
(***************************************************************************)
EXTENDS Channels

CONSTANTS
  DependsOn, Worker, User, UserOps, Requeueable, Doneable, Careful,
  Faults, MaxRetries, MaxRequests                             \* see QueueJob

\* The table has as many rows as it has.
ASSUME RowsAssumption == IsFiniteSet(Job)

VARIABLES
  state, retry, worker, txn, stale, sent, everDone,           \* see QueueJob
  phase,    \* where the loop of the runner is
  notes     \* jobs with a notification that the runner has not handled

\* Where the channels have job j: its queues, the channels it runs in and those
\* it blocks.
QueuedIn(j)  == {c \in Channel : j \in queue[c]}
RunningIn(j) == {c \in Channel : j \in running[c]}
FailedIn(j)  == {c \in Channel : j \in failed[c]}

\* What the runner believes to be PENDING is what the channels hold in a queue.
Offered == {j \in Job : QueuedIn(j) # {}}

DB == INSTANCE QueueJob WITH offered <- Offered

dbVars == <<state, retry, worker, txn, stale, sent, everDone>>
vars   == <<dbVars, channelVars, phase, notes>>

------------------------------------------------------------------------------
(* The trigger queue_job_notify (post_init_hook.py)                          *)

\* Every row written is notified, whether its state changes or not, except that
\* the deletion of a DONE row is not.
Fires(j) ==
  /\ state'[j] # state[j]
  /\ ~(state[j] = DONE /\ state'[j] = Absent)

\* rows are those written besides the ones whose state changes.  Nobody listens
\* while the runner has no connection.
NotesAfter(rows) ==
  notes' = IF phase = "down" THEN {}
           ELSE notes \cup {j \in Job : Fires(j) \/ (j \in rows /\ state[j] # Absent)}

\* What the next step of user u commits, if its transaction is still valid.
Committing(u) ==
  LET rows == DOMAIN txn[u].writes
  IN  IF stale[u] \cap rows = {} THEN rows ELSE {}

------------------------------------------------------------------------------
(* QueueJobRunner.run and initialize_databases                               *)

\* Database._initialize: LISTEN comes before the first SELECT.
Listen ==
  /\ phase = "down"
  /\ phase' = "loading"
  /\ notes' = {}
  /\ UNCHANGED <<dbVars, channelVars>>

LoadJobs ==
  /\ phase = "loading"
  /\ Load(state, [j \in Job |-> 0])
  /\ phase' = "notify"
  /\ UNCHANGED <<dbVars, notes>>

\* process_notifications: the row is read when the notification is handled.
ProcessNotification(j) ==
  /\ phase = "notify"
  /\ j \in notes
  /\ notes' = notes \ {j}
  /\ IF state[j] = Absent THEN RemoveJob(j) ELSE Notify(j, state[j], 0)
  /\ UNCHANGED <<dbVars, phase>>

\* Mutant of BeginRunJobs: the list of notifications is emptied half-way.
BeginRunJobsForgetting ==
  /\ phase = "notify"
  /\ BeginPass
  /\ phase' = "run"
  /\ notes' = {}
  /\ UNCHANGED dbVars

\* run_jobs begins; some notifications may not have reached the runner yet.
BeginRunJobs ==
  /\ phase = "notify"
  /\ BeginPass
  /\ phase' = "run"
  /\ UNCHANGED <<dbVars, notes>>

\* A channel passes a job on to its parent.
PassDown(c, j) ==
  /\ c # Root
  /\ phase = "run"
  /\ Yield(c, j)
  /\ UNCHANGED <<dbVars, phase, notes>>

\* The root yields a job: run_jobs sets its row to ENQUEUED, whatever it is, and
\* sends the request.
SendJob(j) ==
  /\ phase = "run"
  /\ Yield(Root, j)
  /\ DB!SetJobEnqueued(j)
  /\ DB!AsyncHttpGet(j)
  /\ NotesAfter({j})
  /\ UNCHANGED <<retry, worker, txn, everDone, phase>>

ExhaustChannel(c) ==
  /\ phase = "run"
  /\ Exhaust(c)
  /\ phase' = IF todo' = {} THEN "notify" ELSE "run"
  /\ UNCHANGED <<dbVars, notes>>

\* An exception, or the end of the process: the channels forget their jobs.
Recover ==
  /\ "crash" \in Faults
  /\ phase # "down"
  /\ RemoveAll
  /\ phase' = "down"
  /\ notes' = {}
  /\ UNCHANGED dbVars

\* The exception comes between set_job_enqueued and the request.
RecoverInSend(j) ==
  /\ "dispatch" \in Faults
  /\ phase = "run"
  /\ MayPull(Root) /\ ~Paused(Root)
  /\ HasCapacity(Root) /\ Pops(Root, j)
  /\ RemoveAll
  /\ DB!SetJobEnqueued(j)
  /\ phase' = "down"
  /\ notes' = {}
  /\ UNCHANGED <<retry, worker, txn, sent, everDone>>

------------------------------------------------------------------------------
(* The rest of the system                                                    *)

Environment(A, rows) == UNCHANGED <<channelVars, phase>> /\ A /\ NotesAfter(rows)

ClientStep(j) == Environment(DB!ClientStep(j), {})
WorkerStep(w) == Environment(DB!WorkerStep(w), {})
UserStep(u)   == Environment(DB!UserStep(u), Committing(u))
Autovacuum(j) == Environment(DB!Autovacuum(j), {})

Init ==
  /\ ChannelsInit
  /\ DB!Init
  /\ phase = "down"
  /\ notes = {}

RunnerStep ==
  \/ Listen \/ LoadJobs \/ BeginRunJobs \/ Recover
  \/ \E j \in Job : ProcessNotification(j) \/ SendJob(j) \/ RecoverInSend(j)
  \/ \E c \in Channel : ExhaustChannel(c) \/ \E j \in Job : PassDown(c, j)

Next ==
  \/ RunnerStep
  \/ \E j \in Job : ClientStep(j) \/ Autovacuum(j)
  \/ \E w \in Worker : WorkerStep(w)
  \/ \E u \in User : UserStep(u)

Spec == Init /\ [][Next]_vars

------------------------------------------------------------------------------
(* Properties                                                                *)

\* No lost notification: what the runner believes of a job is what the table
\* says of it, unless a notification of a later change is on its way.  (A job
\* that waits for dependencies is held nowhere, if it never left that state.)
Agrees(j) ==
  CASE state[j] = PENDING -> QueuedIn(j) # {}
    [] state[j] \in {ENQUEUED, STARTED} -> Root \in RunningIn(j)
    [] state[j] = FAILED -> FailedIn(j) = {ChannelOf[j]}
    [] state[j] \in {DONE, CANCELLED, Absent} ->
         QueuedIn(j) \cup RunningIn(j) \cup FailedIn(j) = {}
    [] state[j] = WAIT_DEPENDENCIES -> TRUE

ViewAgrees ==
  phase \in {"notify", "run"} => \A j \in Job \ notes : Agrees(j)

\* The channels keep the server from being overrun: whatever the delays, time-
\* outs and restarts, no more jobs of a channel's subtree are ENQUEUED or
\* STARTED in the table than its capacity.
Underway(c) ==
  {j \in Job : state[j] \in {ENQUEUED, STARTED} /\ c \in Path(ChannelOf[j])}

CapacityRespected ==
  \A c \in Channel : Capacity[c] # 0 => Cardinality(Underway(c)) <= Capacity[c]

\* The runner, its channels and the trigger keep to what module QueueJob allows a
\* runner: it sends only jobs that were PENDING when it read them, each once per
\* reading.  All that is proved of QueueJob holds here.
ImplementsQueueJob == DB!Spec

\* Fairness: the runner's thread goes on and every notification is delivered to
\* it in the end (process_notifications empties the list at each turn of the
\* loop); the server serves requests, and a worker goes on with its job.
RunnerTurn ==
  \/ Listen \/ LoadJobs \/ BeginRunJobs
  \/ \E c \in Channel : ExhaustChannel(c) \/ \E j \in Job : PassDown(c, j)
  \/ \E j \in Job : SendJob(j)

Fairness ==
  /\ WF_vars(RunnerTurn)
  /\ \A j \in Job : SF_vars(ProcessNotification(j))
  /\ \A w \in Worker : WF_vars(Environment(DB!Progress(w), {}))
  /\ \A u \in User : WF_vars(Environment(DB!Commit(u) \/ DB!Abort(u), Committing(u)))

FairSpec == Spec /\ Fairness

\* "It will be executed as soon as the Jobrunner has a free bucket"
\* (readme/DESCRIPTION.md): a job stays PENDING for ever only if jobs that come
\* before it keep coming back.
NoStarvation ==
  \A j \in Job :
    \/ []<>(state[j] # PENDING)
    \/ []<>(\E i \in Job : Rank[i] < Rank[j] /\ state[i] = PENDING)

==============================================================================
