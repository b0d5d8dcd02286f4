------------------------------- MODULE QueueJob -------------------------------
(***************************************************************************)
(* The life of the rows of queue_job: the Odoo workers that run jobs       *)
(* (controllers/main.py), the HTTP requests that ask them to               *)
(* (_async_http_get in jobrunner/runner.py), the users and crons that      *)
(* change the state of a job (models/queue_job.py, wizards), and the       *)
(* dependencies between the jobs of a graph (job.py).                      *)
(*                                                                         *)
(* PostgreSQL runs at REPEATABLE READ: a transaction computes what it      *)
(* writes from the snapshot it took at its first query, and fails when a   *)
(* row it writes was changed by a transaction that committed since.  A     *)
(* user's transaction is therefore two steps, Open* (snapshot) and Commit; *)
(* a worker's are RunJob (one locked transaction), BeginPerform ..         *)
(* PerformDone, and EnqueueDependents.  stale[s] is what other sessions    *)
(* wrote since session s took its snapshot.                                *)
(***************************************************************************)
EXTENDS Naturals, JobStates

CONSTANTS
  Job,          \* the jobs of one or several graphs
  DependsOn,    \* DependsOn[j]: the jobs that j waits for ("depends_on")
  Worker,       \* HTTP workers of the Odoo server
  User,         \* sessions of users and of the crons
  UserOps,      \* what they do: a subset of {"requeue", "done", "cancel"}
  Requeueable,  \* the states from which they requeue a job
  Doneable,     \* and set it to done
  Careful,      \* whether they leave a job alone while a worker runs it
  Faults,       \* of {"crash", "release", "dispatch", "request", "handler"}
  MaxRetries,   \* max_retries of every job; 0 is without limit
  MaxRequests   \* bound of the model: requests of a job under way at once

ASSUME GraphAssumption ==
  /\ DependsOn \in [Job -> SUBSET Job]
  /\ \A j \in Job : j \notin DependsOn[j]

ASSUME UserAssumption ==
  /\ UserOps \subseteq {"requeue", "done", "cancel"}
  /\ Requeueable \subseteq States \ {WAIT_DEPENDENCIES}
  /\ Doneable \subseteq States
  /\ Careful \in BOOLEAN
  /\ Worker \cap User = {}

ASSUME BoundAssumption ==
  /\ MaxRetries \in Nat
  /\ MaxRequests \in Nat \ {0}

VARIABLES
  state,     \* queue_job.state of every job
  retry,     \* queue_job.retry
  worker,    \* what each HTTP worker is doing
  txn,       \* the transaction each user has open, with what it will write
  stale,     \* rows written by others since a session's snapshot
  sent,      \* requests under way that no worker has taken yet
  offered,   \* jobs that the runner believes to be PENDING
  everDone   \* history: the jobs that have been DONE at some time

vars == <<state, retry, worker, txn, stale, sent, offered, everDone>>

------------------------------------------------------------------------------
(* The dependency graph in the database                                      *)

\* Jobs with dependencies wait unless every parent that still has a row is
\* DONE: the parents are read with load_many, which skips missing rows.
ParentsDone(j) == \A p \in DependsOn[j] : state[p] \in {DONE, Absent}

PendingOrWait(ready) == IF ready THEN PENDING ELSE WAIT_DEPENDENCIES

\* Mutants of Dependents: one parent is enough; or children in any state.
DependentsOfOne(s, j, final) ==
  {c \in Job : j \in DependsOn[c] /\ s[c] = WAIT_DEPENDENCIES /\ s[j] = final}

DependentsInAnyState(s, j, final) ==
  {c \in Job : /\ j \in DependsOn[c] /\ s[c] # Absent
               /\ \A p \in DependsOn[c] : s[p] \in {final, Absent}}

\* The children that the SQL of _get_common_dependent_jobs_query updates when
\* the rows are as in s and the state asked of all parents is final.
Dependents(s, j, final) ==
  {c \in Job : /\ j \in DependsOn[c]
               /\ s[c] = WAIT_DEPENDENCIES
               /\ s[j] # Absent
               /\ \A p \in DependsOn[c] : s[p] \in {final, Absent}}

\* j goes to the state final and its dependents to the state after.
Cascade(j, final, after) ==
  LET children == Dependents([state EXCEPT ![j] = final], j, final)
  IN  [k \in {j} \cup children |-> IF k = j THEN final ELSE after]

Apply(writes) ==
  [j \in Job |-> IF j \in DOMAIN writes THEN writes[j] ELSE state[j]]

------------------------------------------------------------------------------
(* Sessions                                                                  *)

Session == Worker \cup User

IdleWorker == [pc |-> "idle"]
NoTxn      == [op |-> "none", writes |-> <<>>]

IsOn(w, j)    == worker[w].pc # "idle" /\ worker[w].job = j
Executes(w, j) == worker[w].pc \in {"started", "performing"} /\ worker[w].job = j

HasSnapshot(s) ==
  IF s \in User THEN txn[s].op # "none" ELSE worker[s].pc = "performing"

\* Session me commits a transaction that wrote the given rows: every snapshot
\* still in use is stale for them.
Wrote(me, rows) ==
  stale' = [s \in Session |-> IF s # me /\ HasSnapshot(s)
                              THEN stale[s] \cup rows ELSE {}]

\* The same for a writer that keeps no snapshot (autocommit connections).
WroteAlone(rows) ==
  stale' = [s \in Session |-> IF HasSnapshot(s) THEN stale[s] \cup rows ELSE {}]

------------------------------------------------------------------------------
(* The runner's connections (jobrunner/runner.py)                            *)

\* Database.set_job_enqueued: no condition on the state of the row.
SetJobEnqueued(j) ==
  /\ state' = IF state[j] = Absent THEN state ELSE [state EXCEPT ![j] = ENQUEUED]
  /\ WroteAlone({j})

\* _async_http_get: a client thread sends the request.
AsyncHttpGet(j) ==
  /\ sent[j] < MaxRequests
  /\ sent' = [sent EXCEPT ![j] = @ + 1]

\* The runner reads rows, when it is notified of them or starts, and offers the
\* PENDING ones to the channels until it reads something else.
ReadRows ==
  /\ offered' \in SUBSET (offered \cup {j \in Job : state[j] = PENDING})
  /\ UNCHANGED <<state, retry, worker, txn, stale, sent, everDone>>

\* Mutant of Dispatch: the job stays in its channel's queue.
DispatchAndKeep(j) ==
  /\ j \in offered
  /\ SetJobEnqueued(j)
  /\ AsyncHttpGet(j)
  /\ UNCHANGED <<retry, worker, txn, offered, everDone>>

\* run_jobs: it sends a job that was PENDING when it was read.
Dispatch(j) ==
  /\ j \in offered
  /\ SetJobEnqueued(j)
  /\ AsyncHttpGet(j)
  /\ offered' = offered \ {j}
  /\ UNCHANGED <<retry, worker, txn, everDone>>

\* The runner stops between set_job_enqueued and the request, and forgets all.
DispatchCrash(j) ==
  /\ "dispatch" \in Faults
  /\ j \in offered
  /\ SetJobEnqueued(j)
  /\ offered' = {}
  /\ UNCHANGED <<retry, worker, txn, sent, everDone>>

\* Mutant of SetJobPending: without "AND state = 'enqueued'".
SetJobPendingAlways(j) ==
  /\ state[j] # Absent
  /\ state' = [state EXCEPT ![j] = PENDING]
  /\ WroteAlone({j})

\* set_job_pending in _async_http_get: an UPDATE of the row if it is ENQUEUED.
SetJobPending(j) ==
  /\ state[j] = ENQUEUED
  /\ state' = [state EXCEPT ![j] = PENDING]
  /\ WroteAlone({j})

\* The client thread gets no answer within its second, or an error answer.
\* The request may still be waiting for a worker.
ClientTimeout(j) ==
  /\ SetJobPending(j)
  /\ UNCHANGED <<retry, worker, txn, sent, everDone, offered>>

\* The connection fails: the request is lost and the client thread knows.
RequestLost(j) ==
  /\ "request" \in Faults
  /\ sent[j] > 0
  /\ sent' = [sent EXCEPT ![j] = @ - 1]
  /\ SetJobPending(j)
  /\ UNCHANGED <<retry, worker, txn, everDone, offered>>

------------------------------------------------------------------------------
(* The controller (controllers/main.py)                                      *)

\* Job.load: what the Job object of a worker keeps of the row, and of the parents
\* that the first store() reads.
Loaded(j) == [pc |-> "started", job |-> j, ready |-> ParentsDone(j), retry |-> retry[j]]

\* runjob locks an ENQUEUED row and _try_perform_job commits it as STARTED.
RunJob(w, j) ==
  /\ sent[j] > 0
  /\ worker[w].pc = "idle"
  /\ state[j] = ENQUEUED
  /\ sent' = [sent EXCEPT ![j] = @ - 1]
  /\ state' = [state EXCEPT ![j] = STARTED]
  /\ worker' = [worker EXCEPT ![w] = Loaded(j)]
  /\ Wrote(w, {j})
  /\ UNCHANGED <<retry, txn, everDone, offered>>

\* Mutants of RefuseJob: an ENQUEUED job is refused as well; or an answer is
\* given to no request.
RefuseJobBusy(w, j) ==
  /\ sent[j] > 0
  /\ sent' = [sent EXCEPT ![j] = @ - 1]
  /\ UNCHANGED <<state, retry, worker, txn, stale, everDone, offered>>

RefuseJobUnasked(w, j) ==
  /\ worker[w].pc = "idle"
  /\ sent' = [sent EXCEPT ![j] = @ - 1]
  /\ UNCHANGED <<state, retry, worker, txn, stale, everDone, offered>>

\* runjob finds no ENQUEUED row.
RefuseJob(w, j) ==
  /\ sent[j] > 0
  /\ worker[w].pc = "idle"
  /\ state[j] # ENQUEUED
  /\ sent' = [sent EXCEPT ![j] = @ - 1]
  /\ UNCHANGED <<state, retry, worker, txn, stale, everDone, offered>>

\* The first query of the job's method: the transaction takes its snapshot.
BeginPerform(w) ==
  /\ worker[w].pc = "started"
  /\ worker' = [worker EXCEPT ![w].pc = "performing"]
  /\ stale' = [stale EXCEPT ![w] = {}]
  /\ UNCHANGED <<state, retry, txn, sent, everDone, offered>>

\* retry after "self.retry += 1"; values from MaxRetries on are alike.
NextRetry(w) ==
  IF worker[w].retry < MaxRetries THEN worker[w].retry + 1 ELSE MaxRetries

\* The last write of worker w to its job, whatever the row holds by then.
StoreAndLeave(w, newState, newRetry) ==
  /\ state' = [state EXCEPT ![worker[w].job] = newState]
  /\ retry' = [retry EXCEPT ![worker[w].job] = newRetry]
  /\ worker' = [worker EXCEPT ![w] = IdleWorker]
  /\ Wrote(w, {worker[w].job})
  /\ UNCHANGED <<txn, sent, everDone, offered>>

\* Mutant of PerformDone: the request ends without _enqueue_dependent_jobs.
PerformDoneOnly(w) ==
  /\ worker[w].pc = "performing"
  /\ worker[w].job \notin stale[w]
  /\ StoreAndLeave(w, DONE, NextRetry(w))

\* set_done, store and commit; a row changed since the snapshot refuses it.
PerformDone(w) ==
  /\ worker[w].pc = "performing"
  /\ worker[w].job \notin stale[w]
  /\ state' = [state EXCEPT ![worker[w].job] = DONE]
  /\ retry' = [retry EXCEPT ![worker[w].job] = NextRetry(w)]
  /\ worker' = [worker EXCEPT ![w].pc = "release"]
  /\ Wrote(w, {worker[w].job})
  /\ everDone' = everDone \cup {worker[w].job}
  /\ UNCHANGED <<txn, sent, offered>>

\* retry_postpone, on a new cursor: the parents are those loaded by RunJob.
Postpone(w, newRetry) ==
  StoreAndLeave(w, PendingOrWait(worker[w].ready), newRetry)

\* A serialization error of the job's transaction, unlimited in number.
PerformConflict(w) ==
  /\ worker[w].pc = "performing"
  /\ Postpone(w, NextRetry(w))

\* The method raises RetryableJobError, with or without ignore_retry.
Exhausted(w) == MaxRetries # 0 /\ NextRetry(w) = MaxRetries

PerformRetry(w) ==
  /\ worker[w].pc = "performing"
  /\ \/ Postpone(w, worker[w].retry)
     \/ ~Exhausted(w) /\ Postpone(w, NextRetry(w))
     \/ Exhausted(w) /\ StoreAndLeave(w, FAILED, NextRetry(w))

\* Any other exception.
PerformFail(w) ==
  /\ worker[w].pc = "performing"
  /\ StoreAndLeave(w, FAILED, NextRetry(w))

\* What handles an exception of the job raises itself, before it has stored
\* anything: postpone does when the retry pattern is no number of seconds, and so
\* does a store that fails on the new cursor.  The request ends.
HandlerRaises(w) ==
  /\ "handler" \in Faults
  /\ worker[w].pc = "performing"
  /\ worker' = [worker EXCEPT ![w] = IdleWorker]
  /\ stale' = [stale EXCEPT ![w] = {}]
  /\ UNCHANGED <<state, retry, txn, sent, everDone, offered>>

\* _enqueue_dependent_jobs, in the transaction after the one of PerformDone.
EnqueueDependents(w) ==
  /\ worker[w].pc = "release"
  /\ LET children == Dependents(state, worker[w].job, DONE)
     IN  /\ state' = Apply([c \in children |-> PENDING])
         /\ Wrote(w, children)
  /\ worker' = [worker EXCEPT ![w] = IdleWorker]
  /\ UNCHANGED <<retry, txn, sent, everDone, offered>>

\* A serialization error there: the loop tries again in the transaction that
\* the error has aborted, so the second try raises and the request ends.
ReleaseFails(w) ==
  /\ "release" \in Faults
  /\ worker[w].pc = "release"
  /\ worker' = [worker EXCEPT ![w] = IdleWorker]
  /\ stale' = [stale EXCEPT ![w] = {}]
  /\ UNCHANGED <<state, retry, txn, sent, everDone, offered>>

\* The worker process is killed.
WorkerCrash(w) ==
  /\ "crash" \in Faults
  /\ worker[w].pc # "idle"
  /\ worker' = [worker EXCEPT ![w] = IdleWorker]
  /\ stale' = [stale EXCEPT ![w] = {}]
  /\ UNCHANGED <<state, retry, txn, sent, everDone, offered>>

------------------------------------------------------------------------------
(* Users and crons (models/queue_job.py, wizards)                            *)

MayTouch(j) == Careful => \A w \in Worker : ~Executes(w, j)

OpenTxn(u, op, writes) ==
  /\ op \in UserOps
  /\ txn[u].op = "none"
  /\ txn' = [txn EXCEPT ![u] = [op |-> op, writes |-> writes]]
  /\ stale' = [stale EXCEPT ![u] = {}]
  /\ UNCHANGED <<state, retry, worker, sent, everDone, offered>>

\* Mutant of OpenRequeue: only what the form offers, so that the cron skips the
\* stuck jobs.
OpenRequeueFailed(u, j) ==
  /\ state[j] = FAILED
  /\ OpenTxn(u, "requeue", [k \in {j} |-> PendingOrWait(ParentsDone(j))])

\* requeue, also called by the cron requeue_stuck_jobs.
OpenRequeue(u, j) ==
  /\ state[j] \in Requeueable
  /\ MayTouch(j)
  /\ OpenTxn(u, "requeue", [k \in {j} |-> PendingOrWait(ParentsDone(j))])

\* button_done, and the wizard that offers it for jobs in any state.
OpenDone(u, j) ==
  /\ state[j] \in Doneable
  /\ MayTouch(j)
  /\ OpenTxn(u, "done", Cascade(j, DONE, PENDING))

\* button_cancelled, as the form and the wizard offer it.
OpenCancel(u, j) ==
  /\ state[j] \in {PENDING, FAILED, ENQUEUED}
  /\ MayTouch(j)
  /\ OpenTxn(u, "cancel", Cascade(j, CANCELLED, CANCELLED))

Commit(u) ==
  LET writes == txn[u].writes IN
  /\ txn[u].op # "none"
  /\ stale[u] \cap DOMAIN writes = {}
  /\ state' = Apply(writes)
  /\ retry' = [j \in Job |-> IF txn[u].op = "requeue" /\ j \in DOMAIN writes
                             THEN 0 ELSE retry[j]]
  /\ txn' = [txn EXCEPT ![u] = NoTxn]
  /\ Wrote(u, DOMAIN writes)
  /\ everDone' = everDone \cup {j \in DOMAIN writes : writes[j] = DONE}
  /\ UNCHANGED <<worker, sent, offered>>

\* Serialization error: Odoo rolls the request back (and may open it again).
Abort(u) ==
  /\ txn[u].op # "none"
  /\ stale[u] \cap DOMAIN txn[u].writes # {}
  /\ txn' = [txn EXCEPT ![u] = NoTxn]
  /\ stale' = [stale EXCEPT ![u] = {}]
  /\ UNCHANGED <<state, retry, worker, sent, everDone, offered>>

\* autovacuum, long after the job ended: no worker is still on it.  (Children
\* that were cancelled along with a parent have no date and are kept; here they
\* may go as well.)
Autovacuum(j) ==
  /\ state[j] \in {DONE, CANCELLED}
  /\ \A w \in Worker : ~IsOn(w, j)
  /\ state' = [state EXCEPT ![j] = Absent]
  /\ WroteAlone({j})
  /\ UNCHANGED <<retry, worker, txn, sent, everDone, offered>>

------------------------------------------------------------------------------

\* The transaction that called delay() has committed (Job.add_depends).
Init ==
  /\ state = [j \in Job |-> PendingOrWait(DependsOn[j] = {})]
  /\ retry = [j \in Job |-> 0]
  /\ worker = [w \in Worker |-> IdleWorker]
  /\ txn = [u \in User |-> NoTxn]
  /\ stale = [s \in Session |-> {}]
  /\ sent = [j \in Job |-> 0]
  /\ offered = {}
  /\ everDone = {}

RunnerStep(j) == Dispatch(j) \/ DispatchCrash(j)

ClientStep(j) == ClientTimeout(j) \/ RequestLost(j)

WorkerStep(w) ==
  \/ \E j \in Job : RunJob(w, j) \/ RefuseJob(w, j)
  \/ BeginPerform(w) \/ PerformDone(w) \/ PerformConflict(w)
  \/ PerformRetry(w) \/ PerformFail(w)
  \/ EnqueueDependents(w) \/ ReleaseFails(w) \/ HandlerRaises(w) \/ WorkerCrash(w)

UserStep(u) ==
  \/ \E j \in Job : OpenRequeue(u, j) \/ OpenDone(u, j) \/ OpenCancel(u, j)
  \/ Commit(u) \/ Abort(u)

Next ==
  \/ ReadRows
  \/ \E j \in Job : RunnerStep(j) \/ ClientStep(j) \/ Autovacuum(j)
  \/ \E w \in Worker : WorkerStep(w)
  \/ \E u \in User : UserStep(u)

Spec == Init /\ [][Next]_vars

------------------------------------------------------------------------------
(* Properties                                                                *)

\* The states that users write.
UserStates == {PENDING, WAIT_DEPENDENCIES, DONE, CANCELLED}

TypeOK ==
  /\ state \in [Job -> RowStates]
  /\ retry \in [Job -> 0..MaxRetries]
  /\ worker \in [Worker -> {IdleWorker} \cup
                    [pc : {"started", "performing", "release"}, job : Job,
                     ready : BOOLEAN, retry : 0..MaxRetries]]
  /\ txn \in [User -> {NoTxn} \cup
                 [op : UserOps,
                  writes : UNION {[rows -> UserStates] : rows \in SUBSET Job}]]
  /\ stale \in [Session -> SUBSET Job]
  /\ sent \in [Job -> 0..MaxRequests]
  /\ offered \subseteq Job
  /\ everDone \subseteq Job

\* "When and only when all the jobs of the group [A] are executed, the jobs of
\* the group [B] are executed" (readme/USAGE.md:83): whatever users, crons and
\* faults do, a job is not offered to the runner, nor run, before each of its
\* parents has been done once or its row was deleted.
Settled(j) == \A p \in DependsOn[j] : p \in everDone \/ state[p] = Absent

ParentsFirst ==
  \A j \in Job : state[j] \in {PENDING, ENQUEUED, STARTED, FAILED} => Settled(j)

\* The row lock and the state test of runjob (main.py:95-107): no two workers
\* execute the same job, when users leave the jobs alone that a worker runs.
SingleExecution ==
  \A v, w \in Worker, j \in Job : Executes(v, j) /\ Executes(w, j) => v = w

\* Users leave alone a job that a worker executes: by care, or because the form,
\* unlike the wizards, offers nothing for a STARTED job (queue_job_views.xml:9-30).
\* They may still commit, after a worker took the job, what they opened before.
HandsOff == Careful \/ STARTED \notin Requeueable \cup Doneable

\* A job that a worker executes is STARTED in the table, so that the last write
\* of the worker (done, failed or postponed) overwrites nobody else's decision.
ExecutingIsStarted ==
  \A w \in Worker, j \in Job : Executes(w, j) => state[j] = STARTED

\* Somebody works for job j, if it is under way: a request or a worker.
Attended(j) ==
  /\ state[j] = ENQUEUED => sent[j] > 0
  /\ state[j] = STARTED => \E w \in Worker : Executes(w, j)

\* The caveat of runner.py:117-124 is that jobs stay ENQUEUED or STARTED when the
\* server is killed.  A job is left like this in three ways, and whatever users do
\* and whatever times out in no other: the runner stops before it has sent the
\* request, the worker of the job is killed, or the handling of the job's exception
\* raises (main.py:87-93, 126).
Abandoned(j) ==
  \/ DispatchCrash(j)
  \/ \E w \in Worker : Executes(w, j) /\ (WorkerCrash(w) \/ HandlerRaises(w))

NoStaleJob == [][\A j \in Job : Attended(j) /\ ~Attended(j)' => Abandoned(j)]_vars

\* Dependencies are resolved in a transaction of their own after the one that
\* commits DONE: a child whose parents are all DONE waits only as long as a
\* worker is between the two.
NoForgottenChild ==
  \A j \in Job :
    /\ state[j] = WAIT_DEPENDENCIES
    /\ DependsOn[j] # {}
    /\ \A p \in DependsOn[j] : state[p] = DONE
    => \E w \in Worker, p \in DependsOn[j] :
         worker[w].pc = "release" /\ worker[w].job = p

\* A DONE or CANCELLED job changes its state only by a user's decision about
\* that job, never by a late request, time-out or worker; the one exception is
\* a runner that has not read yet that the job ended.
Decides(u, j) == txn[u].op # "none" /\ txn'[u] = NoTxn /\ j \in DOMAIN txn[u].writes

OnlyUsersReopen ==
  [][\A j \in Job :
       state[j] \in {DONE, CANCELLED} /\ state'[j] \notin {state[j], Absent}
       => \/ \E u \in User : Decides(u, j)
          \/ j \in offered /\ state'[j] = ENQUEUED]_vars

\* Fairness: the server keeps serving requests and a worker that has a job goes
\* on with it; the cron requeue_stuck_jobs runs every five minutes and sees a
\* job that stayed ENQUEUED (data/queue_data.xml).
Progress(w) ==
  \/ \E j \in Job : RunJob(w, j) \/ RefuseJob(w, j)
  \/ BeginPerform(w) \/ PerformDone(w) \/ PerformConflict(w)
  \/ PerformRetry(w) \/ PerformFail(w) \/ EnqueueDependents(w)

RequeueStuck(u, j) == state[j] = ENQUEUED /\ OpenRequeue(u, j)

Fairness ==
  /\ \A w \in Worker : WF_vars(Progress(w))
  /\ \A u \in User : WF_vars(Commit(u) \/ Abort(u))
  /\ \A j \in Job : SF_vars(\E u \in User : RequeueStuck(u, j))

FairSpec == Spec /\ Fairness

\* No job stays ENQUEUED for ever, though the runner may stop before it sends
\* the request: the cron puts the job back (models/queue_job.py:412-425).
EnqueuedMovesOn == \A j \in Job : state[j] = ENQUEUED ~> state[j] # ENQUEUED

\* A child whose parents are all DONE is released in the end.
Blocked(j) ==
  state[j] = WAIT_DEPENDENCIES /\ \A p \in DependsOn[j] : state[p] = DONE

ReadyChildReleased == \A j \in Job : Blocked(j) ~> ~Blocked(j)

------------------------------------------------------------------------------
(* Inductive strengthenings, for the proofs of module QueueJobProofs         *)

\* ParentsFirst: what sessions are about to write is justified already, or by
\* what they write along with it.
SettledWith(j, writes) ==
  \A p \in DependsOn[j] :
    \/ p \in everDone
    \/ state[p] = Absent
    \/ (p \in DOMAIN writes /\ writes[p] = DONE)

RowsExist ==
  /\ \A w \in Worker : worker[w].pc # "idle" => state[worker[w].job] # Absent
  /\ \A u \in User : txn[u].op # "none" =>
       \A j \in DOMAIN txn[u].writes \ stale[u] : state[j] # Absent

DoneIsRemembered == \A j \in Job : state[j] = DONE => j \in everDone

WritesSettled ==
  \A u \in User : txn[u].op # "none" =>
    \A j \in DOMAIN txn[u].writes :
      txn[u].writes[j] \in {WAIT_DEPENDENCIES, DONE, CANCELLED}
      \/ SettledWith(j, txn[u].writes)

WorkersSettled ==
  \A w \in Worker : worker[w].pc # "idle" => Settled(worker[w].job)

OfferedSettled == \A j \in offered : Settled(j)

ParentsInv ==
  /\ RowsExist
  /\ DoneIsRemembered
  /\ ParentsFirst
  /\ WorkersSettled
  /\ WritesSettled
  /\ OfferedSettled

\* SingleExecution: a transaction that a user may still commit writes no row of
\* a job that a worker executes.
CommitsAreSafe ==
  \A u \in User : txn[u].op # "none" =>
    \A j \in DOMAIN txn[u].writes \ stale[u], w \in Worker : ~Executes(w, j)

\* The runner sends no job that it, or a worker, has taken already.
OfferedNotTaken == \A j \in offered : state[j] \notin {ENQUEUED, STARTED}

ExecutionInv ==
  SingleExecution /\ ExecutingIsStarted /\ CommitsAreSafe /\ OfferedNotTaken

\* NoForgottenChild, when no worker dies and users leave ended jobs alone: what
\* was done stays done, so that whatever puts a job back finds its parents done
\* and nobody but Init makes a job wait.
DoneStays == \A j \in everDone : state[j] \in {DONE, Absent}

OfferedNotDone == offered \cap everDone = {}

WorkersReady == \A w \in Worker : worker[w].pc # "idle" => worker[w].ready

WritesForward ==
  \A u \in User : txn[u].op # "none" =>
    \A j \in DOMAIN txn[u].writes :
      /\ txn[u].writes[j] \in {PENDING, CANCELLED}
      /\ j \in stale[u] \/ state[j] \in {WAIT_DEPENDENCIES, PENDING, ENQUEUED, FAILED}

ReleaseInv ==
  DoneStays /\ OfferedNotDone /\ WorkersReady /\ WritesForward /\ NoForgottenChild

==============================================================================
