---------------------------- MODULE QueueJobProofs ----------------------------
(***************************************************************************)
(* Proofs about module QueueJob, for every set of jobs, graph, number of   *)
(* workers and users, and every choice of users' operations and faults:    *)
(* type correctness, then the three inductive invariants, ParentsInv for   *)
(* the order of the jobs of a graph, ExecutionInv for the exclusion of two *)
(* workers on one job, and ReleaseInv for the children of a job that ended.*)
(*                                                                         *)
(* Last, proofs about RetryPattern, for every pattern and count of retries. *)
(***************************************************************************)
EXTENDS QueueJob, RetryPattern, Induction

Busy == [pc : {"started", "performing", "release"}, job : Job,
         ready : BOOLEAN, retry : 0..MaxRetries]

Txns == [op : UserOps,
         writes : UNION {[rows -> UserStates] : rows \in SUBSET Job}]

\* A worker that is not idle has a job and what it loaded of it.
LEMMA BusyWorker ==
  ASSUME TypeOK, NEW w \in Worker, worker[w].pc # "idle"
  PROVE  worker[w] \in Busy
BY DEF TypeOK, IdleWorker, Busy

\* A user in a transaction has rows to write.
LEMMA OpenUser ==
  ASSUME TypeOK, NEW u \in User, txn[u].op # "none"
  PROVE  txn[u] \in Txns
BY DEF TypeOK, NoTxn, Txns

\* What a session writes is a state for each job of a set of jobs.
LEMMA WritesType ==
  ASSUME TypeOK, NEW u \in User, txn[u].op # "none"
  PROVE  /\ DOMAIN txn[u].writes \subseteq Job
         /\ \A j \in DOMAIN txn[u].writes : txn[u].writes[j] \in UserStates
<1>1. txn[u].writes \in UNION {[rows -> UserStates] : rows \in SUBSET Job}
  BY OpenUser DEF Txns
<1>2. PICK rows \in SUBSET Job : txn[u].writes \in [rows -> UserStates]
  BY <1>1
<1>3. QED
  BY <1>2

\* Marking snapshots stale keeps stale a set of jobs for every session.
LEMMA StaleType ==
  ASSUME stale \in [Session -> SUBSET Job], NEW rows \in SUBSET Job
  PROVE  /\ WroteAlone(rows) => stale' \in [Session -> SUBSET Job]
         /\ \A me : Wrote(me, rows) => stale' \in [Session -> SUBSET Job]
BY DEF WroteAlone, Wrote

\* The rows that an operation with a cascade writes.
LEMMA CascadeType ==
  ASSUME NEW j \in Job, NEW final \in UserStates, NEW after \in UserStates
  PROVE  Cascade(j, final, after) \in
           UNION {[rows -> UserStates] : rows \in SUBSET Job}
<1> DEFINE children == Dependents([state EXCEPT ![j] = final], j, final)
           f == [k \in {j} \cup children |-> IF k = j THEN final ELSE after]
<1>1. {j} \cup children \in SUBSET Job
  BY DEF Dependents
<1>2. f \in [{j} \cup children -> UserStates]
  OBVIOUS
<1> HIDE DEF children
<1>3. f \in UNION {[rows -> UserStates] : rows \in SUBSET Job}
  BY <1>1, <1>2
<1>4. QED
  BY <1>3 DEF Cascade, children

\* Applying rows to the table gives a table.
LEMMA ApplyType ==
  ASSUME state \in [Job -> RowStates],
         NEW writes, \A j \in DOMAIN writes \cap Job : writes[j] \in RowStates
  PROVE  Apply(writes) \in [Job -> RowStates]
BY DEF Apply

------------------------------------------------------------------------------
(* Type correctness                                                          *)

LEMMA TypeInit == Init => TypeOK
<1> SUFFICES ASSUME Init PROVE TypeOK
  OBVIOUS
<1> USE DEF Init
<1>1. state \in [Job -> RowStates]
  BY DEF PendingOrWait, RowStates, States
<1>2. retry \in [Job -> 0..MaxRetries]
  BY BoundAssumption
<1>3. sent \in [Job -> 0..MaxRequests]
  BY BoundAssumption
<1>4. QED
  BY <1>1, <1>2, <1>3 DEF TypeOK

\* The steps of the runner's connections.
LEMMA TypeRunner ==
  ASSUME TypeOK, NEW j \in Job, RunnerStep(j) \/ ClientStep(j) \/ Autovacuum(j)
  PROVE  TypeOK'
<1>0. PENDING \in RowStates /\ ENQUEUED \in RowStates /\ Absent \in RowStates
  BY DEF RowStates, States
<1>1. CASE Dispatch(j)
  BY <1>0, <1>1, StaleType, BoundAssumption
  DEF Dispatch, SetJobEnqueued, AsyncHttpGet, TypeOK
<1>2. CASE DispatchCrash(j)
  BY <1>0, <1>2, StaleType DEF DispatchCrash, SetJobEnqueued, TypeOK
<1>3. CASE ClientTimeout(j)
  BY <1>0, <1>3, StaleType DEF ClientTimeout, SetJobPending, TypeOK
<1>4. CASE RequestLost(j)
  BY <1>0, <1>4, StaleType, BoundAssumption DEF RequestLost, SetJobPending, TypeOK
<1>5. CASE Autovacuum(j)
  BY <1>0, <1>5, StaleType DEF Autovacuum, TypeOK
<1>6. QED
  BY <1>1, <1>2, <1>3, <1>4, <1>5 DEF RunnerStep, ClientStep

\* The last write of a worker.
LEMMA TypeStoreAndLeave ==
  ASSUME TypeOK, NEW w \in Worker, worker[w].pc # "idle",
         NEW s \in States, NEW r \in 0..MaxRetries, StoreAndLeave(w, s, r)
  PROVE  TypeOK'
<1>1. worker[w].job \in Job
  BY BusyWorker DEF Busy
<1>2. QED
  BY <1>1, StaleType DEF StoreAndLeave, TypeOK, RowStates

LEMMA NextRetryType ==
  ASSUME TypeOK, NEW w \in Worker, worker[w].pc # "idle"
  PROVE  NextRetry(w) \in 0..MaxRetries
BY BusyWorker, BoundAssumption DEF NextRetry, Busy

LEMMA TypeWorker ==
  ASSUME TypeOK, NEW w \in Worker, WorkerStep(w)
  PROVE  TypeOK'
<1>0. /\ PENDING \in States /\ WAIT_DEPENDENCIES \in States
      /\ STARTED \in States /\ DONE \in States /\ FAILED \in States
      /\ States \subseteq RowStates
  BY DEF RowStates, States
<1>1. ASSUME NEW j \in Job, RunJob(w, j) PROVE TypeOK'
  <2>1. sent' \in [Job -> 0..MaxRequests]
    BY <1>1, BoundAssumption DEF RunJob, Loaded, TypeOK
  <2>2. [pc |-> "started", job |-> j, ready |-> ParentsDone(j),
         retry |-> retry[j]] \in Busy
    BY DEF Busy, TypeOK, ParentsDone
  <2>3. worker' \in [Worker -> {IdleWorker} \cup Busy]
    BY <1>1, <2>2 DEF RunJob, Loaded, TypeOK, Busy
  <2>4. state' \in [Job -> RowStates]
    BY <1>0, <1>1 DEF RunJob, Loaded, TypeOK
  <2>5. stale' \in [Session -> SUBSET Job]
    BY <1>1, StaleType DEF RunJob, Loaded, TypeOK
  <2>6. QED
    BY <1>1, <2>1, <2>3, <2>4, <2>5 DEF RunJob, Loaded, TypeOK, Busy
<1>2. ASSUME NEW j \in Job, RefuseJob(w, j) PROVE TypeOK'
  BY <1>2, BoundAssumption DEF RefuseJob, TypeOK
<1>3. CASE BeginPerform(w)
  <2>1. [worker[w] EXCEPT !.pc = "performing"] \in Busy
    BY <1>3, BusyWorker DEF BeginPerform, Busy
  <2>2. worker' \in [Worker -> {IdleWorker} \cup Busy]
    BY <1>3, <2>1 DEF BeginPerform, TypeOK, Busy
  <2>3. QED
    BY <1>3, <2>2 DEF BeginPerform, TypeOK, Busy, Session
<1>4. CASE PerformDone(w)
  <2>0. worker[w] \in Busy
    BY <1>4, BusyWorker DEF PerformDone
  <2>1. worker[w].job \in Job /\ [worker[w] EXCEPT !.pc = "release"] \in Busy
    BY <2>0 DEF Busy
  <2>2. worker' \in [Worker -> {IdleWorker} \cup Busy]
    BY <1>4, <2>1 DEF PerformDone, TypeOK, Busy
  <2>3. NextRetry(w) \in 0..MaxRetries
    BY <1>4, NextRetryType DEF PerformDone
  <2>4. QED
    BY <1>0, <1>4, <2>1, <2>2, <2>3, StaleType DEF PerformDone, TypeOK, Busy
<1>5. ASSUME NEW r \in 0..MaxRetries, worker[w].pc = "performing", Postpone(w, r)
      PROVE  TypeOK'
  <2>1. PendingOrWait(worker[w].ready) \in States
    BY <1>0 DEF PendingOrWait
  <2>2. QED
    BY <1>5, <2>1, TypeStoreAndLeave DEF Postpone
<1>6. CASE PerformConflict(w)
  BY <1>5, <1>6, NextRetryType DEF PerformConflict
<1>7. CASE PerformRetry(w)
  <2>1. worker[w].retry \in 0..MaxRetries
    BY <1>7, BusyWorker DEF PerformRetry, Busy
  <2>2. QED
    BY <1>0, <1>5, <1>7, <2>1, NextRetryType, TypeStoreAndLeave DEF PerformRetry
<1>8. CASE PerformFail(w)
  BY <1>0, <1>8, NextRetryType, TypeStoreAndLeave DEF PerformFail
<1>9. CASE EnqueueDependents(w)
  <2> DEFINE children == Dependents(state, worker[w].job, DONE)
  <2>1. children \in SUBSET Job
    BY DEF Dependents
  <2> HIDE DEF children
  <2>2. state' \in [Job -> RowStates]
    BY <1>0, <1>9 DEF EnqueueDependents, TypeOK, Apply, children
  <2>3. stale' \in [Session -> SUBSET Job]
    BY <1>9, <2>1, StaleType DEF EnqueueDependents, TypeOK, children
  <2>4. QED
    BY <1>9, <2>2, <2>3 DEF EnqueueDependents, TypeOK
<1>10. CASE ReleaseFails(w)
  BY <1>10 DEF ReleaseFails, TypeOK, Session
<1>11. CASE WorkerCrash(w) \/ HandlerRaises(w)
  BY <1>11 DEF WorkerCrash, HandlerRaises, TypeOK, Session
<1>12. QED
  BY <1>1, <1>2, <1>3, <1>4, <1>6, <1>7, <1>8, <1>9, <1>10, <1>11 DEF WorkerStep

LEMMA TypeUser ==
  ASSUME TypeOK, NEW u \in User, UserStep(u)
  PROVE  TypeOK'
<1>0. /\ PENDING \in UserStates /\ WAIT_DEPENDENCIES \in UserStates
      /\ CANCELLED \in UserStates /\ DONE \in UserStates
      /\ UserStates \subseteq RowStates
  BY DEF RowStates, States, UserStates
<1>1. ASSUME NEW op, NEW writes, OpenTxn(u, op, writes),
             writes \in UNION {[rows -> UserStates] : rows \in SUBSET Job}
      PROVE  TypeOK'
  <2>1. [op |-> op, writes |-> writes] \in Txns
    BY <1>1 DEF OpenTxn, Txns
  <2>2. txn' \in [User -> {NoTxn} \cup Txns]
    BY <1>1, <2>1 DEF OpenTxn, TypeOK, Txns
  <2>3. QED
    BY <1>1, <2>2 DEF OpenTxn, TypeOK, Txns, Session
<1>2. ASSUME NEW j \in Job, OpenRequeue(u, j) PROVE TypeOK'
  <2>1. [k \in {j} |-> PendingOrWait(ParentsDone(j))] \in [{j} -> UserStates]
    BY <1>0 DEF PendingOrWait
  <2>2. [k \in {j} |-> PendingOrWait(ParentsDone(j))] \in
          UNION {[rows -> UserStates] : rows \in SUBSET Job}
    BY <2>1
  <2>3. QED
    BY <1>1, <1>2, <2>2 DEF OpenRequeue
<1>3. ASSUME NEW j \in Job, OpenDone(u, j) PROVE TypeOK'
  BY <1>0, <1>1, <1>3, CascadeType DEF OpenDone
<1>4. ASSUME NEW j \in Job, OpenCancel(u, j) PROVE TypeOK'
  BY <1>0, <1>1, <1>4, CascadeType DEF OpenCancel
<1>5. CASE Commit(u)
  <2>1. /\ DOMAIN txn[u].writes \in SUBSET Job
        /\ \A j \in DOMAIN txn[u].writes : txn[u].writes[j] \in UserStates
    BY <1>5, WritesType DEF Commit
  <2>2. state' \in [Job -> RowStates]
    BY <1>0, <1>5, <2>1, ApplyType DEF Commit, TypeOK
  <2>3. retry' \in [Job -> 0..MaxRetries]
    BY <1>5, BoundAssumption DEF Commit, TypeOK
  <2>4. stale' \in [Session -> SUBSET Job]
    BY <1>5, <2>1, StaleType DEF Commit, TypeOK
  <2>5. everDone' \subseteq Job
    BY <1>5, <2>1 DEF Commit, TypeOK
  <2>6. QED
    BY <1>5, <2>2, <2>3, <2>4, <2>5 DEF Commit, TypeOK
<1>6. CASE Abort(u)
  BY <1>6 DEF Abort, TypeOK, Session
<1>7. QED
  BY <1>2, <1>3, <1>4, <1>5, <1>6 DEF UserStep

LEMMA TypeStutter ==
  ASSUME TypeOK, ReadRows \/ UNCHANGED vars
  PROVE  TypeOK'
BY DEF ReadRows, vars, TypeOK

\* The table, the workers and the sessions always have values of their types:
\* in particular no worker or user writes a row that does not exist as a job.
THEOREM TypeCorrect == Spec => []TypeOK
<1>1. TypeOK /\ [Next]_vars => TypeOK'
  BY TypeRunner, TypeWorker, TypeUser, TypeStutter DEF Next
<1>2. QED
  BY <1>1, TypeInit, PTL DEF Spec

------------------------------------------------------------------------------
(* The inductive invariants                                                  *)

\* The names of the states are different strings.
USE DEF WAIT_DEPENDENCIES, PENDING, ENQUEUED, STARTED, DONE, CANCELLED, FAILED,
        Absent

\* A row that a transaction writes has the value written, other rows keep theirs.
LEMMA Applied ==
  ASSUME NEW writes, NEW j \in Job
  PROVE  Apply(writes)[j] = IF j \in DOMAIN writes THEN writes[j] ELSE state[j]
BY DEF Apply

\* Every row that a cascade writes exists; the children wait for dependencies.
LEMMA CascadeRows ==
  ASSUME TypeOK, NEW j \in Job, NEW final \in {DONE, CANCELLED}, NEW after,
         NEW k \in DOMAIN Cascade(j, final, after)
  PROVE  /\ k \in Job
         /\ k # j => /\ state[k] = WAIT_DEPENDENCIES
                     /\ Cascade(j, final, after)[k] = after
                     /\ \A p \in DependsOn[k] \cap Job :
                          p = j \/ state[p] \in {final, Absent}
         /\ Cascade(j, final, after)[j] = final
         /\ j \in DOMAIN Cascade(j, final, after)
<1> DEFINE children == Dependents([state EXCEPT ![j] = final], j, final)
<1>1. Cascade(j, final, after) =
        [i \in {j} \cup children |-> IF i = j THEN final ELSE after]
  BY DEF Cascade
<1>2. \A i \in children : /\ i \in Job
                          /\ i # j /\ state[i] = WAIT_DEPENDENCIES
                          /\ \A p \in DependsOn[i] \cap Job :
                               p = j \/ state[p] \in {final, Absent}
  BY DEF Dependents, TypeOK
<1> HIDE DEF children
<1>3. QED
  BY <1>1, <1>2

------------------------------------------------------------------------------
(* What no step undoes                                                       *)

\* A session that commits or crashes leaves deleted rows alone, and what was
\* done once is remembered.
LEMMA Monotone ==
  ASSUME TypeOK, RowsExist, [Next]_vars
  PROVE  /\ everDone \subseteq everDone'
         /\ \A j \in Job : state[j] = Absent => state'[j] = Absent
<1> DEFINE Goal == /\ everDone \subseteq everDone'
                   /\ \A j \in Job : state[j] = Absent => state'[j] = Absent
<1> USE DEF TypeOK
<1>1. ASSUME NEW j \in Job, RunnerStep(j) \/ ClientStep(j) \/ Autovacuum(j)
      PROVE  Goal
  BY <1>1 DEF RunnerStep, ClientStep, Dispatch, DispatchCrash, ClientTimeout,
     RequestLost, SetJobEnqueued, SetJobPending, Autovacuum
<1>2. ASSUME NEW w \in Worker, WorkerStep(w)
      PROVE  Goal
  <2>1. ASSUME NEW s, NEW r, worker[w].pc = "performing", StoreAndLeave(w, s, r)
        PROVE  Goal
    BY <2>1 DEF StoreAndLeave, RowsExist
  <2>2. CASE PerformDone(w)
    BY <2>2 DEF PerformDone, RowsExist
  <2>3. CASE EnqueueDependents(w)
    BY <2>3 DEF EnqueueDependents, Dependents, Apply
  <2>4. CASE \E j \in Job : RunJob(w, j) \/ RefuseJob(w, j)
    BY <2>4 DEF RunJob, Loaded, RefuseJob
  <2>5. CASE BeginPerform(w) \/ ReleaseFails(w) \/ WorkerCrash(w) \/ HandlerRaises(w)
    BY <2>5 DEF BeginPerform, ReleaseFails, WorkerCrash, HandlerRaises
  <2>6. QED
    BY <1>2, <2>1, <2>2, <2>3, <2>4, <2>5
    DEF WorkerStep, PerformConflict, PerformRetry, PerformFail, Postpone
<1>3. ASSUME NEW u \in User, UserStep(u)
      PROVE  Goal
  <2>1. CASE Commit(u)
    <3>1. \A j \in DOMAIN txn[u].writes : state[j] # Absent
      BY <2>1 DEF Commit, RowsExist
    <3>2. QED
      BY <2>1, <3>1, Applied DEF Commit
  <2>2. QED
    BY <1>3, <2>1
    DEF UserStep, OpenRequeue, OpenDone, OpenCancel, OpenTxn, Abort
<1>4. CASE ReadRows \/ UNCHANGED vars
  BY <1>4 DEF ReadRows, vars
<1>5. QED
  BY <1>1, <1>2, <1>3, <1>4 DEF Next

LEMMA SettledStays ==
  ASSUME TypeOK, RowsExist, [Next]_vars
  PROVE  /\ \A j \in Job : Settled(j) => Settled(j)'
         /\ \A j \in Job : \A writes : SettledWith(j, writes) => SettledWith(j, writes)'
BY Monotone, GraphAssumption DEF Settled, SettledWith

------------------------------------------------------------------------------
(* What a step does to the sessions                                          *)

\* A transaction that stays open knows every row that changed under it.
LEMMA Snapshots ==
  ASSUME TypeOK, [Next]_vars, NEW u \in User, txn'[u].op # "none"
  PROVE  \/ /\ txn'[u] = txn[u]
            /\ stale[u] \subseteq stale'[u]
            /\ \A j \in Job : state'[j] # state[j] => j \in stale'[u]
         \/ \E j \in Job : OpenRequeue(u, j) \/ OpenDone(u, j) \/ OpenCancel(u, j)
<1> DEFINE Kept == /\ txn'[u] = txn[u]
                   /\ stale[u] \subseteq stale'[u]
                   /\ \A j \in Job : state'[j] # state[j] => j \in stale'[u]
<1> USE UserAssumption DEF TypeOK, HasSnapshot, Session, Wrote, WroteAlone
<1>1. ASSUME NEW j \in Job, RunnerStep(j) \/ ClientStep(j) \/ Autovacuum(j)
      PROVE  Kept
  BY <1>1 DEF RunnerStep, ClientStep, Dispatch, DispatchCrash, ClientTimeout,
     RequestLost, SetJobEnqueued, SetJobPending, Autovacuum
<1>2. ASSUME NEW w \in Worker, WorkerStep(w)
      PROVE  Kept
  <2>1. ASSUME NEW s, NEW r, StoreAndLeave(w, s, r)
        PROVE  Kept
    BY <2>1 DEF StoreAndLeave
  <2>2. CASE PerformDone(w)
    BY <2>2 DEF PerformDone
  <2>3. CASE EnqueueDependents(w)
    <3> DEFINE children == Dependents(state, worker[w].job, DONE)
    <3>1. \A j \in Job : state'[j] # state[j] => j \in children
      BY <2>3, Applied DEF EnqueueDependents
    <3>2. txn' = txn /\ Wrote(w, children)
      BY <2>3 DEF EnqueueDependents
    <3> HIDE DEF children
    <3>3. QED
      BY <3>1, <3>2
  <2>4. CASE \E j \in Job : RunJob(w, j) \/ RefuseJob(w, j)
    BY <2>4 DEF RunJob, Loaded, RefuseJob
  <2>5. CASE BeginPerform(w) \/ ReleaseFails(w) \/ WorkerCrash(w) \/ HandlerRaises(w)
    BY <2>5 DEF BeginPerform, ReleaseFails, WorkerCrash, HandlerRaises
  <2>6. QED
    BY <1>2, <2>1, <2>2, <2>3, <2>4, <2>5
    DEF WorkerStep, PerformConflict, PerformRetry, PerformFail, Postpone
<1>3. ASSUME NEW v \in User, UserStep(v),
             ~ \E j \in Job : OpenRequeue(u, j) \/ OpenDone(u, j) \/ OpenCancel(u, j)
      PROVE  Kept
  <2>1. CASE Commit(v)
    <3>1. \A j \in Job : state'[j] # state[j] => j \in DOMAIN txn[v].writes
      BY <2>1, Applied DEF Commit
    <3>2. u # v
      BY <2>1 DEF Commit, NoTxn
    <3>3. QED
      BY <2>1, <3>1, <3>2 DEF Commit
  <2>2. CASE Abort(v)
    BY <2>2 DEF Abort, NoTxn
  <2>3. CASE u # v
    BY <1>3, <2>1, <2>2, <2>3
    DEF UserStep, OpenRequeue, OpenDone, OpenCancel, OpenTxn
  <2>4. QED
    BY <1>3, <2>1, <2>2, <2>3 DEF UserStep
<1>4. CASE ReadRows \/ UNCHANGED vars
  BY <1>4 DEF ReadRows, vars
<1>5. QED
  BY <1>1, <1>2, <1>3, <1>4 DEF Next

\* A worker that has a job had it before, or RunJob has just given it one.
LEMMA WorkerKeepsJob ==
  ASSUME TypeOK, [Next]_vars, NEW w \in Worker, worker'[w].pc # "idle"
  PROVE  \/ worker[w].pc # "idle" /\ worker'[w].job = worker[w].job
         \/ \E j \in Job : RunJob(w, j) /\ worker'[w].job = j
<1> DEFINE Kept == worker[w].pc # "idle" /\ worker'[w].job = worker[w].job
<1> USE DEF TypeOK
<1>1. ASSUME NEW j \in Job, RunnerStep(j) \/ ClientStep(j) \/ Autovacuum(j)
      PROVE  Kept
  <2>1. worker' = worker
    BY <1>1 DEF RunnerStep, ClientStep, Dispatch, DispatchCrash, ClientTimeout,
       RequestLost, Autovacuum
  <2>2. QED
    BY <2>1
<1>2. ASSUME NEW v \in Worker, WorkerStep(v), ~ \E j \in Job : RunJob(w, j)
      PROVE  Kept
  <2>1. ASSUME NEW s, NEW r, StoreAndLeave(v, s, r)
        PROVE  Kept
    BY <2>1 DEF StoreAndLeave, IdleWorker
  <2>2. CASE PerformDone(v)
    BY <2>2 DEF PerformDone
  <2>3. CASE EnqueueDependents(v) \/ ReleaseFails(v) \/ WorkerCrash(v) \/ HandlerRaises(v)
    BY <2>3 DEF EnqueueDependents, ReleaseFails, WorkerCrash, HandlerRaises, IdleWorker
  <2>4. CASE \E j \in Job : RunJob(v, j) \/ RefuseJob(v, j)
    BY <1>2, <2>4 DEF RunJob, Loaded, RefuseJob
  <2>5. CASE BeginPerform(v)
    BY <2>5 DEF BeginPerform
  <2>6. QED
    BY <1>2, <2>1, <2>2, <2>3, <2>4, <2>5
    DEF WorkerStep, PerformConflict, PerformRetry, PerformFail, Postpone
<1>3. ASSUME NEW v \in User, UserStep(v)
      PROVE  Kept
  <2>1. worker' = worker
    BY <1>3 DEF UserStep, OpenRequeue, OpenDone, OpenCancel, OpenTxn, Commit, Abort
  <2>2. QED
    BY <2>1
<1>4. CASE ReadRows \/ UNCHANGED vars
  BY <1>4 DEF ReadRows, vars
<1>5. ASSUME NEW j \in Job, RunJob(w, j)
      PROVE  worker'[w].job = j
  BY <1>5 DEF RunJob, Loaded
<1>6. QED
  BY <1>1, <1>2, <1>3, <1>4, <1>5 DEF Next

\* What the runner believes to be PENDING it believed before or has just read.
LEMMA Offers ==
  ASSUME TypeOK, [Next]_vars
  PROVE  \/ offered' \subseteq offered
         \/ /\ \A j \in offered' : j \in offered \/ (j \in Job /\ state[j] = PENDING)
            /\ state' = state
<1>1. ASSUME NEW j \in Job, RunnerStep(j) \/ ClientStep(j) \/ Autovacuum(j)
      PROVE  offered' \subseteq offered
  BY <1>1 DEF RunnerStep, ClientStep, Dispatch, DispatchCrash, ClientTimeout,
     RequestLost, Autovacuum
<1>2. ASSUME NEW w \in Worker, WorkerStep(w)
      PROVE  offered' = offered
  BY <1>2 DEF WorkerStep, RunJob, Loaded, RefuseJob, BeginPerform, PerformDone,
     PerformConflict, PerformRetry, PerformFail, Postpone, StoreAndLeave,
     EnqueueDependents, ReleaseFails, WorkerCrash, HandlerRaises
<1>3. ASSUME NEW u \in User, UserStep(u)
      PROVE  offered' = offered
  BY <1>3 DEF UserStep, OpenRequeue, OpenDone, OpenCancel, OpenTxn, Commit, Abort
<1>4. CASE ReadRows
  BY <1>4 DEF ReadRows
<1>5. CASE UNCHANGED vars
  BY <1>5 DEF vars
<1>6. QED
  BY <1>1, <1>2, <1>3, <1>4, <1>5 DEF Next

\* A row disappears only by the autovacuum, when no worker is on the job.
LEMMA Deleted ==
  ASSUME TypeOK, [Next]_vars, NEW j \in Job, state'[j] = Absent, state[j] # Absent
  PROVE  worker' = worker /\ \A w \in Worker : ~IsOn(w, j)
<1> DEFINE Goal == worker' = worker /\ \A w \in Worker : ~IsOn(w, j)
<1> USE DEF TypeOK
<1>1. ASSUME NEW i \in Job, RunnerStep(i) \/ ClientStep(i) \/ Autovacuum(i)
      PROVE  Goal
  BY <1>1 DEF RunnerStep, ClientStep, Dispatch, DispatchCrash, ClientTimeout,
     RequestLost, SetJobEnqueued, SetJobPending, Autovacuum
<1>2. ASSUME NEW w \in Worker, WorkerStep(w)
      PROVE  Goal
  <2>1. ASSUME NEW s, NEW r, s # Absent, StoreAndLeave(w, s, r)
        PROVE  Goal
    BY <2>1 DEF StoreAndLeave
  <2>2. CASE PerformDone(w)
    BY <2>2 DEF PerformDone
  <2>3. CASE EnqueueDependents(w)
    BY <2>3, Applied DEF EnqueueDependents
  <2>4. CASE \E i \in Job : RunJob(w, i) \/ RefuseJob(w, i)
    BY <2>4 DEF RunJob, Loaded, RefuseJob
  <2>5. CASE BeginPerform(w) \/ ReleaseFails(w) \/ WorkerCrash(w) \/ HandlerRaises(w)
    BY <2>5 DEF BeginPerform, ReleaseFails, WorkerCrash, HandlerRaises
  <2>6. QED
    BY <1>2, <2>1, <2>2, <2>3, <2>4, <2>5
    DEF WorkerStep, PerformConflict, PerformRetry, PerformFail, Postpone,
        PendingOrWait
<1>3. ASSUME NEW u \in User, UserStep(u)
      PROVE  Goal
  <2>1. CASE Commit(u)
    <3>1. \A i \in DOMAIN txn[u].writes : txn[u].writes[i] # Absent
      BY <2>1, WritesType DEF Commit, UserStates
    <3>2. QED
      BY <2>1, <3>1, Applied DEF Commit
  <2>2. QED
    BY <1>3, <2>1
    DEF UserStep, OpenRequeue, OpenDone, OpenCancel, OpenTxn, Abort
<1>4. CASE ReadRows \/ UNCHANGED vars
  BY <1>4 DEF ReadRows, vars
<1>5. QED
  BY <1>1, <1>2, <1>3, <1>4 DEF Next

------------------------------------------------------------------------------
(* The order of the jobs of a graph                                          *)

LEMMA ParentsInit == Init => ParentsInv
<1> SUFFICES ASSUME Init PROVE ParentsInv
  OBVIOUS
<1>1. RowsExist /\ WorkersSettled /\ WritesSettled /\ OfferedSettled
  BY DEF Init, RowsExist, WorkersSettled, WritesSettled, OfferedSettled,
         IdleWorker, NoTxn
<1>2. DoneIsRemembered
  BY DEF Init, DoneIsRemembered, PendingOrWait
<1>3. ParentsFirst
  BY DEF Init, ParentsFirst, Settled, PendingOrWait
<1>4. QED
  BY <1>1, <1>2, <1>3 DEF ParentsInv

\* What a user's transaction writes when it is opened.
LEMMA OpenedWrites ==
  ASSUME TypeOK, DoneIsRemembered, NEW u \in User, NEW j \in Job,
         OpenRequeue(u, j) \/ OpenDone(u, j) \/ OpenCancel(u, j)
  PROVE  /\ state' = state /\ everDone' = everDone
         /\ \A k \in DOMAIN txn'[u].writes :
              /\ k \in Job /\ state[k] # Absent
              /\ k = j \/ state[k] = WAIT_DEPENDENCIES
              /\ \/ txn'[u].writes[k] \in {WAIT_DEPENDENCIES, DONE, CANCELLED}
                 \/ SettledWith(k, txn'[u].writes)
<1> USE DEF TypeOK
<1>1. CASE OpenRequeue(u, j)
  <2>1. txn'[u].writes = [k \in {j} |-> PendingOrWait(ParentsDone(j))]
    BY <1>1 DEF OpenRequeue, OpenTxn
  <2>2. state[j] # Absent
    BY <1>1, UserAssumption DEF OpenRequeue, States
  <2>3. ParentsDone(j) => SettledWith(j, txn'[u].writes)
    BY GraphAssumption DEF ParentsDone, SettledWith, DoneIsRemembered
  <2>4. QED
    BY <1>1, <2>1, <2>2, <2>3 DEF OpenRequeue, OpenTxn, PendingOrWait
<1>2. CASE OpenDone(u, j)
  <2> DEFINE writes == Cascade(j, DONE, PENDING)
  <2>1. txn'[u].writes = writes
    BY <1>2 DEF OpenDone, OpenTxn
  <2>2. state[j] # Absent
    BY <1>2, UserAssumption DEF OpenDone, States
  <2>3. ASSUME NEW k \in DOMAIN writes
        PROVE  /\ k \in Job /\ state[k] # Absent
               /\ k = j \/ state[k] = WAIT_DEPENDENCIES
               /\ k = j \/ SettledWith(k, writes)
    BY <2>2, <2>3, CascadeRows, GraphAssumption DEF SettledWith, DoneIsRemembered
  <2>4. j \in DOMAIN writes => writes[j] = DONE
    BY CascadeRows
  <2> HIDE DEF writes
  <2>5. QED
    BY <1>2, <2>1, <2>3, <2>4 DEF OpenDone, OpenTxn
<1>3. CASE OpenCancel(u, j)
  <2>1. txn'[u].writes = Cascade(j, CANCELLED, CANCELLED)
    BY <1>3 DEF OpenCancel, OpenTxn
  <2>2. state[j] # Absent /\ state' = state /\ everDone' = everDone
    BY <1>3 DEF OpenCancel, OpenTxn
  <2>3. ASSUME NEW k \in DOMAIN txn'[u].writes
        PROVE  /\ k \in Job /\ txn'[u].writes[k] = CANCELLED
               /\ k = j \/ state[k] = WAIT_DEPENDENCIES
    BY <2>1, <2>3, CascadeRows
  <2>4. \A k \in DOMAIN txn'[u].writes :
          k \in Job /\ state[k] # Absent /\ txn'[u].writes[k] = CANCELLED
    BY <2>2, <2>3
  <2>5. QED
    BY <2>2, <2>3, <2>4
<1>4. QED
  BY <1>1, <1>2, <1>3

\* No worker or open transaction refers to a row that was deleted.
LEMMA RowsExistKept ==
  ASSUME TypeOK, RowsExist, DoneIsRemembered, [Next]_vars
  PROVE  RowsExist'
<1>1. ASSUME NEW w \in Worker, worker'[w].pc # "idle"
      PROVE  state'[worker'[w].job] # Absent
  <2>1. CASE worker[w].pc # "idle" /\ worker'[w].job = worker[w].job
    <3>1. worker[w].job \in Job
      BY <2>1, BusyWorker DEF Busy
    <3>2. QED
      BY <2>1, <3>1, Deleted DEF RowsExist, IsOn
  <2>2. ASSUME NEW j \in Job, RunJob(w, j), worker'[w].job = j
        PROVE  state'[j] # Absent
    BY <2>2 DEF RunJob, Loaded, TypeOK
  <2>3. QED
    BY <1>1, <2>1, <2>2, WorkerKeepsJob
<1>2. ASSUME NEW u \in User, txn'[u].op # "none",
             NEW j \in DOMAIN txn'[u].writes \ stale'[u]
      PROVE  state'[j] # Absent
  <2>1. CASE \E i \in Job : OpenRequeue(u, i) \/ OpenDone(u, i) \/ OpenCancel(u, i)
    BY <2>1, OpenedWrites
  <2>2. CASE /\ txn'[u] = txn[u]
             /\ stale[u] \subseteq stale'[u]
             /\ \A i \in Job : state'[i] # state[i] => i \in stale'[u]
    BY <1>2, <2>2, WritesType DEF RowsExist
  <2>3. QED
    BY <1>2, <2>1, <2>2, Snapshots
<1>3. QED
  BY <1>1, <1>2 DEF RowsExist

Runnable == {PENDING, ENQUEUED, STARTED, FAILED}

\* No step makes a job DONE without remembering it, nor offers a job to the
\* runner that is not settled.
LEMMA RowsKept ==
  ASSUME TypeOK, ParentsInv, [Next]_vars
  PROVE  DoneIsRemembered' /\ ParentsFirst'
<1> SUFFICES ASSUME NEW j \in Job
             PROVE  /\ state'[j] = DONE => j \in everDone'
                    /\ state'[j] \in Runnable => Settled(j)'
  BY DEF DoneIsRemembered, ParentsFirst, Runnable
<1> DEFINE Goal == /\ state'[j] = DONE => j \in everDone'
                   /\ state'[j] \in Runnable => Settled(j)'
<1>0. /\ everDone \subseteq everDone'
      /\ Settled(j) => Settled(j)'
      /\ state[j] = DONE => j \in everDone
      /\ state[j] \in Runnable => Settled(j)
      /\ state \in [Job -> RowStates]
  BY Monotone, SettledStays
  DEF ParentsInv, DoneIsRemembered, ParentsFirst, Runnable, TypeOK
<1>1. ASSUME state'[j] = state[j] \/ (Settled(j) /\ state'[j] # DONE)
      PROVE  Goal
  BY <1>0, <1>1
<1>2. ASSUME NEW i \in Job, RunnerStep(i) \/ ClientStep(i) \/ Autovacuum(i)
      PROVE  Goal
  <2>1. i \in offered => Settled(i)
    BY DEF ParentsInv, OfferedSettled
  <2>2. QED
    BY <1>0, <1>1, <1>2, <2>1
    DEF RunnerStep, ClientStep, Dispatch, DispatchCrash, ClientTimeout,
        RequestLost, SetJobEnqueued, SetJobPending, Autovacuum, Runnable
<1>3. ASSUME NEW w \in Worker, WorkerStep(w)
      PROVE  Goal
  <2>0. worker[w].pc # "idle" => worker[w].job \in Job /\ Settled(worker[w].job)
    BY BusyWorker DEF Busy, ParentsInv, WorkersSettled
  <2>1. ASSUME NEW s, NEW r, worker[w].pc = "performing", s # DONE,
               StoreAndLeave(w, s, r)
        PROVE  Goal
    BY <1>0, <1>1, <2>0, <2>1 DEF StoreAndLeave
  <2>2. CASE PerformDone(w)
    BY <1>0, <1>1, <2>0, <2>2 DEF PerformDone, Runnable
  <2>3. CASE EnqueueDependents(w)
    <3> DEFINE children == Dependents(state, worker[w].job, DONE)
    <3>1. state'[j] = state[j] \/ (j \in children /\ state'[j] = PENDING)
      BY <2>3, Applied DEF EnqueueDependents
    <3>2. j \in children => Settled(j)
      BY GraphAssumption DEF Dependents, Settled, ParentsInv, DoneIsRemembered
    <3> HIDE DEF children
    <3>3. QED
      BY <1>0, <1>1, <3>1, <3>2
  <2>4. CASE \E i \in Job : RunJob(w, i) \/ RefuseJob(w, i)
    BY <1>0, <1>1, <2>4 DEF RunJob, Loaded, RefuseJob, Runnable
  <2>5. CASE BeginPerform(w) \/ ReleaseFails(w) \/ WorkerCrash(w) \/ HandlerRaises(w)
    BY <1>0, <1>1, <2>5 DEF BeginPerform, ReleaseFails, WorkerCrash, HandlerRaises
  <2>6. QED
    BY <1>3, <2>1, <2>2, <2>3, <2>4, <2>5
    DEF WorkerStep, PerformConflict, PerformRetry, PerformFail, Postpone,
        PendingOrWait
<1>4. ASSUME NEW u \in User, UserStep(u)
      PROVE  Goal
  <2>1. CASE Commit(u)
    <3>1. state'[j] = IF j \in DOMAIN txn[u].writes THEN txn[u].writes[j]
                      ELSE state[j]
      BY <2>1, Applied DEF Commit
    <3>2. CASE j \in DOMAIN txn[u].writes /\ txn[u].writes[j] = DONE
      BY <2>1, <3>1, <3>2 DEF Commit, Runnable
    <3>3. CASE j \in DOMAIN txn[u].writes /\ SettledWith(j, txn[u].writes)
      <4>1. \A p \in DependsOn[j] : p \in everDone' \/ state'[p] = Absent
        <5>1. \A p \in DependsOn[j] :
                p \in DOMAIN txn[u].writes /\ txn[u].writes[p] = DONE
                => p \in everDone'
          BY <2>1 DEF Commit
        <5>2. QED
          BY <3>3, <5>1, Monotone, GraphAssumption DEF SettledWith, ParentsInv
      <4>2. QED
        BY <2>1, <3>1, <4>1, <3>2, <3>3 DEF Settled
    <3>4. QED
      BY <1>0, <1>1, <2>1, <3>1, <3>2, <3>3
      DEF Commit, ParentsInv, WritesSettled, Runnable
  <2>2. QED
    BY <1>0, <1>1, <1>4, <2>1
    DEF UserStep, OpenRequeue, OpenDone, OpenCancel, OpenTxn, Abort
<1>5. CASE ReadRows \/ UNCHANGED vars
  BY <1>0, <1>1, <1>5 DEF ReadRows, vars
<1>6. QED
  BY <1>2, <1>3, <1>4, <1>5 DEF Next

\* What sessions hold stays justified, and RunJob takes settled jobs only.
LEMMA SessionsKept ==
  ASSUME TypeOK, ParentsInv, [Next]_vars
  PROVE  WorkersSettled' /\ WritesSettled' /\ OfferedSettled'
<1>1. ASSUME NEW w \in Worker, worker'[w].pc # "idle"
      PROVE  Settled(worker[w].job)'
  <2>1. CASE worker[w].pc # "idle" /\ worker'[w].job = worker[w].job
    <3>1. worker[w].job \in Job /\ Settled(worker[w].job)
      BY <2>1, BusyWorker DEF Busy, ParentsInv, WorkersSettled
    <3>2. QED
      BY <2>1, <3>1, SettledStays DEF ParentsInv, Settled
  <2>2. ASSUME NEW j \in Job, RunJob(w, j), worker'[w].job = j
        PROVE  Settled(worker[w].job)'
    BY <2>2, SettledStays DEF RunJob, Loaded, ParentsInv, ParentsFirst, Settled
  <2>3. QED
    BY <1>1, <2>1, <2>2, WorkerKeepsJob
<1>2. ASSUME NEW u \in User, txn'[u].op # "none", NEW j \in DOMAIN txn'[u].writes
      PROVE  \/ txn'[u].writes[j] \in {WAIT_DEPENDENCIES, DONE, CANCELLED}
             \/ SettledWith(j, txn[u].writes)'
  <2>1. ASSUME NEW i \in Job, OpenRequeue(u, i) \/ OpenDone(u, i) \/ OpenCancel(u, i)
        PROVE  \/ txn'[u].writes[j] \in {WAIT_DEPENDENCIES, DONE, CANCELLED}
               \/ SettledWith(j, txn[u].writes)'
    BY <1>2, <2>1, OpenedWrites DEF ParentsInv, SettledWith
  <2>2. CASE txn'[u] = txn[u]
    BY <1>2, <2>2, SettledStays, WritesType
    DEF ParentsInv, WritesSettled, SettledWith
  <2>3. QED
    BY <1>2, <2>1, <2>2, Snapshots
<1>3. ASSUME NEW j \in offered'
      PROVE  Settled(j)'
  <2>1. j \in Job /\ (j \in offered \/ state[j] = PENDING)
    BY <1>3, Offers DEF TypeOK
  <2>2. Settled(j)
    BY <2>1 DEF ParentsInv, OfferedSettled, ParentsFirst
  <2>3. QED
    BY <2>1, <2>2, SettledStays DEF ParentsInv
<1>4. QED
  BY <1>1, <1>2, <1>3 DEF WorkersSettled, WritesSettled, OfferedSettled

\* The order of the jobs of a graph holds for every graph, and whatever users,
\* crons, time-outs and crashes do: a job is pending, enqueued, started or
\* failed only when each of its parents has been done or deleted.
THEOREM ParentsAreFirst == Spec => []ParentsFirst
<1>1. TypeOK /\ ParentsInv /\ [Next]_vars => ParentsInv'
  BY RowsExistKept, RowsKept, SessionsKept DEF ParentsInv
<1>2. ParentsInv => ParentsFirst
  BY DEF ParentsInv
<1>3. QED
  BY <1>1, <1>2, ParentsInit, TypeCorrect, PTL DEF Spec

------------------------------------------------------------------------------
(* One worker on a job                                                       *)

LEMMA ExecutionInit == Init => ExecutionInv
BY DEF Init, ExecutionInv, SingleExecution, ExecutingIsStarted, CommitsAreSafe,
       OfferedNotTaken, Executes, IdleWorker, NoTxn

\* A worker that executes a job did so before, or RunJob has just begun it.
LEMMA StillExecutes ==
  ASSUME TypeOK, [Next]_vars, NEW w \in Worker, NEW j \in Job, Executes(w, j)'
  PROVE  Executes(w, j) \/ RunJob(w, j)
<1> USE DEF TypeOK, Executes
<1>1. ASSUME NEW i \in Job, RunnerStep(i) \/ ClientStep(i) \/ Autovacuum(i)
      PROVE  Executes(w, j)
  BY <1>1 DEF RunnerStep, ClientStep, Dispatch, DispatchCrash, ClientTimeout,
     RequestLost, Autovacuum
<1>2. ASSUME NEW v \in Worker, WorkerStep(v)
      PROVE  Executes(w, j) \/ RunJob(w, j)
  <2>1. ASSUME NEW s, NEW r, StoreAndLeave(v, s, r)
        PROVE  Executes(w, j)
    BY <2>1 DEF StoreAndLeave, IdleWorker
  <2>2. CASE PerformDone(v)
    BY <2>2 DEF PerformDone
  <2>3. CASE EnqueueDependents(v) \/ ReleaseFails(v) \/ WorkerCrash(v) \/ HandlerRaises(v)
    BY <2>3 DEF EnqueueDependents, ReleaseFails, WorkerCrash, HandlerRaises, IdleWorker
  <2>4. ASSUME NEW i \in Job, RunJob(v, i) \/ RefuseJob(v, i)
        PROVE  Executes(w, j) \/ RunJob(w, j)
    <3>1. CASE RefuseJob(v, i) \/ v # w
      BY <2>4, <3>1 DEF RunJob, Loaded, RefuseJob
    <3>2. CASE RunJob(v, i) /\ v = w
      <4>1. i = j
        BY <3>2 DEF RunJob, Loaded
      <4>2. QED
        BY <3>2, <4>1
    <3>3. QED
      BY <2>4, <3>1, <3>2
  <2>5. CASE BeginPerform(v)
    BY <2>5 DEF BeginPerform
  <2>6. QED
    BY <1>2, <2>1, <2>2, <2>3, <2>4, <2>5
    DEF WorkerStep, PerformConflict, PerformRetry, PerformFail, Postpone
<1>3. ASSUME NEW v \in User, UserStep(v)
      PROVE  Executes(w, j)
  BY <1>3 DEF UserStep, OpenRequeue, OpenDone, OpenCancel, OpenTxn, Commit, Abort
<1>4. CASE ReadRows \/ UNCHANGED vars
  BY <1>4 DEF ReadRows, vars
<1>5. QED
  BY <1>1, <1>2, <1>3, <1>4 DEF Next

\* Nobody else writes the row of a job while a worker executes it.
LEMMA RowUntouched ==
  ASSUME TypeOK, ExecutionInv, [Next]_vars,
         NEW w \in Worker, NEW j \in Job, Executes(w, j), Executes(w, j)'
  PROVE  state'[j] = STARTED
<1>0. state[j] = STARTED /\ j \notin offered
  BY DEF ExecutionInv, ExecutingIsStarted, OfferedNotTaken
<1> USE DEF TypeOK
<1>1. ASSUME NEW i \in Job, RunnerStep(i) \/ ClientStep(i) \/ Autovacuum(i)
      PROVE  state'[j] = STARTED
  BY <1>0, <1>1
  DEF RunnerStep, ClientStep, Dispatch, DispatchCrash, ClientTimeout,
      RequestLost, SetJobEnqueued, SetJobPending, Autovacuum
<1>2. ASSUME NEW v \in Worker, WorkerStep(v)
      PROVE  state'[j] = STARTED
  <2>1. ASSUME worker[v].pc = "performing", worker[v].job = j
        PROVE  v = w
    BY <2>1 DEF ExecutionInv, SingleExecution, Executes
  <2>2. ASSUME NEW s, NEW r, worker[v].pc = "performing", StoreAndLeave(v, s, r)
        PROVE  state'[j] = STARTED
    BY <1>0, <2>1, <2>2 DEF StoreAndLeave, Executes, IdleWorker
  <2>3. CASE PerformDone(v)
    <3>1. worker'[v].pc = "release"
      BY <2>3 DEF PerformDone
    <3>2. worker[v].job # j
      BY <2>1, <2>3, <3>1 DEF PerformDone, Executes
    <3>3. QED
      BY <1>0, <2>3, <3>2 DEF PerformDone
  <2>4. CASE EnqueueDependents(v)
    <3>1. j \notin Dependents(state, worker[v].job, DONE)
      BY <1>0 DEF Dependents
    <3>2. QED
      BY <1>0, <2>4, <3>1, Applied DEF EnqueueDependents
  <2>5. CASE \E i \in Job : RunJob(v, i) \/ RefuseJob(v, i)
    BY <1>0, <2>5 DEF RunJob, Loaded, RefuseJob
  <2>6. CASE BeginPerform(v) \/ ReleaseFails(v) \/ WorkerCrash(v) \/ HandlerRaises(v)
    BY <1>0, <2>6 DEF BeginPerform, ReleaseFails, WorkerCrash, HandlerRaises
  <2>7. QED
    BY <1>2, <2>2, <2>3, <2>4, <2>5, <2>6
    DEF WorkerStep, PerformConflict, PerformRetry, PerformFail, Postpone
<1>3. ASSUME NEW u \in User, UserStep(u)
      PROVE  state'[j] = STARTED
  <2>1. CASE Commit(u)
    <3>1. j \notin DOMAIN txn[u].writes
      BY <2>1 DEF Commit, ExecutionInv, CommitsAreSafe
    <3>2. QED
      BY <1>0, <2>1, <3>1, Applied DEF Commit
  <2>2. QED
    BY <1>0, <1>3, <2>1
    DEF UserStep, OpenRequeue, OpenDone, OpenCancel, OpenTxn, Abort
<1>4. CASE ReadRows \/ UNCHANGED vars
  BY <1>0, <1>4 DEF ReadRows, vars
<1>5. QED
  BY <1>1, <1>2, <1>3, <1>4 DEF Next

\* A job that the runner believes to be PENDING is neither ENQUEUED nor STARTED:
\* only the runner enqueues, and it forgets the job as it does.
LEMMA OfferedKept ==
  ASSUME TypeOK, OfferedNotTaken, [Next]_vars
  PROVE  OfferedNotTaken'
<1> SUFFICES ASSUME NEW j \in offered'
             PROVE  state'[j] \notin {ENQUEUED, STARTED}
  BY DEF OfferedNotTaken
<1>0. j \in Job
  BY Offers DEF TypeOK
<1> DEFINE Goal == state'[j] \notin {ENQUEUED, STARTED}
<1>1. CASE state'[j] = state[j]
  BY <1>1, Offers DEF OfferedNotTaken
<1> USE DEF TypeOK
<1>2. ASSUME NEW i \in Job, RunnerStep(i) \/ ClientStep(i) \/ Autovacuum(i)
      PROVE  Goal
  BY <1>0, <1>1, <1>2
  DEF RunnerStep, ClientStep, Dispatch, DispatchCrash, ClientTimeout,
      RequestLost, SetJobEnqueued, SetJobPending, Autovacuum
<1>3. ASSUME NEW w \in Worker, WorkerStep(w)
      PROVE  Goal
  <2>1. ASSUME NEW s, NEW r, s \notin {ENQUEUED, STARTED}, StoreAndLeave(w, s, r)
        PROVE  Goal
    BY <1>0, <1>1, <2>1 DEF StoreAndLeave
  <2>2. CASE PerformDone(w)
    BY <1>0, <1>1, <2>2 DEF PerformDone
  <2>3. CASE EnqueueDependents(w)
    BY <1>0, <1>1, <2>3, Applied DEF EnqueueDependents
  <2>4. ASSUME NEW i \in Job, RunJob(w, i) \/ RefuseJob(w, i)
        PROVE  Goal
    BY <1>0, <1>1, <2>4 DEF RunJob, Loaded, RefuseJob, OfferedNotTaken
  <2>5. CASE BeginPerform(w) \/ ReleaseFails(w) \/ WorkerCrash(w) \/ HandlerRaises(w)
    BY <1>1, <2>5 DEF BeginPerform, ReleaseFails, WorkerCrash, HandlerRaises
  <2>6. QED
    BY <1>3, <2>1, <2>2, <2>3, <2>4, <2>5
    DEF WorkerStep, PerformConflict, PerformRetry, PerformFail, Postpone,
        PendingOrWait
<1>4. ASSUME NEW u \in User, UserStep(u)
      PROVE  Goal
  <2>1. CASE Commit(u)
    <3>1. \A i \in DOMAIN txn[u].writes :
            txn[u].writes[i] \notin {ENQUEUED, STARTED}
      BY <2>1, WritesType DEF Commit, UserStates
    <3>2. QED
      BY <1>0, <1>1, <2>1, <3>1, Applied DEF Commit
  <2>2. QED
    BY <1>1, <1>4, <2>1
    DEF UserStep, OpenRequeue, OpenDone, OpenCancel, OpenTxn, Abort
<1>5. CASE ReadRows \/ UNCHANGED vars
  BY <1>1, <1>5 DEF ReadRows, vars
<1>6. QED
  BY <1>2, <1>3, <1>4, <1>5 DEF Next

LEMMA ExecutionKept ==
  ASSUME HandsOff, TypeOK, ParentsInv, ExecutionInv, [Next]_vars
  PROVE  ExecutionInv'
<1>1. ASSUME NEW w \in Worker, NEW j \in Job, Executes(w, j)'
      PROVE  state'[j] = STARTED
  <2>1. CASE RunJob(w, j)
    BY <2>1 DEF RunJob, Loaded, TypeOK
  <2>2. QED
    BY <1>1, <2>1, StillExecutes, RowUntouched
<1>2. ASSUME NEW v \in Worker, NEW w \in Worker, NEW j \in Job,
             Executes(v, j)', Executes(w, j)'
      PROVE  v = w
  <2>1. ~(RunJob(v, j) /\ Executes(w, j)) /\ ~(RunJob(w, j) /\ Executes(v, j))
    BY DEF RunJob, Loaded, ExecutionInv, ExecutingIsStarted
  <2>2. RunJob(v, j) /\ RunJob(w, j) => v = w
    BY DEF RunJob, Loaded, TypeOK, IdleWorker
  <2>3. QED
    BY <1>2, <2>1, <2>2, StillExecutes DEF ExecutionInv, SingleExecution
<1>3. ASSUME NEW u \in User, txn'[u].op # "none",
             NEW j \in DOMAIN txn'[u].writes \ stale'[u],
             NEW w \in Worker, Executes(w, j)'
      PROVE  FALSE
  <2>1. ASSUME NEW i \in Job, OpenRequeue(u, i) \/ OpenDone(u, i) \/ OpenCancel(u, i)
        PROVE  FALSE
    <3>1. /\ j \in Job
          /\ j = i \/ state[j] = WAIT_DEPENDENCIES
      BY <1>3, <2>1, OpenedWrites DEF ParentsInv
    <3>2. worker' = worker
      BY <2>1 DEF OpenRequeue, OpenDone, OpenCancel, OpenTxn
    <3>3. Executes(w, j)
      BY <1>3, <3>2 DEF Executes
    <3>4. MayTouch(i) /\ (HandsOff => Careful \/ state[i] # STARTED)
      BY <2>1 DEF OpenRequeue, OpenDone, OpenCancel, HandsOff
    <3>5. QED
      BY <3>1, <3>3, <3>4 DEF MayTouch, ExecutionInv, ExecutingIsStarted
  <2>2. CASE /\ txn'[u] = txn[u]
             /\ stale[u] \subseteq stale'[u]
             /\ \A i \in Job : state'[i] # state[i] => i \in stale'[u]
    <3>1. j \in Job /\ state'[j] = state[j]
      BY <1>3, <2>2, WritesType
    <3>2. ~Executes(w, j)
      BY <1>3, <2>2 DEF ExecutionInv, CommitsAreSafe
    <3>3. RunJob(w, j)
      BY <1>3, <3>1, <3>2, StillExecutes
    <3>4. QED
      BY <3>1, <3>3 DEF RunJob, Loaded, TypeOK
  <2>3. QED
    BY <1>3, <2>1, <2>2, Snapshots
<1>4. OfferedNotTaken'
  BY OfferedKept DEF ExecutionInv
<1>5. QED
  BY <1>1, <1>2, <1>3, <1>4
  DEF ExecutionInv, SingleExecution, ExecutingIsStarted, CommitsAreSafe

\* No two workers execute one job, and a job that is executed is STARTED, for
\* every number of workers, users, requests and faults: the row lock and the
\* state test of runjob suffice, if users leave jobs alone that a worker runs.
THEOREM ExecutionIsSingle ==
  ASSUME HandsOff
  PROVE  Spec => [](SingleExecution /\ ExecutingIsStarted)
<1>1. TypeOK /\ ParentsInv /\ [Next]_vars => ParentsInv'
  BY RowsExistKept, RowsKept, SessionsKept DEF ParentsInv
<1>2. TypeOK /\ ParentsInv /\ ExecutionInv /\ [Next]_vars => ExecutionInv'
  BY ExecutionKept
<1>3. ExecutionInv => SingleExecution /\ ExecutingIsStarted
  BY DEF ExecutionInv
<1>4. QED
  BY <1>1, <1>2, <1>3, ParentsInit, ExecutionInit, TypeCorrect, PTL DEF Spec

------------------------------------------------------------------------------
(* Jobs that ended                                                           *)

\* What a worker executes is STARTED in the table, so that its last write overwrites
\* nobody's decision.
THEOREM ExecutedRowsAreStarted ==
  ASSUME HandsOff
  PROVE  Spec => []ExecutingIsStarted
BY ExecutionIsSingle, PTL

\* Who may change the row of an ended job, other than delete it.
LEMMA EndedStays ==
  ASSUME TypeOK, ExecutionInv, [Next]_vars, NEW j \in Job,
         state[j] \in {DONE, CANCELLED}, state'[j] \notin {state[j], Absent}
  PROVE  \/ \E u \in User : Decides(u, j)
         \/ j \in offered /\ state'[j] = ENQUEUED
<1> DEFINE Goal == \/ \E u \in User : Decides(u, j)
                   \/ j \in offered /\ state'[j] = ENQUEUED
<1> USE DEF TypeOK
<1>1. ASSUME NEW i \in Job, RunnerStep(i) \/ ClientStep(i) \/ Autovacuum(i)
      PROVE  Goal
  BY <1>1 DEF RunnerStep, ClientStep, Dispatch, DispatchCrash, ClientTimeout,
     RequestLost, SetJobEnqueued, SetJobPending, Autovacuum
<1>2. ASSUME NEW w \in Worker, WorkerStep(w)
      PROVE  FALSE
  <2>1. worker[w].pc = "performing" => worker[w].job # j
    BY DEF ExecutionInv, ExecutingIsStarted, Executes
  <2>2. ASSUME NEW s, NEW r, worker[w].pc = "performing", StoreAndLeave(w, s, r)
        PROVE  FALSE
    BY <2>1, <2>2 DEF StoreAndLeave
  <2>3. CASE PerformDone(w)
    BY <2>1, <2>3 DEF PerformDone
  <2>4. CASE EnqueueDependents(w)
    <3>1. j \notin Dependents(state, worker[w].job, DONE)
      BY DEF Dependents
    <3>2. QED
      BY <2>4, <3>1, Applied DEF EnqueueDependents
  <2>5. CASE \E i \in Job : RunJob(w, i) \/ RefuseJob(w, i)
    BY <2>5 DEF RunJob, Loaded, RefuseJob
  <2>6. CASE BeginPerform(w) \/ ReleaseFails(w) \/ WorkerCrash(w) \/ HandlerRaises(w)
    BY <2>6 DEF BeginPerform, ReleaseFails, WorkerCrash, HandlerRaises
  <2>7. QED
    BY <1>2, <2>2, <2>3, <2>4, <2>5, <2>6
    DEF WorkerStep, PerformConflict, PerformRetry, PerformFail, Postpone
<1>3. ASSUME NEW u \in User, UserStep(u)
      PROVE  Goal
  <2>1. CASE Commit(u)
    BY <2>1, Applied DEF Commit, Decides
  <2>2. QED
    BY <1>3, <2>1
    DEF UserStep, OpenRequeue, OpenDone, OpenCancel, OpenTxn, Abort
<1>4. CASE ReadRows \/ UNCHANGED vars
  BY <1>4 DEF ReadRows, vars
<1>5. QED
  BY <1>1, <1>2, <1>3, <1>4 DEF Next

\* A job that is DONE or CANCELLED comes back only by a user's decision about it,
\* or because the runner has not read yet that it ended; no late request,
\* time-out or worker touches it, if users leave executing jobs alone.
THEOREM EndedJobsStay ==
  ASSUME HandsOff
  PROVE  Spec => OnlyUsersReopen
<1> DEFINE Reopened(j) ==
      state[j] \in {DONE, CANCELLED} /\ state'[j] \notin {state[j], Absent}
      => \/ \E u \in User : Decides(u, j)
         \/ j \in offered /\ state'[j] = ENQUEUED
<1>1. TypeOK /\ ParentsInv /\ [Next]_vars => ParentsInv'
  BY RowsExistKept, RowsKept, SessionsKept DEF ParentsInv
<1>2. TypeOK /\ ParentsInv /\ ExecutionInv /\ [Next]_vars => ExecutionInv'
  BY ExecutionKept
<1>3. TypeOK /\ ExecutionInv /\ [Next]_vars => [\A j \in Job : Reopened(j)]_vars
  BY EndedStays
<1>4. QED
  BY <1>1, <1>2, <1>3, ParentsInit, ExecutionInit, TypeCorrect, PTL
  DEF Spec, OnlyUsersReopen

------------------------------------------------------------------------------
(* Jobs under way are attended to                                            *)

\* A worker that goes on with its job, or another that starts, attends to it.
LEMMA StillAttended ==
  ASSUME NEW j \in Job, Attended(j), state'[j] \in {state[j], PENDING, WAIT_DEPENDENCIES,
                                                   DONE, CANCELLED, FAILED, Absent},
         sent'[j] = sent[j],
         state'[j] = STARTED => \A w \in Worker : Executes(w, j) => Executes(w, j)'
  PROVE  Attended(j)'
BY DEF Attended

\* A worker that executes j leaves it only with a row that is not under way.
LEMMA WorkersAttend ==
  ASSUME TypeOK, NEW w \in Worker, WorkerStep(w), NEW j \in Job, Attended(j)
  PROVE  Attended(j)' \/ Abandoned(j)
<1> USE DEF TypeOK
<1>1. ASSUME NEW i \in Job, RunJob(w, i) PROVE Attended(j)'
  <2>1. \A v \in Worker \ {w} : worker'[v] = worker[v]
    BY <1>1 DEF RunJob
  <2>2. worker'[w] = Loaded(i) /\ worker[w].pc = "idle"
    BY <1>1 DEF RunJob
  <2>3. CASE i = j
    BY <1>1, <2>2, <2>3 DEF RunJob, Loaded, Attended, Executes
  <2>4. CASE i # j
    <3>1. state'[j] = state[j] /\ sent'[j] = sent[j]
      BY <1>1, <2>4 DEF RunJob
    <3>2. \A v \in Worker : Executes(v, j) => Executes(v, j)'
      BY <2>1, <2>2 DEF Executes
    <3> QED BY <3>1, <3>2, StillAttended
  <2> QED BY <2>3, <2>4
<1>2. ASSUME NEW i \in Job, RefuseJob(w, i) PROVE Attended(j)'
  BY <1>2 DEF RefuseJob, Attended, Executes
<1>3. CASE BeginPerform(w)
  <2>1. \A v \in Worker : Executes(v, j) => Executes(v, j)'
    BY <1>3, BusyWorker DEF BeginPerform, Executes, Busy
  <2> QED BY <1>3, <2>1, StillAttended DEF BeginPerform
<1>4. ASSUME NEW s \in {DONE, FAILED, PENDING, WAIT_DEPENDENCIES},
             worker[w].pc = "performing", sent' = sent,
             state' = [state EXCEPT ![worker[w].job] = s],
             \A v \in Worker \ {w} : worker'[v] = worker[v]
      PROVE  Attended(j)'
  <2>1. CASE worker[w].job = j
    BY <1>4, <2>1, StillAttended
  <2>2. CASE worker[w].job # j
    <3>1. state'[j] = state[j]
      BY <1>4, <2>2
    <3>2. \A v \in Worker : Executes(v, j) => Executes(v, j)'
      BY <1>4, <2>2 DEF Executes
    <3> QED BY <1>4, <3>1, <3>2, StillAttended
  <2> QED BY <2>1, <2>2
<1>5. CASE PerformDone(w)
  BY <1>4, <1>5 DEF PerformDone
<1>6. ASSUME NEW s \in {DONE, FAILED, PENDING, WAIT_DEPENDENCIES}, NEW r,
             worker[w].pc = "performing", StoreAndLeave(w, s, r)
      PROVE  Attended(j)'
  BY <1>4, <1>6 DEF StoreAndLeave
<1>7. CASE PerformConflict(w) \/ PerformRetry(w) \/ PerformFail(w)
  BY <1>6, <1>7 DEF PerformConflict, PerformRetry, PerformFail, Postpone, PendingOrWait
<1>8. CASE EnqueueDependents(w) \/ ReleaseFails(w)
  <2>1. /\ worker[w].pc = "release" /\ sent' = sent
        /\ \A v \in Worker \ {w} : worker'[v] = worker[v]
    BY <1>8 DEF EnqueueDependents, ReleaseFails
  <2>2. state'[j] \in {state[j], PENDING}
    <3>1. CASE EnqueueDependents(w)
      <4>1. PICK children : state' = Apply([c \in children |-> PENDING])
        BY <3>1 DEF EnqueueDependents
      <4> QED BY <4>1 DEF Apply
    <3> QED BY <1>8, <3>1 DEF ReleaseFails
  <2>3. \A v \in Worker : Executes(v, j) => Executes(v, j)'
    BY <2>1 DEF Executes
  <2> QED BY <2>1, <2>2, <2>3, StillAttended
<1>9. CASE WorkerCrash(w) \/ HandlerRaises(w)
  <2>1. CASE Executes(w, j)
    BY <1>9, <2>1 DEF Abandoned
  <2>2. CASE ~Executes(w, j)
    <3>1. \A v \in Worker : Executes(v, j) => Executes(v, j)'
      BY <1>9, <2>2 DEF WorkerCrash, HandlerRaises, Executes
    <3> QED BY <1>9, <3>1, StillAttended DEF WorkerCrash, HandlerRaises
  <2> QED BY <2>1, <2>2
<1> QED
  BY <1>1, <1>2, <1>3, <1>5, <1>7, <1>8, <1>9 DEF WorkerStep

LEMMA OnlyAbandoned ==
  ASSUME TypeOK, [Next]_vars, NEW j \in Job, Attended(j)
  PROVE  Attended(j)' \/ Abandoned(j)
<1> USE DEF TypeOK
<1>1. ASSUME NEW i \in Job, Dispatch(i) PROVE Attended(j)'
  <2>1. CASE i = j
    <3>1. sent'[j] > 0 /\ state'[j] \in {ENQUEUED, Absent}
      BY <1>1, <2>1 DEF Dispatch, SetJobEnqueued, AsyncHttpGet
    <3> QED BY <3>1 DEF Attended
  <2>2. CASE i # j
    BY <1>1, <2>2, StillAttended DEF Dispatch, SetJobEnqueued, AsyncHttpGet, Executes
  <2> QED BY <2>1, <2>2
<1>2. ASSUME NEW i \in Job, DispatchCrash(i) PROVE Attended(j)' \/ Abandoned(j)
  <2>1. CASE i # j
    BY <1>2, <2>1, StillAttended DEF DispatchCrash, SetJobEnqueued, Executes
  <2> QED BY <1>2, <2>1 DEF Abandoned
<1>3. ASSUME NEW i \in Job, ClientStep(i) \/ Autovacuum(i) PROVE Attended(j)'
  <2>1. /\ worker' = worker
        /\ \E s \in {PENDING, Absent} : state' = [state EXCEPT ![i] = s]
        /\ sent'[j] = sent[j] \/ i = j
    BY <1>3 DEF ClientStep, ClientTimeout, RequestLost, SetJobPending, Autovacuum
  <2>2. CASE i = j
    BY <2>1, <2>2 DEF Attended
  <2>3. CASE i # j
    BY <2>1, <2>3, StillAttended DEF Executes
  <2> QED BY <2>2, <2>3
<1>4. ASSUME NEW u \in User, UserStep(u) PROVE Attended(j)'
  <2>1. UNCHANGED <<worker, sent>>
    BY <1>4 DEF UserStep, OpenRequeue, OpenDone, OpenCancel, OpenTxn, Commit, Abort
  <2>2. state'[j] \in {state[j]} \cup UserStates
    <3>1. CASE Commit(u)
      BY <3>1, WritesType DEF Commit, Apply
    <3> QED
      BY <1>4, <3>1 DEF UserStep, OpenRequeue, OpenDone, OpenCancel, OpenTxn, Abort
  <2> QED BY <2>1, <2>2, StillAttended DEF UserStates, Executes
<1>5. CASE ReadRows \/ UNCHANGED vars
  BY <1>5, StillAttended DEF ReadRows, vars, Executes
<1> QED
  BY <1>1, <1>2, <1>3, <1>4, <1>5, WorkersAttend DEF Next, RunnerStep

\* A job under way is left without a request or a worker in three ways only, for
\* whatever faults, users and bounds: by a runner that stops before the request, by
\* the death of its worker, and by an exception in the handling of its exception.
\* The runner needs no record of the requests it sent.
THEOREM NoJobGoesStale == Spec => NoStaleJob
<1>1. TypeOK /\ [Next]_vars => [\A j \in Job : Attended(j) /\ ~Attended(j)' => Abandoned(j)]_vars
  BY OnlyAbandoned
<1> QED
  BY <1>1, TypeCorrect, PTL DEF Spec, NoStaleJob

------------------------------------------------------------------------------
(* Children are released                                                     *)

\* What the theorem below assumes of users and faults: no worker dies and the
\* transaction that releases the children does not fail; users set no job to DONE
\* and requeue what the form and the cron offer.
Undisturbed ==
  /\ HandsOff
  /\ Faults \cap {"crash", "release"} = {}
  /\ "done" \notin UserOps
  /\ Requeueable \subseteq {FAILED, ENQUEUED}

LEMMA ReleaseInit == Init => ReleaseInv
<1> SUFFICES ASSUME Init PROVE ReleaseInv
  OBVIOUS
<1>1. DoneStays /\ OfferedNotDone /\ WorkersReady /\ WritesForward
  BY DEF Init, DoneStays, OfferedNotDone, WorkersReady, WritesForward, IdleWorker,
         NoTxn
<1>2. NoForgottenChild
  BY GraphAssumption DEF Init, NoForgottenChild, PendingOrWait
<1>3. QED
  BY <1>1, <1>2 DEF ReleaseInv

\* All the parents of a runnable job are done or deleted, now.
LEMMA RunnableIsReady ==
  ASSUME TypeOK, ParentsInv, ReleaseInv, NEW j \in Job, state[j] \in Runnable
  PROVE  ParentsDone(j)
BY DEF ParentsInv, ParentsFirst, Settled, ReleaseInv, DoneStays, ParentsDone,
       Runnable

\* Only Init makes a job wait, and only a worker makes it DONE.
LEMMA NewStates ==
  ASSUME TypeOK, ReleaseInv, [Next]_vars, NEW j \in Job
  PROVE  /\ state'[j] = WAIT_DEPENDENCIES => state[j] = WAIT_DEPENDENCIES
         /\ \/ state'[j] = DONE /\ state[j] # DONE
            \/ j \in everDone' /\ j \notin everDone
            => \E w \in Worker : PerformDone(w) /\ worker[w].job = j
<1> DEFINE Plain == /\ state'[j] \in {WAIT_DEPENDENCIES, DONE} => state'[j] = state[j]
                    /\ j \in everDone' => j \in everDone
           Goal == Plain \/ \E w \in Worker : PerformDone(w) /\ worker[w].job = j
<1> USE DEF TypeOK
<1>1. ASSUME NEW i \in Job, RunnerStep(i) \/ ClientStep(i) \/ Autovacuum(i)
      PROVE  Plain
  BY <1>1 DEF RunnerStep, ClientStep, Dispatch, DispatchCrash, ClientTimeout,
     RequestLost, SetJobEnqueued, SetJobPending, Autovacuum
<1>2. ASSUME NEW w \in Worker, WorkerStep(w)
      PROVE  Goal
  <2>1. ASSUME NEW s, NEW r, s \notin {WAIT_DEPENDENCIES, DONE},
               StoreAndLeave(w, s, r)
        PROVE  Plain
    BY <2>1 DEF StoreAndLeave
  <2>2. CASE PerformDone(w)
    <3>1. CASE worker[w].job = j
      BY <2>2, <3>1
    <3>2. CASE worker[w].job # j
      BY <2>2, <3>2 DEF PerformDone
    <3>3. QED
      BY <3>1, <3>2
  <2>3. CASE EnqueueDependents(w)
    BY <2>3, Applied DEF EnqueueDependents
  <2>4. CASE \E i \in Job : RunJob(w, i) \/ RefuseJob(w, i)
    BY <2>4 DEF RunJob, Loaded, RefuseJob
  <2>5. CASE BeginPerform(w) \/ ReleaseFails(w) \/ WorkerCrash(w) \/ HandlerRaises(w)
    BY <2>5 DEF BeginPerform, ReleaseFails, WorkerCrash, HandlerRaises
  <2>6. worker[w].pc = "performing" => worker[w].ready
    BY DEF ReleaseInv, WorkersReady
  <2>7. QED
    BY <1>2, <2>1, <2>2, <2>3, <2>4, <2>5, <2>6
    DEF WorkerStep, PerformConflict, PerformRetry, PerformFail, Postpone,
        PendingOrWait
<1>3. ASSUME NEW u \in User, UserStep(u)
      PROVE  Plain
  <2>1. CASE Commit(u)
    <3>1. \A i \in DOMAIN txn[u].writes : txn[u].writes[i] \in {PENDING, CANCELLED}
      BY <2>1 DEF Commit, ReleaseInv, WritesForward
    <3>2. QED
      BY <2>1, <3>1, Applied DEF Commit
  <2>2. QED
    BY <1>3, <2>1
    DEF UserStep, OpenRequeue, OpenDone, OpenCancel, OpenTxn, Abort
<1>4. CASE ReadRows \/ UNCHANGED vars
  BY <1>4 DEF ReadRows, vars
<1>5. Goal
  BY <1>1, <1>2, <1>3, <1>4 DEF Next
<1>6. ASSUME NEW w \in Worker, PerformDone(w), worker[w].job = j
      PROVE  state'[j] = DONE
  BY <1>6 DEF PerformDone
<1>7. QED
  BY <1>5, <1>6

\* What a worker loaded it keeps, and a worker that is about to release children
\* goes on to do so.
LEMMA WorkerKeepsLoaded ==
  ASSUME Undisturbed, TypeOK, [Next]_vars, NEW w \in Worker
  PROVE  /\ worker'[w].pc # "idle" =>
              \/ worker[w].pc # "idle" /\ worker'[w].ready = worker[w].ready
              \/ \E j \in Job : RunJob(w, j)
         /\ worker[w].pc = "release" =>
              worker'[w] = worker[w] \/ EnqueueDependents(w)
<1> DEFINE Goal == /\ worker'[w].pc # "idle" =>
                        \/ worker[w].pc # "idle" /\ worker'[w].ready = worker[w].ready
                        \/ \E j \in Job : RunJob(w, j)
                   /\ worker[w].pc = "release" =>
                        worker'[w] = worker[w] \/ EnqueueDependents(w)
<1> USE DEF TypeOK
<1>1. CASE worker'[w] = worker[w]
  BY <1>1
<1>2. ASSUME NEW j \in Job, RunnerStep(j) \/ ClientStep(j) \/ Autovacuum(j)
      PROVE  worker' = worker
  BY <1>2 DEF RunnerStep, ClientStep, Dispatch, DispatchCrash, ClientTimeout,
     RequestLost, Autovacuum
<1>3. ASSUME NEW v \in Worker, WorkerStep(v)
      PROVE  Goal
  <2>1. CASE v # w
    <3>1. worker'[w] = worker[w]
      BY <1>3, <2>1 DEF WorkerStep, RunJob, Loaded, RefuseJob, BeginPerform, PerformDone,
         PerformConflict, PerformRetry, PerformFail, Postpone, StoreAndLeave,
         EnqueueDependents, ReleaseFails, WorkerCrash, HandlerRaises
    <3>2. QED
      BY <1>1, <3>1
  <2> SUFFICES ASSUME v = w, ~ \E j \in Job : RunJob(w, j)
               PROVE  Goal
    BY <2>1 DEF RunJob
  <2>2. ASSUME NEW s, NEW r, worker[w].pc = "performing", StoreAndLeave(w, s, r)
        PROVE  Goal
    BY <2>2 DEF StoreAndLeave, IdleWorker
  <2>3. CASE PerformDone(w) \/ BeginPerform(w)
    BY <2>3, BusyWorker DEF PerformDone, BeginPerform, Busy
  <2>4. CASE EnqueueDependents(w) \/ HandlerRaises(w)
    BY <2>4 DEF EnqueueDependents, HandlerRaises, IdleWorker
  <2>5. CASE \E j \in Job : RefuseJob(w, j)
    BY <1>1, <2>5 DEF RefuseJob
  <2>6. ~ReleaseFails(w) /\ ~WorkerCrash(w)
    BY DEF ReleaseFails, WorkerCrash, Undisturbed
  <2>7. QED
    BY <1>3, <2>2, <2>3, <2>4, <2>5, <2>6
    DEF WorkerStep, PerformConflict, PerformRetry, PerformFail, Postpone
<1>4. ASSUME NEW u \in User, UserStep(u)
      PROVE  worker' = worker
  BY <1>4 DEF UserStep, OpenRequeue, OpenDone, OpenCancel, OpenTxn, Commit, Abort
<1>5. CASE ReadRows \/ UNCHANGED vars
  BY <1>1, <1>5 DEF ReadRows, vars
<1>6. QED
  BY <1>1, <1>2, <1>3, <1>4, <1>5 DEF Next

\* A transaction ends by its commit or its abort.
LEMMA Decisions ==
  ASSUME TypeOK, [Next]_vars, NEW u \in User, NEW j, Decides(u, j)
  PROVE  Commit(u) \/ Abort(u)
<1>0. txn'[u] # txn[u]
  BY DEF Decides, NoTxn
<1>1. ASSUME NEW i \in Job, RunnerStep(i) \/ ClientStep(i) \/ Autovacuum(i)
      PROVE  txn' = txn
  BY <1>1 DEF RunnerStep, ClientStep, Dispatch, DispatchCrash, ClientTimeout,
     RequestLost, Autovacuum
<1>2. ASSUME NEW w \in Worker, WorkerStep(w)
      PROVE  txn' = txn
  BY <1>2 DEF WorkerStep, RunJob, Loaded, RefuseJob, BeginPerform, PerformDone,
     PerformConflict, PerformRetry, PerformFail, Postpone, StoreAndLeave,
     EnqueueDependents, ReleaseFails, WorkerCrash, HandlerRaises
<1>3. ASSUME NEW v \in User, UserStep(v)
      PROVE  Commit(u) \/ Abort(u)
  <2>1. txn \in [User -> {NoTxn} \cup Txns]
    BY DEF TypeOK, Txns
  <2>2. \A i \in Job : ~(OpenRequeue(u, i) \/ OpenDone(u, i) \/ OpenCancel(u, i))
    BY DEF OpenRequeue, OpenDone, OpenCancel, OpenTxn, Decides
  <2>3. ASSUME v # u
        PROVE  txn'[u] = txn[u]
    <3>1. ASSUME NEW op, NEW writes, OpenTxn(v, op, writes)
          PROVE  txn'[u] = txn[u]
      BY <2>1, <2>3, <3>1 DEF OpenTxn
    <3>2. QED
      BY <1>3, <2>1, <2>3, <3>1
      DEF UserStep, OpenRequeue, OpenDone, OpenCancel, Commit, Abort
  <2>4. QED
    BY <1>0, <1>3, <2>2, <2>3 DEF UserStep
<1>4. CASE ReadRows \/ UNCHANGED vars
  BY <1>0, <1>4 DEF ReadRows, vars
<1>5. QED
  BY <1>0, <1>1, <1>2, <1>3, <1>4 DEF Next

\* A job that was done is touched by nobody but the autovacuum.
LEMMA DoneRowStays ==
  ASSUME TypeOK, ParentsInv, ExecutionInv, ReleaseInv, [Next]_vars,
         NEW j \in everDone
  PROVE  state'[j] \in {DONE, Absent}
<1>0. state[j] \in {DONE, Absent} /\ j \notin offered /\ j \in Job
  BY DEF ReleaseInv, DoneStays, OfferedNotDone, TypeOK
<1>1. CASE state[j] = Absent
  BY <1>0, <1>1, Monotone DEF ParentsInv
<1>2. CASE state[j] = DONE
  <2>1. ASSUME NEW u \in User, Decides(u, j)
        PROVE  state'[j] = state[j]
    <3>1. j \in stale[u]
      BY <1>0, <1>2, <2>1 DEF Decides, ReleaseInv, WritesForward
    <3>2. Abort(u)
      BY <2>1, <3>1, Decisions DEF Commit, Decides
    <3>3. QED
      BY <3>2 DEF Abort
  <2>2. QED
    BY <1>0, <1>2, <2>1, EndedStays
<1>3. QED
  BY <1>0, <1>1, <1>2

LEMMA DoneStaysKept ==
  ASSUME TypeOK, TypeOK', ParentsInv, ExecutionInv, ReleaseInv, [Next]_vars
  PROVE  DoneStays' /\ OfferedNotDone'
<1>1. ASSUME NEW j \in everDone', j \notin everDone
      PROVE  state'[j] = DONE /\ j \notin offered'
  <2>0. j \in Job
    BY <1>1 DEF TypeOK
  <2>1. PICK w \in Worker : PerformDone(w) /\ worker[w].job = j
    BY <1>1, <2>0, NewStates
  <2>2. j \in Job /\ Executes(w, j)
    BY <2>1, BusyWorker DEF PerformDone, Executes, Busy
  <2>3. j \notin offered
    BY <2>2 DEF ExecutionInv, ExecutingIsStarted, OfferedNotTaken
  <2>4. QED
    BY <2>1, <2>2, <2>3 DEF PerformDone, TypeOK
<1>2. ASSUME NEW j \in everDone
      PROVE  j \notin offered'
  <2>1. j \in Job /\ j \notin offered /\ state[j] # PENDING
    BY DEF ReleaseInv, DoneStays, OfferedNotDone, TypeOK
  <2>2. QED
    BY <2>1, Offers
<1>3. QED
  BY <1>1, <1>2, DoneRowStays DEF DoneStays, OfferedNotDone

LEMMA SessionsForward ==
  ASSUME Undisturbed, TypeOK, ParentsInv, ReleaseInv, [Next]_vars
  PROVE  WorkersReady' /\ WritesForward'
<1>1. ASSUME NEW w \in Worker, worker'[w].pc # "idle"
      PROVE  worker'[w].ready
  <2>1. ASSUME NEW j \in Job, RunJob(w, j)
        PROVE  worker'[w].ready
    BY <2>1, RunnableIsReady DEF RunJob, Loaded, Runnable, TypeOK
  <2>2. CASE worker'[w].ready = worker[w].ready /\ worker[w].pc # "idle"
    BY <2>2 DEF ReleaseInv, WorkersReady
  <2>3. QED
    BY <1>1, <2>1, <2>2, WorkerKeepsLoaded
<1>2. ASSUME NEW u \in User, txn'[u].op # "none", NEW j \in DOMAIN txn'[u].writes
      PROVE  /\ txn'[u].writes[j] \in {PENDING, CANCELLED}
             /\ \/ j \in stale'[u]
                \/ state'[j] \in {WAIT_DEPENDENCIES, PENDING, ENQUEUED, FAILED}
  <2>1. CASE /\ txn'[u] = txn[u]
             /\ stale[u] \subseteq stale'[u]
             /\ \A i \in Job : state'[i] # state[i] => i \in stale'[u]
    BY <1>2, <2>1, WritesType DEF ReleaseInv, WritesForward
  <2>2. ASSUME NEW i \in Job, OpenRequeue(u, i)
        PROVE  /\ txn'[u].writes[j] = PENDING
               /\ state'[j] \in {ENQUEUED, FAILED}
    <3>1. txn'[u].writes = [k \in {i} |-> PendingOrWait(ParentsDone(i))]
      BY <2>2 DEF OpenRequeue, OpenTxn, TypeOK
    <3>2. state[i] \in {ENQUEUED, FAILED} /\ state' = state
      BY <2>2 DEF OpenRequeue, OpenTxn, Undisturbed
    <3>3. ParentsDone(i)
      BY <3>2, RunnableIsReady DEF Runnable
    <3>4. QED
      BY <1>2, <3>1, <3>2, <3>3 DEF PendingOrWait
  <2>3. ASSUME NEW i \in Job, OpenCancel(u, i)
        PROVE  /\ txn'[u].writes[j] = CANCELLED
               /\ state'[j] \in {WAIT_DEPENDENCIES, PENDING, ENQUEUED, FAILED}
    <3>1. txn'[u].writes = Cascade(i, CANCELLED, CANCELLED)
      BY <2>3 DEF OpenCancel, OpenTxn, TypeOK
    <3>2. state[i] \in {PENDING, ENQUEUED, FAILED} /\ state' = state
      BY <2>3 DEF OpenCancel, OpenTxn
    <3>3. QED
      BY <1>2, <3>1, <3>2, CascadeRows
  <2>4. ~ \E i \in Job : OpenDone(u, i)
    BY DEF OpenDone, OpenTxn, Undisturbed
  <2>5. QED
    BY <1>2, <2>1, <2>2, <2>3, <2>4, Snapshots
<1>3. QED
  BY <1>1, <1>2 DEF WorkersReady, WritesForward

\* The worker that finishes the last parent of a job is between two transactions,
\* and the second one releases the job.
LEMMA NobodyForgotten ==
  ASSUME Undisturbed, TypeOK, ReleaseInv, [Next]_vars
  PROVE  NoForgottenChild'
<1> SUFFICES ASSUME NEW j \in Job, state'[j] = WAIT_DEPENDENCIES,
                    DependsOn[j] # {}, \A p \in DependsOn[j] : state'[p] = DONE
             PROVE  \E w \in Worker, p \in DependsOn[j] :
                      worker'[w].pc = "release" /\ worker'[w].job = p
  BY DEF NoForgottenChild
<1>0. state[j] = WAIT_DEPENDENCIES /\ DependsOn[j] \subseteq Job
  BY NewStates, GraphAssumption
<1>1. CASE \A p \in DependsOn[j] : state[p] = DONE
  <2>1. PICK w \in Worker, p \in DependsOn[j] :
          worker[w].pc = "release" /\ worker[w].job = p
    BY <1>0, <1>1 DEF ReleaseInv, NoForgottenChild
  <2>2. ~EnqueueDependents(w)
    <3>1. j \in Dependents(state, p, DONE)
      BY <1>0, <1>1, <2>1 DEF Dependents
    <3>2. QED
      BY <2>1, <3>1, Applied DEF EnqueueDependents
  <2>3. worker'[w] = worker[w]
    BY <2>1, <2>2, WorkerKeepsLoaded
  <2>4. QED
    BY <2>1, <2>3
<1>2. ASSUME NEW p \in DependsOn[j], state[p] # DONE
      PROVE  \E w \in Worker : worker'[w].pc = "release" /\ worker'[w].job = p
  <2>1. PICK w \in Worker : PerformDone(w) /\ worker[w].job = p
    BY <1>0, <1>2, NewStates
  <2>2. QED
    BY <2>1 DEF PerformDone, TypeOK
<1>3. QED
  BY <1>1, <1>2

\* Without a crash in between, a child whose parents are all DONE waits only for a
\* worker that is about to release it, for every graph of jobs and every number
\* of workers and sessions.
THEOREM NoChildIsForgotten ==
  ASSUME Undisturbed
  PROVE  Spec => []NoForgottenChild
<1>1. TypeOK /\ ParentsInv /\ [Next]_vars => ParentsInv'
  BY RowsExistKept, RowsKept, SessionsKept DEF ParentsInv
<1>2. TypeOK /\ ParentsInv /\ ExecutionInv /\ [Next]_vars => ExecutionInv'
  BY ExecutionKept DEF Undisturbed
<1>3. TypeOK /\ TypeOK' /\ ParentsInv /\ ExecutionInv /\ ReleaseInv /\ [Next]_vars
      => ReleaseInv'
  BY DoneStaysKept, SessionsForward, NobodyForgotten DEF ReleaseInv
<1>4. ReleaseInv => NoForgottenChild
  BY DEF ReleaseInv
<1>5. QED
  BY <1>1, <1>2, <1>3, <1>4, ParentsInit, ExecutionInit, ReleaseInit, TypeCorrect,
     PTL DEF Spec

------------------------------------------------------------------------------
(* Retry patterns                                                            *)

\* Counts of one or two digits keep what they are as texts.
LEMMA TextsAreRead ==
  ASSUME NEW k \in 0..99
  PROVE  ToInt(Text(k)) = k
<1>1. CASE k < 10
  BY <1>1 DEF Text, ToInt
<1>2. CASE ~(k < 10)
  <2>1. k = 10 * (k \div 10) + (k % 10) /\ k \div 10 \in Int /\ k % 10 \in Int
    <3>1. k \in Int
      OBVIOUS
    <3>2. k \div 10 \in Int /\ k % 10 \in Int
      BY <3>1
    <3>3. k = 10 * (k \div 10) + (k % 10)
      BY <3>1
    <3>4. QED
      BY <3>2, <3>3
  <2>2. Text(k) = <<k \div 10, k % 10>>
    BY <1>2 DEF Text
  <2>3. \E q, r \in Int : Text(k) = <<q, r>> /\ k = 10 * q + r
    BY <2>1, <2>2
  <2>4. QED
    BY <2>3 DEF ToInt
<1>3. QED
  BY <1>1, <1>2

\* What becomes of a pattern that is stored and read.
LEMMA PatternsAreRead ==
  ASSUME NEW p, DOMAIN p \subseteq 0..99
  PROVE  /\ DOMAIN Stored(p) = {Text(k) : k \in DOMAIN p}
         /\ \A k \in DOMAIN p : Stored(p)[Text(k)] = p[k]
         /\ Parsed(Stored(p)) = [k \in DOMAIN p |-> Converted(p[k])]
<1> DEFINE D == DOMAIN p
<1>1. \A k \in D : ToInt(Text(k)) = k
  BY TextsAreRead
<1>2. DOMAIN Stored(p) = {Text(k) : k \in D} /\ \A k \in D : Stored(p)[Text(k)] = p[k]
  BY <1>1 DEF Stored
<1>3. {ToInt(t) : t \in {Text(k) : k \in D}} = D
  BY <1>1
<1>4. Parsed(Stored(p)) = [k \in {ToInt(t) : t \in DOMAIN Stored(p)} |-> Converted(Stored(p)[Text(k)])]
  BY DEF Parsed
<1>5. Parsed(Stored(p)) = [k \in D |-> Converted(Stored(p)[Text(k)])]
  BY <1>2, <1>3, <1>4
<1>6. QED
  BY <1>2, <1>5

------------------------------------------------------------------------------
(* Sorted keys                                                               *)

Below(K, k) == {l \in K : l < k}

LEMMA BelowGrows ==
  ASSUME NEW K \in SUBSET Nat, IsFiniteSet(K), NEW k \in K
  PROVE  /\ Cardinality(Below(K, k)) \in Nat
         /\ Cardinality(Below(K, k)) + 1 <= Cardinality(K)
         /\ \A l \in K : k < l => Cardinality(Below(K, k)) + 1 <= Cardinality(Below(K, l))
<1>1. IsFiniteSet(Below(K, k)) /\ Cardinality(Below(K, k)) \in Nat
  BY FS_Subset, FS_CardinalityType DEF Below
<1>2. k \notin Below(K, k)
  BY DEF Below
<1>3. Cardinality(Below(K, k) \cup {k}) = Cardinality(Below(K, k)) + 1
  BY <1>1, <1>2, FS_AddElement
<1>4. Cardinality(Below(K, k) \cup {k}) <= Cardinality(K)
  BY FS_Subset DEF Below
<1>5. ASSUME NEW l \in K, k < l
      PROVE  Cardinality(Below(K, k) \cup {k}) <= Cardinality(Below(K, l))
  <2>1. IsFiniteSet(Below(K, l))
    BY FS_Subset DEF Below
  <2>2. Below(K, k) \cup {k} \subseteq Below(K, l)
    <3>1. \A i \in K : i \in Nat
      OBVIOUS
    <3>2. ASSUME NEW i \in Below(K, k) \cup {k}
          PROVE  i \in Below(K, l)
      <4>1. i \in K /\ i \in Nat /\ k \in Nat /\ l \in Nat /\ i <= k
        BY <3>1, <3>2 DEF Below
      <4>2. QED
        BY <1>5, <4>1 DEF Below
    <3>3. QED
      BY <3>2
  <2>3. QED
    BY <2>1, <2>2, FS_Subset
<1>6. QED
  BY <1>1, <1>3, <1>4, <1>5

\* The sorted keys are those of which there is one less below than their place.
LEMMA KeysInOrder ==
  ASSUME NEW K \in SUBSET Nat, IsFiniteSet(K)
  PROVE  /\ Cardinality(K) \in Nat
         /\ InOrder(K) \in [1..Cardinality(K) -> K]
         /\ \A i \in 1..Cardinality(K) : Cardinality(Below(K, InOrder(K)[i])) = i - 1
<1> DEFINE n == Cardinality(K)
           place == [k \in K |-> Cardinality(Below(K, k)) + 1]
<1>1. n \in Nat
  BY FS_CardinalityType
<1>2. \A k \in K : Cardinality(Below(K, k)) \in Nat /\ place[k] \in 1..n
  BY <1>1, BelowGrows
<1>3. \A k, l \in K : k < l => place[k] # place[l]
  BY <1>2, BelowGrows
<1>4. place \in Injection(K, 1..n)
  <2>1. place \in [K -> 1..n]
    BY <1>2
  <2>2. \A k, l \in K : place[k] = place[l] => k = l
    BY <1>3
  <2> HIDE DEF place
  <2>3. QED
    BY <2>1, <2>2 DEF Injection, IsInjective
<1>5. IsFiniteSet(1..n) /\ Cardinality(1..n) = n
  BY <1>1, FS_Interval
<1> HIDE DEF place, n
<1>6. place \in Surjection(K, 1..n)
  BY <1>4, <1>5, FS_Injection DEF n
<1>7. ASSUME NEW i \in 1..n
      PROVE  \E k \in K : Cardinality(Below(K, k)) = i - 1
  <2>1. PICK k \in K : place[k] = i
    BY <1>6, <1>7 DEF Surjection
  <2>2. Cardinality(Below(K, k)) + 1 = i
    BY <2>1 DEF place
  <2>3. QED
    BY <1>2, <2>2
<1>8. InOrder(K) = [i \in 1..n |-> CHOOSE k \in K : Cardinality(Below(K, k)) = i - 1]
  BY DEF InOrder, Below, n
<1>9. QED
  BY <1>1, <1>7, <1>8 DEF n

\* The keys that are reached are the first ones.
LEMMA ReachedKeys ==
  ASSUME NEW K \in SUBSET Nat, IsFiniteSet(K), NEW n \in Nat, NEW i \in 1..Cardinality(K)
  PROVE  InOrder(K)[i] <= n <=> i <= Cardinality({k \in K : k <= n})
<1> DEFINE s == InOrder(K)[i]
           reached == {k \in K : k <= n}
<1>1. s \in K /\ Cardinality(Below(K, s)) = i - 1 /\ Cardinality(K) \in Nat
  BY KeysInOrder
<1>2. IsFiniteSet(reached) /\ Cardinality(reached) \in Nat
  BY FS_Subset, FS_CardinalityType
<1> HIDE DEF s
<1>3. IsFiniteSet(Below(K, s)) /\ s \notin Below(K, s) /\ \A k \in K : k \in Nat
  BY <1>1, FS_Subset DEF Below
<1>4. CASE s <= n
  <2>1. Below(K, s) \cup {s} \subseteq reached
    <3>1. ASSUME NEW k \in Below(K, s) \cup {s}
          PROVE  k \in reached
      <4>1. k \in K /\ k \in Nat /\ s \in Nat /\ k <= s
        BY <1>1, <1>3, <3>1 DEF Below
      <4>2. QED
        BY <1>4, <4>1
    <3>2. QED
      BY <3>1
  <2>2. Cardinality(Below(K, s) \cup {s}) = i - 1 + 1
    BY <1>1, <1>3, FS_AddElement
  <2> HIDE DEF reached
  <2>3. Cardinality(Below(K, s) \cup {s}) <= Cardinality(reached)
    BY <1>2, <2>1, FS_Subset
  <2>4. QED
    BY <1>4, <2>2, <2>3 DEF s, reached
<1>5. CASE ~(s <= n)
  <2>1. reached \subseteq Below(K, s)
    <3>1. ASSUME NEW k \in reached
          PROVE  k \in Below(K, s)
      <4>1. k \in K /\ k \in Nat /\ s \in Nat /\ k <= n
        BY <1>1, <1>3, <3>1
      <4>2. QED
        BY <1>5, <4>1 DEF Below
    <3>2. QED
      BY <3>1
  <2> HIDE DEF reached
  <2>2. Cardinality(reached) <= i - 1
    BY <1>1, <1>3, <2>1, FS_Subset
  <2>3. QED
    BY <1>2, <1>5, <2>2 DEF s, reached
<1>6. QED
  BY <1>4, <1>5

\* The loop ends at the last key that is reached, which is the greatest.
LEMMA LoopEnds ==
  ASSUME NEW p, DOMAIN p \in SUBSET Nat, IsFiniteSet(DOMAIN p), NEW n \in Nat
  PROVE  Looped(p, n) = Applies(p, n)
<1> DEFINE K == DOMAIN p
           keys == InOrder(K)
           N == Cardinality(K)
           reached == {k \in K : k <= n}
           m == Cardinality(reached)
           V(i) == IF i = 0 THEN Number(Interval) ELSE p[keys[i]]
           From == CHOOSE f : f = [i \in 0..Len(keys) |->
                                     IF i < Len(keys) /\ n >= keys[i + 1] THEN f[i + 1]
                                     ELSE IF i = 0 THEN Number(Interval) ELSE p[keys[i]]]
           Step(f, i) == IF i < N /\ n >= keys[i + 1] THEN f[i + 1] ELSE V(i)
           g == [i \in 0..N |-> IF i < m THEN V(m) ELSE V(i)]
<1>1. /\ N \in Nat /\ keys \in [1..N -> K]
      /\ \A i \in 1..N : Cardinality(Below(K, keys[i])) = i - 1
  BY KeysInOrder
<1>2. m \in Nat /\ m <= N /\ IsFiniteSet(reached)
  BY <1>1, FS_Subset, FS_CardinalityType
<1>3. \A i \in 1..N : n >= keys[i] <=> i <= m
  <2>1. \A i \in 1..N : keys[i] <= n <=> i <= m
    BY ReachedKeys
  <2>2. \A i \in 1..N : keys[i] \in Nat
    BY <1>1
  <2>3. QED
    BY <2>1, <2>2
<1>4. Looped(p, n) = From[0] /\ Len(keys) = N
  <2>1. Len(keys) = N
    BY <1>1
  <2>2. Looped(p, n) = From[0]
    BY Zenon DEF Looped
  <2>3. QED
    BY <2>1, <2>2
<1> HIDE DEF K, keys, N, m, V
<1>5. g = [i \in 0..N |-> Step(g, i)]
  <2>1. ASSUME NEW i \in 0..N
        PROVE  g[i] = Step(g, i)
    <3>1. CASE i < m
      <4>1. i < N /\ i + 1 \in 1..N /\ i + 1 \in 0..N /\ i + 1 <= m /\ n >= keys[i + 1]
        BY <1>1, <1>2, <1>3, <3>1
      <4>2. g[i + 1] = V(m)
        <5>1. CASE i + 1 < m
          BY <4>1, <5>1
        <5>2. CASE ~(i + 1 < m)
          <6>1. i + 1 = m
            BY <1>2, <4>1, <5>2
          <6>2. QED
            BY <4>1, <5>2, <6>1
        <5>3. QED
          BY <5>1, <5>2
      <4>3. QED
        BY <3>1, <4>1, <4>2
    <3>2. CASE ~(i < m)
      <4>1. ~(i < N /\ n >= keys[i + 1])
        <5>1. ASSUME i < N
              PROVE  ~(n >= keys[i + 1])
          <6>1. i + 1 \in 1..N /\ ~(i + 1 <= m)
            BY <1>1, <1>2, <3>2, <5>1
          <6>2. QED
            BY <1>3, <6>1
        <5>2. QED
          BY <5>1
      <4>2. QED
        BY <3>2, <4>1
    <3>3. QED
      BY <3>1, <3>2
  <2> HIDE DEF g, Step
  <2>2. g = [i \in 0..N |-> g[i]]
    BY DEF g
  <2>3. QED
    BY <2>1, <2>2
<1> HIDE DEF g
<1>6. From = [i \in 0..N |-> Step(From, i)]
  <2>1. g = [i \in 0..Len(keys) |-> IF i < Len(keys) /\ n >= keys[i + 1] THEN g[i + 1]
                                   ELSE IF i = 0 THEN Number(Interval) ELSE p[keys[i]]]
    BY <1>4, <1>5 DEF V
  <2>2. From = [i \in 0..Len(keys) |-> IF i < Len(keys) /\ n >= keys[i + 1] THEN From[i + 1]
                                   ELSE IF i = 0 THEN Number(Interval) ELSE p[keys[i]]]
    BY <2>1, Zenon
  <2> HIDE DEF From
  <2>3. QED
    BY <1>4, <2>2 DEF V
<1> HIDE DEF From
<1>7. \A i \in 0..N : From[i] = Step(From, i)
  <2> HIDE DEF Step
  <2>1. QED
    BY <1>6
<1>8. \A d \in Nat : d <= m => From[m - d] = V(m)
  <2> DEFINE T == {d \in Nat : d <= m => From[m - d] = V(m)}
  <2>1. 0 \in T
    <3>1. m \in 0..N /\ m - 0 = m
      BY <1>1, <1>2
    <3>2. ~(m < N /\ n >= keys[m + 1])
      <4>1. ASSUME m < N
            PROVE  ~(n >= keys[m + 1])
        <5>1. m + 1 \in 1..N /\ ~(m + 1 <= m)
          BY <1>1, <1>2, <4>1
        <5>2. QED
          BY <1>3, <5>1
      <4>2. QED
        BY <4>1
    <3>3. QED
      BY <1>7, <3>1, <3>2
  <2>2. ASSUME NEW d \in Nat, d \in T
        PROVE  d + 1 \in T
    <3> SUFFICES ASSUME d + 1 <= m PROVE From[m - (d + 1)] = V(m)
      OBVIOUS
    <3> DEFINE i == m - (d + 1)
    <3>1. i \in 0..N /\ i < N /\ i + 1 \in 1..N /\ i + 1 <= m /\ i + 1 = m - d /\ d <= m
      BY <1>1, <1>2
    <3> HIDE DEF i
    <3>2. From[i] = From[i + 1]
      BY <1>3, <1>7, <3>1
    <3>3. QED
      BY <2>2, <3>1, <3>2 DEF i
  <2> HIDE DEF T
  <2>3. \A d \in Nat : d \in T
    BY <2>1, <2>2, InductionInSet
  <2>4. QED
    BY <2>3 DEF T
<1>9. From[0] = V(m)
  <2>1. m - m = 0
    BY <1>2
  <2>2. QED
    BY <1>2, <1>8, <2>1
<1>10. Applies(p, n) = V(m)
  <2>1. CASE reached = {}
    <3>1. m = 0
      BY <2>1, FS_EmptySet DEF m
    <3>2. QED
      BY <2>1, <3>1 DEF Applies, V, K
  <2>2. CASE reached # {}
    <3>1. m \in 1..N /\ m # 0
      BY <1>1, <1>2, <2>2, FS_EmptySet DEF m
    <3>2. keys[m] \in reached
      BY <1>1, <1>3, <3>1 DEF K
    <3>3. ASSUME NEW l \in reached
          PROVE  l <= keys[m]
      <4>1. SUFFICES ASSUME keys[m] < l PROVE FALSE
        BY <1>1, <3>1 DEF K
      <4>2. Below(K, keys[m]) \cup {keys[m], l} \subseteq reached
        BY <3>2, <4>1 DEF Below, K
      <4>3. l \notin Below(K, keys[m]) \cup {keys[m]} /\ keys[m] \notin Below(K, keys[m])
        BY <3>2, <4>1 DEF Below, K
      <4>4. IsFiniteSet(Below(K, keys[m])) /\ Cardinality(Below(K, keys[m])) = m - 1
        BY <1>1, <3>1, FS_Subset DEF Below, K
      <4>5. /\ IsFiniteSet(Below(K, keys[m]) \cup {keys[m]})
            /\ Cardinality(Below(K, keys[m]) \cup {keys[m]}) = m - 1 + 1
        BY <4>3, <4>4, FS_AddElement
      <4>6. Cardinality((Below(K, keys[m]) \cup {keys[m]}) \cup {l}) = m - 1 + 1 + 1
        BY <4>3, <4>5, FS_AddElement
      <4>7. Cardinality((Below(K, keys[m]) \cup {keys[m]}) \cup {l}) <= Cardinality(reached)
        BY <1>2, <4>2, FS_Subset
      <4>8. QED
        BY <1>2, <4>6, <4>7 DEF m
    <3>4. (CHOOSE k \in reached : \A l \in reached : l <= k) = keys[m]
      <4>1. \A k \in reached : (\A l \in reached : l <= k) => k = keys[m]
        BY <3>2, <3>3 DEF K
      <4> HIDE DEF reached
      <4>2. QED
        BY <3>2, <3>3, <4>1
    <3>5. Applies(p, n) = p[CHOOSE k \in reached : \A l \in reached : l <= k]
      BY <2>2 DEF Applies, K
    <3> HIDE DEF reached
    <3>6. QED
      BY <3>1, <3>4, <3>5 DEF V
  <2>3. QED
    BY <2>1, <2>2
<1>11. QED
  BY <1>4, <1>9, <1>10

------------------------------------------------------------------------------
(* From the form to the seconds                                              *)

LEMMA EditedPatterns ==
  ASSUME NEW p \in Edited
  PROVE  /\ DOMAIN p \subseteq 0..99 /\ DOMAIN p \in SUBSET Nat /\ IsFiniteSet(DOMAIN p)
         /\ \A k \in DOMAIN p : p[k].kind \in {"number", "tuple", "text"}
<1>1. PICK keys \in SUBSET Try : p \in [keys -> Value]
  BY DEF Edited
<1>2. DOMAIN p = keys /\ keys \subseteq 0..99 /\ \A k \in keys : p[k] \in Value
  BY <1>1, PatternAssumption
<1>3. 0 \in Int /\ 99 \in Int
  OBVIOUS
<1>4. IsFiniteSet(keys)
  <2>1. IsFiniteSet(0..99)
    BY <1>3, FS_Interval
  <2>2. keys \in SUBSET (0..99)
    BY <1>2
  <2> HIDE DEF Edited
  <2>3. QED
    BY <2>1, <2>2, FS_Subset
<1>5. keys \in SUBSET Nat
  BY <1>2
<1>6. QED
  BY <1>2, <1>4, <1>5, PatternAssumption

LEMMA PatternInitRead ==
  PatternInit => PatternTypeOK /\ ColumnInv
<1> SUFFICES ASSUME PatternInit PROVE PatternTypeOK /\ ColumnInv
  OBVIOUS
<1>1. pattern \in [{} -> Value] /\ DOMAIN pattern = {}
  BY DEF PatternInit
<1>2. pattern \in Edited
  BY <1>1 DEF Edited
<1>3. /\ DOMAIN column = {Text(k) : k \in DOMAIN pattern}
      /\ Parsed(column) = [k \in DOMAIN pattern |-> Converted(pattern[k])]
  BY <1>1, PatternsAreRead DEF PatternInit
<1>4. Accepted(pattern) /\ tries \in 0..MaxTries
  BY <1>1, PatternAssumption DEF Accepted, PatternInit
<1>5. QED
  BY <1>2, <1>3, <1>4 DEF PatternTypeOK, ColumnInv

LEMMA PatternNextRead ==
  ASSUME PatternTypeOK, ColumnInv, [PatternNext]_patternVars
  PROVE  PatternTypeOK' /\ ColumnInv'
<1>1. ASSUME NEW p \in Edited, Edit(p)
      PROVE  PatternTypeOK' /\ ColumnInv'
  <2>1. /\ DOMAIN Stored(p) = {Text(k) : k \in DOMAIN p}
        /\ Parsed(Stored(p)) = [k \in DOMAIN p |-> Converted(p[k])]
    BY EditedPatterns, PatternsAreRead
  <2>2. pattern' = p /\ column' = Stored(p) /\ tries' = tries /\ Accepted(p)
    BY <1>1 DEF Edit
  <2>3. QED
    BY <2>1, <2>2 DEF PatternTypeOK, ColumnInv
<1>2. ASSUME SaveShown
      PROVE  PatternTypeOK' /\ ColumnInv'
  <2> DEFINE p == Parsed(column)
  <2>1. pattern' = pattern /\ column' = Stored(p) /\ tries' = tries
    BY <1>2 DEF SaveShown
  <2>2. p = [k \in DOMAIN pattern |-> Converted(pattern[k])]
    BY DEF ColumnInv
  <2> HIDE DEF p
  <2>3. DOMAIN p = DOMAIN pattern /\ DOMAIN p \subseteq 0..99
    BY <2>2, EditedPatterns DEF PatternTypeOK
  <2>4. /\ DOMAIN Stored(p) = {Text(k) : k \in DOMAIN p}
        /\ Parsed(Stored(p)) = [k \in DOMAIN p |-> Converted(p[k])]
    BY <2>3, PatternsAreRead
  <2>5. \A k \in DOMAIN p : Converted(p[k]) = Converted(pattern[k])
    BY <2>2, <2>3 DEF Converted
  <2>6. [k \in DOMAIN p |-> Converted(p[k])] = [k \in DOMAIN pattern |-> Converted(pattern[k])]
    BY <2>3, <2>5
  <2>7. QED
    BY <2>1, <2>3, <2>4, <2>6 DEF PatternTypeOK, ColumnInv
<1>3. ASSUME Perform \/ ResetTries \/ UNCHANGED patternVars
      PROVE  PatternTypeOK' /\ ColumnInv'
  <2>1. pattern' = pattern /\ column' = column
    BY <1>3 DEF Perform, ResetTries, patternVars
  <2>2. tries' \in 0..MaxTries
    BY <1>3, PatternAssumption DEF Perform, ResetTries, patternVars, PatternTypeOK
  <2>3. QED
    BY <2>1, <2>2 DEF PatternTypeOK, ColumnInv
<1>4. QED
  BY <1>1, <1>2, <1>3 DEF PatternNext

\* Of what applies, the conversion changes texts only.
LEMMA AppliesConverted ==
  ASSUME NEW p, NEW n \in Nat, DOMAIN p \in SUBSET Nat
  PROVE  Applies([k \in DOMAIN p |-> Converted(p[k])], n) = Converted(Applies(p, n))
<1> DEFINE q == [k \in DOMAIN p |-> Converted(p[k])]
           reached == {k \in DOMAIN p : k <= n}
           greatest == CHOOSE k \in reached : \A l \in reached : l <= k
<1>1. Number(Interval) = Converted(Number(Interval))
  BY DEF Number, Converted
<1>2. CASE reached = {}
  <2>1. Applies(p, n) = Number(Interval)
    BY <1>2 DEF Applies
  <2>2. Applies(q, n) = Number(Interval)
    BY <1>2 DEF Applies
  <2>3. QED
    BY <1>1, <2>1, <2>2
<1>3. CASE reached # {}
  <2>1. Applies(p, n) = p[greatest]
    BY <1>3 DEF Applies
  <2>2. Applies(q, n) = q[greatest]
    BY <1>3 DEF Applies
  <2>3. greatest \in reached
    <3>1. PICK x \in reached : \A l \in reached : l <= x
      <4>1. reached \in SUBSET Nat /\ \A l \in reached : l <= n
        OBVIOUS
      <4> HIDE DEF reached
      <4>2. QED
        BY <1>3, <4>1, GreatestBelow
    <3> HIDE DEF reached
    <3>2. QED
      BY <3>1
  <2>4. QED
    BY <2>1, <2>2, <2>3
<1>4. QED
  BY <1>2, <1>3

LEMMA DrawnAsPromised ==
  ASSUME NEW v, v.kind \in {"number", "tuple", "text"}
  PROVE  Drawn(Converted(v)) = IF v.kind = "text" THEN {} ELSE Promised(v)
BY DEF Drawn, Converted, Promised

LEMMA SecondsAsPromised ==
  ASSUME PatternTypeOK, ColumnInv
  PROVE  PostponedAsConfigured
<1> DEFINE q == Parsed(column)
           v == Applies(pattern, tries)
<1>1. /\ DOMAIN pattern \in SUBSET Nat /\ IsFiniteSet(DOMAIN pattern) /\ tries \in Nat
      /\ \A k \in DOMAIN pattern : pattern[k].kind \in {"number", "tuple", "text"}
  BY EditedPatterns, PatternAssumption DEF PatternTypeOK
<1>2. q = [k \in DOMAIN pattern |-> Converted(pattern[k])]
  BY DEF ColumnInv
<1>3. DOMAIN q = DOMAIN pattern
  BY <1>2
<1>4. Looped(q, tries) = Applies(q, tries)
  BY <1>1, <1>3, LoopEnds
<1>5. Applies(q, tries) = Converted(v)
  BY <1>1, <1>2, AppliesConverted
<1>6. v.kind \in {"number", "tuple", "text"}
  <2> DEFINE reached == {k \in DOMAIN pattern : k <= tries}
             greatest == CHOOSE k \in reached : \A l \in reached : l <= k
  <2>1. CASE reached = {}
    BY <2>1 DEF Applies, Number
  <2>2. CASE reached # {}
    <3>1. v = pattern[greatest]
      BY <2>2 DEF Applies
    <3>2. greatest \in reached
      <4>1. reached \in SUBSET Nat /\ \A l \in reached : l <= tries
        BY <1>1
      <4> HIDE DEF reached
      <4>2. PICK x \in reached : \A l \in reached : l <= x
        BY <1>1, <2>2, <4>1, GreatestBelow
      <4>3. QED
        BY <4>2
    <3>3. QED
      BY <1>1, <3>1, <3>2
  <2>3. QED
    BY <2>1, <2>2
<1>7. ASSUME NEW asked \in Asked
      PROVE  RetrySeconds(q, tries, asked) =
               IF asked # 0 THEN {asked} ELSE IF v.kind = "text" THEN {} ELSE Promised(v)
  <2>1. CASE asked # 0
    BY <2>1 DEF RetrySeconds
  <2>2. CASE asked = 0 /\ DOMAIN q # {}
    <3>1. RetrySeconds(q, tries, asked) = Drawn(Converted(v))
      BY <1>4, <1>5, <2>2 DEF RetrySeconds
    <3>2. QED
      BY <1>6, <2>2, <3>1, DrawnAsPromised
  <2>3. CASE asked = 0 /\ DOMAIN q = {}
    <3>1. v = Number(Interval)
      BY <1>3, <2>3 DEF Applies
    <3>2. QED
      BY <2>3, <3>1 DEF RetrySeconds, Promised, Number
  <2>4. QED
    BY <2>1, <2>2, <2>3
<1>8. QED
  BY <1>7 DEF PostponedAsConfigured

LEMMA PatternsAlwaysRead ==
  PatternSpec => [](PatternTypeOK /\ ColumnInv)
BY PatternInitRead, PatternNextRead, PTL DEF PatternSpec

\* The types of RetryPattern; no pattern is kept that the check refuses.
THEOREM PatternTypeCorrect ==
  PatternSpec => []PatternTypeOK
BY PatternsAlwaysRead, PTL

\* A postponed job waits for the seconds that the pattern promises, whatever was
\* entered, saved again or retried before.
THEOREM PostponementsArePromised ==
  PatternSpec => []PostponedAsConfigured
BY PatternsAlwaysRead, SecondsAsPromised, PTL

==============================================================================
