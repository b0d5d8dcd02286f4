------------------------------ MODULE Delayables ------------------------------
(***************************************************************************)
(* How a program prepares jobs and delays them (delay.py, job.py):         *)
(* delayables are joined into chains and groups and by on_done, the whole  *)
(* is connected into one graph, and its jobs are stored unless their       *)
(* identity keys are those of jobs that exist already.  What happens to    *)
(* the stored rows is kept to what identity keys, cancellation and removal *)
(* need; module QueueJob has the rest.                                     *)
(*                                                                         *)
(* Building touches no row and is local to one process: it comes before    *)
(* the steps of the database.                                              *)
(***************************************************************************)
EXTENDS Naturals, Sequences, FiniteSets, JobStates

CONSTANTS
  Delayable,   \* what the program builds jobs with; each becomes one job
  Compound,    \* the chains and groups it may make
  Single,      \* other transactions: one with_delay() each
  User,        \* users who cancel jobs
  Key, NoKey,  \* identity keys
  MaxOnDone,   \* bound of the model: edges drawn by on_done
  MaxFailures  \* bound of the model: jobs that fail

Program == "program"

ASSUME DelayAssumption ==
  /\ Delayable \cap (Compound \cup Single) = {}
  /\ IsFiniteSet(Delayable) /\ IsFiniteSet(Compound)
  /\ Program \notin Single
  /\ NoKey \notin Key
  /\ MaxOnDone \in Nat /\ MaxFailures \in Nat

VARIABLES
  parts,    \* parts[c]: the parts of a chain (a sequence) or a group (a set)
  graph,    \* graph[o]: the edges of o._graph, pairs of objects
  direct,   \* _execute_graph_direct: the graph, the deque and what has run
  txn,      \* the transactions that delay, with the keys in their snapshots
  row,      \* the rows of queue_job
  dep,      \* dependencies["depends_on"] of every row
  cancel,   \* the open transactions of users
  failures

vars == <<parts, graph, direct, txn, row, dep, cancel, failures>>

building == <<parts, graph>>
database == <<row, dep, cancel, failures>>

Object  == Delayable \cup Compound
Job     == Delayable \cup Single

Unmade   == [kind |-> "none"]
NoRow    == [state |-> Absent]
NoCancel == [job |-> {}, writes |-> {}, stale |-> {}]
Idle     == [all |-> {}, edges |-> {}, queue |-> {}, ran |-> {}]

------------------------------------------------------------------------------
(* Chains, groups and on_done                                                *)

Parts(o) ==
  IF o \in Delayable THEN {}
  ELSE CASE parts[o].kind = "chain" -> {parts[o].of[i] : i \in DOMAIN parts[o].of}
         [] parts[o].kind = "group" -> parts[o].of
         [] OTHER                   -> {}

AllParts == UNION {Parts(o) : o \in Object}
Targets  == UNION {{e[2] : e \in graph[o]} : o \in Object}
Made(o)  == o \in Compound => parts[o] # Unmade

Last(s) == s[Len(s)]

\* The objects that _connect_graphs visits when it starts from o.
Visited(o) ==
  LET Near(x) == Parts(x) \cup UNION {{e[1], e[2]} : e \in graph[x]}
      Within[n \in 0..Cardinality(Object)] ==
        IF n = 0 THEN {o}
        ELSE LET S == Within[n - 1] IN S \cup UNION {Near(x) : x \in S}
  IN  Within[Cardinality(Object)]

Building == txn[Program].at = "build"

\* A chain of the objects in s, or a group of them.
Compounded(chain, s, spent) ==
  [kind |-> IF chain THEN "chain" ELSE "group",
   of |-> IF chain THEN s ELSE {s[i] : i \in DOMAIN s}, spent |-> spent]

Inner(chain, s) == IF chain THEN {<<s[i], s[i + 1]>> : i \in 1..(Len(s) - 1)} ELSE {}

\* DelayableChain.__init__ and DelayableGroup.__init__
MakeCompound(c, chain, s) ==
  /\ Building /\ parts[c] = Unmade
  /\ \A i \in DOMAIN s : Made(s[i]) /\ s[i] \notin AllParts \cup Targets
  /\ parts' = [parts EXCEPT ![c] = Compounded(chain, s, {})]
  /\ graph' = [graph EXCEPT ![c] = Inner(chain, s)]
  /\ UNCHANGED <<direct, txn, database>>

\* What the three on_done draw their edges from.
OnDoneFrom(o) ==
  IF o \in Delayable THEN {o}
  ELSE IF parts[o].kind = "chain" THEN {Last(parts[o].of)} ELSE Parts(o)

MayDraw ==
  Cardinality({e \in UNION {graph[x] : x \in Object} : e[2] \notin AllParts}) < MaxOnDone

\* on_done; the programs of the model draw no cycle, as Graph assumes.
OnDone(o, d) ==
  /\ Building /\ Made(o) /\ Made(d)
  /\ d \notin AllParts /\ o \notin Visited(d)
  /\ MayDraw
  /\ graph' = [graph EXCEPT ![o] = @ \cup {<<p, d>> : p \in OnDoneFrom(o)}]
  /\ UNCHANGED <<parts, direct, txn, database>>

\* Delayables that split has used: their _generated_job is True, and a graph
\* that they are in cannot be delayed.
Spent == UNION {parts[c].spent : c \in {x \in Compound : parts[x] # Unmade}}

\* A delayable as delayable() returns it: nothing joined to it yet.
Fresh(d) == d \in Delayable \ (AllParts \cup Targets \cup Spent) /\ graph[d] = {}

\* split of d: each batch of its records gets a new delayable.  What on_done drew
\* from d is not drawn from the chain or the group that takes its place.
Split(c, d, chain, batches) ==
  /\ Building /\ parts[c] = Unmade
  /\ \A i \in DOMAIN batches : Fresh(batches[i]) /\ batches[i] # d
  /\ parts' = [parts EXCEPT ![c] = Compounded(chain, batches, {d})]
  /\ graph' = [graph EXCEPT ![c] = Inner(chain, batches)]
  /\ UNCHANGED <<direct, txn, database>>

\* _create_graph_test_jobs, one round of its loop: a chain or a group of new
\* delayables follows one of those made in earlier rounds.
CreateTestJobs(c, chain, jobs, tail) ==
  /\ Building /\ MayDraw
  /\ parts[c] = Unmade /\ parts[tail] # Unmade /\ tail \notin AllParts
  /\ \A i \in DOMAIN jobs : Fresh(jobs[i])
  /\ parts' = [parts EXCEPT ![c] = Compounded(chain, jobs, {})]
  /\ graph' = [graph EXCEPT ![c] = Inner(chain, jobs),
                            ![tail] = @ \cup {<<p, c>> : p \in OnDoneFrom(tail)}]
  /\ UNCHANGED <<direct, txn, database>>

------------------------------------------------------------------------------
(* The graph of the jobs                                                     *)

\* _head and _tail of the three classes.  The chain asks its first part for its
\* tail and its last part for its head.
Ends[o \in Object] ==
  IF o \in Delayable THEN [head |-> {o}, tail |-> {o}]
  ELSE IF parts[o].kind = "chain"
  THEN [head |-> Ends[parts[o].of[1]].tail, tail |-> Ends[Last(parts[o].of)].head]
  ELSE [head |-> UNION {Ends[p].head : p \in Parts(o)},
        tail |-> UNION {Ends[p].tail : p \in Parts(o)}]

\* Mutant of Merged: the edges between objects are kept.
Unmerged(edges) == edges

\* _merge_graph: one edge between objects becomes edges between delayables.
Merged(edges) == UNION {Ends[e[1]].tail \X Ends[e[2]].head : e \in edges}

Vertices(o) == Visited(o) \cap Delayable

\* Mutant of Edges: the graphs of the parts are not visited.
EdgesOfTop(o) == Merged(graph[o])

\* _connect_graphs
Edges(o) == UNION {Merged(graph[x]) : x \in Visited(o)}

------------------------------------------------------------------------------
(* delay()                                                                   *)

KeysIn(states) == {row[j].key : j \in {k \in Job : row[k].state \in states}} \ {NoKey}

\* job_record_with_same_identity_key
ExistingKeys == KeysIn({WAIT_DEPENDENCIES, PENDING, ENQUEUED})

\* The program has joined what it wants to.
Built ==
  /\ Building
  /\ txn' = [txn EXCEPT ![Program].at = "new"]
  /\ UNCHANGED <<building, direct, database>>

\* The first query of a transaction takes its snapshot.
Begin(t) ==
  /\ ~Building /\ txn[t].at = "new"
  /\ txn' = [txn EXCEPT ![t] = [at |-> "open", keys |-> ExistingKeys, gone |-> {}]]
  /\ UNCHANGED <<building, direct, database>>

\* It commits; refused: the keys of the jobs that it did not store.
Over(t, refused) ==
  txn' = [txn EXCEPT ![t] = [at |-> "over", keys |-> refused \ {NoKey}, gone |-> {}]]

\* The program's objects are forgotten.
Forget ==
  /\ parts' = [c \in Compound |-> Unmade]
  /\ graph' = [o \in Object |-> {}]

NewRow(key, ready) ==
  [state |-> IF ready THEN PENDING ELSE WAIT_DEPENDENCIES, key |-> key, dated |-> FALSE]

ParentsIn(edges, v) == {e[1] : e \in {x \in edges : x[2] = v}}

\* Mutant of AllExist: one existing job is enough.
OneExists(t, V, keys) == \E v \in V : keys[v] \in txn[t].keys

\* All the jobs that have a key exist already.  Those without one do not count.
AllExist(t, V, keys) ==
  /\ \E v \in V : keys[v] # NoKey
  /\ \A v \in V : keys[v] = NoKey \/ keys[v] \in txn[t].keys

\* delay() of the object o and the commit of its transaction.
Delay(o) ==
  LET V == Vertices(o)
      E == Edges(o) IN
  /\ txn[Program].at = "open" /\ Made(o) /\ V \cap Spent = {}
  /\ \E keys \in [V -> Key \cup {NoKey}] :
       LET stored == IF AllExist(Program, V, keys) THEN {} ELSE V IN
       /\ row' = [j \in Job |-> IF j \in stored
                                 THEN NewRow(keys[j], ParentsIn(E, j) = {}) ELSE row[j]]
       /\ dep' = [j \in Job |-> IF j \in stored THEN ParentsIn(E, j) ELSE dep[j]]
       /\ Over(Program, {keys[v] : v \in V \ stored})
  /\ Forget
  /\ UNCHANGED <<direct, cancel, failures>>

\* Job.enqueue, which does for one job what delay() does for a graph of one.
EnqueueJob(s, k) ==
  /\ row' = [row EXCEPT ![s] = IF k \in txn[s].keys THEN NoRow ELSE NewRow(k, TRUE)]
  /\ Over(s, {k} \cap txn[s].keys)

\* DelayableRecordset: with_delay(identity_key = k).method(), and the commit.
DelaySingle(s, k) ==
  /\ txn[s].at = "open"
  /\ EnqueueJob(s, k)
  /\ UNCHANGED <<building, direct, dep, cancel, failures>>

\* must_run_without_delay: the method is executed in the caller's transaction;
\* the next one of the session may delay it.
RunWithoutDelay(s) ==
  /\ txn[s].at = "open"
  /\ txn' = [txn EXCEPT ![s] = [at |-> "new", keys |-> {}, gone |-> {}]]
  /\ UNCHANGED <<building, direct, database>>

\* with_delay() in any context, and a method called on what it returns.
WithDelay(s) == RunWithoutDelay(s) \/ \E k \in Key : DelaySingle(s, k)

\* A call of a method that _patch_job_auto_delay replaced; within a job, or in a
\* context that does not ask for a delay, it is executed.
AutoDelay(s) == RunWithoutDelay(s) \/ WithDelay(s)

\* root_vertices
Roots(V, edges) == V \ {e[2] : e \in edges}

\* delay() in a context without delay: the graph is executed at once.
DelayDirect(o) ==
  LET V == Vertices(o)
      E == Edges(o) IN
  /\ txn[Program].at = "open" /\ Made(o) /\ V \cap Spent = {}
  /\ direct' = [all |-> V, edges |-> E, ran |-> {}, queue |-> Roots(V, E)]
  /\ Over(Program, {}) /\ Forget
  /\ UNCHANGED database

\* Mutant of ExecuteNext: a vertex is queued by its first parent.
ExecuteNextEager(v) ==
  /\ v \in direct.queue
  /\ direct' = [direct EXCEPT
       !.ran = @ \cup {v},
       !.queue = (@ \ {v}) \cup {e[2] : e \in {x \in direct.edges : x[1] = v}}]
  /\ UNCHANGED <<building, txn, database>>

\* topological_sort yields v; depends_per_node drops to 0 for those whose
\* parents have all been yielded.
ExecuteNext(v) ==
  LET ran == direct.ran \cup {v} IN
  /\ v \in direct.queue
  /\ direct' = [direct EXCEPT
       !.ran = ran,
       !.queue = (@ \ {v}) \cup
         {n \in direct.all : v \in ParentsIn(direct.edges, n)
                             /\ ParentsIn(direct.edges, n) \subseteq ran}]
  /\ UNCHANGED <<building, txn, database>>

\* A method raises: the request fails and nothing of what ran is committed.
ExecuteRaises ==
  /\ direct.queue # {}
  /\ direct' = Idle
  /\ UNCHANGED <<building, txn, database>>

------------------------------------------------------------------------------
(* What becomes of the rows                                                  *)

\* Session me changes the states of rows: the snapshots of the others get old.
Change(me, new) ==
  LET changed == {j \in Job : new[j].state # row[j].state}
      gone == {row[j].key : j \in {k \in changed : new[k].state # PENDING}} IN
  /\ ~Building
  /\ row' = new
  /\ txn' = [t \in DOMAIN txn |->
               IF txn[t].at = "open" THEN [txn[t] EXCEPT !.gone = @ \cup gone]
               ELSE txn[t]]
  /\ cancel' = [u \in User |->
                  IF u = me \/ cancel[u] = NoCancel THEN NoCancel
                  ELSE [cancel[u] EXCEPT !.stale = @ \cup changed]]
  /\ UNCHANGED <<building, direct, dep>>

Nobody == "nobody"

Start(j) ==
  /\ row[j].state = PENDING
  /\ Change(Nobody, [row EXCEPT ![j].state = STARTED])
  /\ UNCHANGED failures

\* The children of j that wait and have all their other parents done: the SQL of
\* enqueue_waiting.
Released(j) ==
  {c \in Job : /\ j \in dep[c] /\ row[c].state = WAIT_DEPENDENCIES
               /\ \A p \in dep[c] \ {j} : row[p].state \in {DONE, Absent}}

\* set_done and enqueue_waiting (QueueJob has them in two transactions).
Finish(j) ==
  LET released == Released(j) IN
  /\ row[j].state = STARTED
  /\ Change(Nobody, [k \in Job |->
        CASE k = j          -> [row[k] EXCEPT !.state = DONE, !.dated = TRUE]
          [] k \in released -> [row[k] EXCEPT !.state = PENDING]
          [] OTHER          -> row[k]])
  /\ UNCHANGED failures

Fail(j) ==
  /\ row[j].state = STARTED /\ failures < MaxFailures
  /\ Change(Nobody, [row EXCEPT ![j].state = FAILED])
  /\ failures' = failures + 1

\* requeue of a failed job: set_pending.
Requeue(j) ==
  /\ row[j].state = FAILED
  /\ Change(Nobody, [row EXCEPT ![j] =
        NewRow(row[j].key, \A p \in dep[j] : row[p].state \in {DONE, Absent})])
  /\ UNCHANGED failures

\* What button_cancelled writes for the jobs of s, one after the other: each is
\* cancelled with those of its children whose parents all are by then.
CancelledBy(s) ==
  LET Cancelled(p, W) == p \in W \/ row[p].state \in {CANCELLED, Absent}
      After[n \in 0..Len(s)] ==
        IF n = 0 THEN {}
        ELSE LET W == After[n - 1] \cup {s[n]}
             IN  W \cup {c \in Job : /\ s[n] \in dep[c]
                                    /\ row[c].state = WAIT_DEPENDENCIES
                                    /\ \A p \in dep[c] : Cancelled(p, W)}
  IN  After[Len(s)]

\* The jobs that the wizard keeps of a selection; the form shows its button for
\* fewer states.
Cancellable(j) == row[j].state \in {PENDING, FAILED, ENQUEUED}

\* button_cancelled of the jobs in s, computed from the snapshot of the user's
\* transaction.
OpenCancel(u, s) ==
  /\ ~Building /\ cancel[u] = NoCancel
  /\ \A i \in DOMAIN s : Cancellable(s[i])
  /\ cancel' = [cancel EXCEPT ![u] =
       [job |-> {s[i] : i \in DOMAIN s}, writes |-> CancelledBy(s), stale |-> {}]]
  /\ UNCHANGED <<building, direct, txn, row, dep, failures>>

\* Mutant of CommitCancel: the children are left alone.
CommitCancelOnly(u) ==
  /\ cancel[u] # NoCancel /\ cancel[u].stale \cap cancel[u].writes = {}
  /\ Change(u, [k \in Job |-> IF k \in cancel[u].job
                              THEN [row[k] EXCEPT !.state = CANCELLED, !.dated = TRUE]
                              ELSE row[k]])
  /\ UNCHANGED failures

\* Only the job itself gets a date_cancelled: the SQL writes the state alone.
CommitCancel(u) ==
  /\ cancel[u] # NoCancel /\ cancel[u].stale \cap cancel[u].writes = {}
  /\ Change(u, [k \in Job |->
        IF k \in cancel[u].writes
        THEN [row[k] EXCEPT !.state = CANCELLED, !.dated = @ \/ k \in cancel[u].job]
        ELSE row[k]])
  /\ UNCHANGED failures

\* A row was changed since the snapshot: serialization error.
AbortCancel(u) ==
  /\ cancel[u].stale \cap cancel[u].writes # {}
  /\ cancel' = [cancel EXCEPT ![u] = NoCancel]
  /\ UNCHANGED <<building, direct, txn, row, dep, failures>>

\* autovacuum finds rows by date_done and date_cancelled alone.
Autovacuum(j) ==
  /\ row[j].state # Absent /\ row[j].dated
  /\ Change(Nobody, [row EXCEPT ![j] = NoRow])
  /\ UNCHANGED failures

------------------------------------------------------------------------------

Init ==
  /\ parts = [c \in Compound |-> Unmade]
  /\ graph = [o \in Object |-> {}]
  /\ direct = Idle
  /\ txn = [t \in {Program} \cup Single |->
              [at |-> IF t = Program THEN "build" ELSE "new", keys |-> {}, gone |-> {}]]
  /\ row = [j \in Job |-> NoRow]
  /\ dep = [j \in Job |-> {}]
  /\ cancel = [u \in User |-> NoCancel]
  /\ failures = 0

Triples == {s \in UNION {[1..n -> Object] : n \in 1..3} :
                 \A i, k \in DOMAIN s : s[i] = s[k] => i = k}

Pairs == {s \in Triples : Len(s) <= 2}

\* What a user selects: a job, or two in some order.
Selections == {s \in UNION {[1..n -> Job] : n \in 1..2} : s[1] = s[Len(s)] => Len(s) = 1}

BuildStep ==
  /\ Building
  /\ \/ \E c \in Compound, chain \in BOOLEAN :
          \/ \E s \in Triples : (chain \/ Len(s) <= 2) /\ MakeCompound(c, chain, s)
          \/ \E s \in Pairs, d \in Delayable : Split(c, d, chain, s)
          \/ \E s \in Pairs, tail \in Compound : CreateTestJobs(c, chain, s, tail)
     \/ \E o, d \in Object : OnDone(o, d)

DelayStep ==
  \/ Built
  \/ \E t \in DOMAIN txn : Begin(t)
  \/ \E o \in Object : Delay(o) \/ DelayDirect(o)
  \/ \E s \in Single : AutoDelay(s)
  \/ ExecuteRaises \/ \E v \in Delayable : ExecuteNext(v)

RowStep ==
  \/ \E j \in Job : Start(j) \/ Finish(j) \/ Fail(j) \/ Requeue(j) \/ Autovacuum(j)
  \/ \E u \in User : CommitCancel(u) \/ AbortCancel(u) \/ \E s \in Selections : OpenCancel(u, s)

Next == BuildStep \/ DelayStep \/ RowStep

Spec == Init /\ [][Next]_vars

------------------------------------------------------------------------------
(* Properties                                                                *)

Compounds ==
  [kind : {"chain"}, of : Seq(Object) \ {<<>>}, spent : SUBSET Delayable]
    \cup [kind : {"group"}, of : SUBSET Object, spent : SUBSET Delayable]

TypeOK ==
  /\ parts \in [Compound -> {Unmade} \cup Compounds]
  /\ \A c \in Compound : Parts(c) \subseteq Object \ {c}
  /\ graph \in [Object -> SUBSET (Object \X Object)]
  /\ direct \in [all : SUBSET Delayable, edges : SUBSET (Delayable \X Delayable),
                 queue : SUBSET Delayable, ran : SUBSET Delayable]
  /\ direct.queue \cup direct.ran \subseteq direct.all
  /\ txn \in [{Program} \cup Single ->
               [at : {"build", "new", "open", "over"}, keys : SUBSET Key,
                gone : SUBSET (Key \cup {NoKey})]]
  /\ row \in [Job -> {NoRow} \cup [state : States, key : Key \cup {NoKey},
                                   dated : BOOLEAN]]
  /\ dep \in [Job -> SUBSET Delayable]
  /\ cancel \in [User -> [job : SUBSET Job, writes : SUBSET Job, stale : SUBSET Job]]
  /\ \A u \in User : cancel[u].job \subseteq cancel[u].writes
  /\ failures \in 0..MaxFailures

\* The jobs of an object itself, without those that on_done adds.
Leaves[o \in Object] ==
  IF o \in Delayable THEN {o} ELSE UNION {Leaves[p] : p \in Parts(o)}

\* What the documentation promises: where a chain or an on_done puts one object
\* after another, all the jobs of the second come after all those of the first.
Promised(o) ==
  UNION {UNION {Leaves[e[1]] \X Leaves[e[2]] : e \in graph[x]} : x \in Visited(o)}

\* Paths along the given edges.
Ordered(edges) ==
  LET Path[n \in 0..Cardinality(Delayable)] ==
        IF n = 0 THEN edges
        ELSE LET P == Path[n - 1]
             IN  P \cup {<<q[1][1], q[2][2]>> : q \in {x \in P \X edges : x[1][2] = x[2][1]}}
  IN  Path[Cardinality(Delayable)]

OrderKept(o) == Ordered(Edges(o)) = Ordered(Promised(o))

\* No chain is the first or the last part of another chain, nor within it.
HasChain[o \in Object] ==
  o \in Compound /\ (parts[o].kind = "chain" \/ \E p \in Parts(o) : HasChain[p])

FlatEnds ==
  \A c \in Compound : parts[c].kind = "chain" =>
    ~HasChain[parts[c].of[1]] /\ ~HasChain[Last(parts[c].of)]

\* Whatever the program joins, the jobs of the graph it delays wait for each
\* other as the chains, groups and on_done say, no more and no less: as long as
\* no chain starts or ends with another chain.
FlatOrderKept ==
  Building /\ FlatEnds => \A o \in Object : Made(o) => OrderKept(o)

\* "A chain means that jobs must be executed sequentially" (delay.py:304), and
\* its parts may be chains (delay.py:301).
ChainsAreSequential ==
  \A o \in Object : Made(o) => Promised(o) \subseteq Ordered(Edges(o))

\* A graph executed without delay runs every job once its parents have run, and
\* stops only when all have.
DirectRunsAll ==
  /\ \A e \in direct.edges : e[2] \in direct.ran => e[1] \in direct.ran
  /\ direct.queue = {} => direct.ran = direct.all

\* A job that is not stored because of its identity key leaves a job with that
\* key that nobody had begun to run when the transaction took its snapshot: one
\* that still waits, or has moved on since.
KeyedWorkIsKept ==
  [][\A t \in DOMAIN txn : txn[t].at = "open" /\ txn'[t].at = "over" =>
       txn'[t].keys \subseteq
         KeysIn({WAIT_DEPENDENCIES, PENDING, ENQUEUED}) \cup txn[t].gone]_vars

\* A job left waiting for cancelled parents alone (nothing releases or cancels
\* it any more) has a parent that was cancelled along with its own parents, and
\* so has no date_cancelled, or two that users cancelled, at the same time
\* perhaps: the one cancelled parent of a job never leaves it behind.
Stranded(j) ==
  /\ row[j].state = WAIT_DEPENDENCIES
  /\ \A p \in dep[j] : row[p].state = CANCELLED

OnlyGrandchildrenStranded ==
  \A j \in Job : Stranded(j) =>
    \/ \E p \in dep[j] : ~row[p].dated
    \/ Cardinality(dep[j]) > 1

------------------------------------------------------------------------------
(* Inductive strengthenings, for the proofs of module DelayablesProofs        *)

\* KeyedWorkIsKept: a transaction that has not ended has stored nothing, and the
\* keys in its snapshot are those of rows that are there, or have moved on.
SnapshotInv ==
  /\ txn[Program].at # "over" => \A d \in Delayable : row[d] = NoRow /\ dep[d] = {}
  /\ \A s \in Single : dep[s] = {} /\ (txn[s].at # "over" => row[s] = NoRow)
  /\ \A t \in DOMAIN txn : txn[t].at = "open" =>
       txn[t].keys \subseteq ExistingKeys \cup txn[t].gone

Ended(p) == row[p].state \in {DONE, Absent}

\* A job gets ready when its parents have gone, which never come back; only what has
\* ended has a date.
ReadyInv ==
  \A j \in Job :
    /\ row[j].state \in {PENDING, STARTED, FAILED} => \A p \in dep[j] : Ended(p)
    /\ row[j].state \in {WAIT_DEPENDENCIES, PENDING, ENQUEUED, STARTED, FAILED}
         => ~row[j].dated

\* What a user is about to cancel is as it was in the snapshot, unless stale tells;
\* it has the children that have no other parent.
CancelInv ==
  \A u \in User :
    /\ \A j \in cancel[u].writes \ cancel[u].stale :
         row[j].state \in {WAIT_DEPENDENCIES, PENDING, ENQUEUED, FAILED}
    /\ \A p \in cancel[u].job \ cancel[u].stale, c \in Job :
         dep[c] = {p} /\ row[c].state = WAIT_DEPENDENCIES => c \in cancel[u].writes

StrandedInv ==
  \A j \in Job : row[j].state = WAIT_DEPENDENCIES =>
    /\ dep[j] # {}
    /\ \A p \in dep[j] :
         dep[j] = {p} /\ row[p].state = CANCELLED => ~row[p].dated

\* FlatOrderKept: a group is not empty, a chain has its edges, and what is joined has
\* been made.
ShapeInv ==
  /\ \A c \in Compound :
       /\ parts[c].kind = "group" => parts[c].of # {}
       /\ parts[c].kind = "chain" => Inner(TRUE, parts[c].of) \subseteq graph[c]
  /\ \A o \in Object : \A e \in graph[o] : Made(e[1]) /\ Made(e[2])

\* DirectRunsAll: what is in the deque is ready, and all that is ready is there.
DequeInv ==
  /\ direct.queue \cap direct.ran = {}
  /\ \A v \in direct.queue \cup direct.ran : ParentsIn(direct.edges, v) \subseteq direct.ran
  /\ \A v \in direct.all \ (direct.queue \cup direct.ran) :
       ~(ParentsIn(direct.edges, v) \subseteq direct.ran)

==============================================================================
