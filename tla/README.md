# TLA+ specifications of the job queue and the business modules around it

This directory holds the formal models of the repository: TLA+ modules
translated from its Python code, TLC configurations that check them on small
instances, and proofs that TLAPS checks for every size. The repository is a set
of Odoo add-ons for one company: a vendored and adapted `queue_job` (background
jobs with dependencies, channels and a runner of its own), and the company's
modules `a1_*` and `sh_warehouse_avg_costing` for sales, purchases, stock
transfers and valuation, some of which post their accounting through jobs.

`queue_job` carries the concurrency of the system and is modelled in the greatest
depth; the business modules have protocols of their own (forms that are older
than their rows, wizards, a shared file, sums kept in two places) and are modelled
where those can go wrong.

To check: `tlc -config X.cfg M` for the runs below, `tlapm M.tla` for
`QueueJobProofs`, `JobRunnerProofs`, `DelayablesProofs`, `ChannelConfigProofs`,
`TransferRequestProofs`, `OrderReturnProofs`, `WarehouseCostProofs` and `Induction`.

## 1. Inventory

| component | code | state | operations |
|---|---|---|---|
| Jobs and dependencies | `queue_job/job.py` | rows of `queue_job`: state, retry, eta, `dependencies` (parents, children) | `perform`, `store`, `set_pending/started/done/failed/cancelled`, `enqueue_waiting`, `cancel_dependent_jobs` |
| Job controller | `queue_job/controllers/main.py` | the job an HTTP worker is on, and its transaction | `runjob`: lock and start, perform, done; postpone, fail; release of dependents |
| Job model | `queue_job/models/queue_job.py`, `wizards/` | the user's transaction | `requeue`, `button_done`, `button_cancelled`, `requeue_stuck_jobs`, `autovacuum` |
| Channel manager | `queue_job/jobrunner/channels.py` | per channel `_queue`, `_running`, `_failed`, `_pause_until`; `_jobs_by_uuid` | `notify`, `remove_job`, `remove_db`, `get_jobs_to_run`, `get_wakeup_time` |
| Job runner | `queue_job/jobrunner/runner.py` | connection, pending notifications, client threads | `initialize_databases`, `process_notifications`, `run_jobs`, `_async_http_get`, recovery |
| Notification trigger | `queue_job/post_init_hook.py` | none | `queue_job_notify` on every write of a row |
| Delayables, graphs, identity keys | `queue_job/delay.py`, `models/base.py` | a graph under construction | `delay`, `on_done`, `group`, `chain`, `split`; check for an existing job; direct execution |
| Job functions and channels (records) | `queue_job/models/queue_job_function.py`, `queue_job_channel.py` | records of channels, retry patterns, the cached configuration of a function | create, rename, move, remove; lookup of channel and retry pattern |
| Accounting through jobs | `a1_stock_account` | a channel per company, the configuration file | `_validate_accounting_entries`: delay; create channel |
| Transfer requests | `a1_stock_transfer_request` | state of a request, its outgoing and incoming pickings | `action_*`, `_check_and_update_state`, `button_validate` |
| Sale and purchase returns | `a1_sale_return`, `a1_purchase_return` | quantities returned | wizards that compare with what is left; returns from pickings and in the form; confirm, cancel, reopen |
| Warehouse average cost | `sh_warehouse_avg_costing` | a cost per product and warehouse, next to the layers | read, average, write for each move; revaluation, landed costs |
| Other extensions | `a1_base`, `a1_product`, `a1_account`, `a1_sale`, `a1_sale_stock`, `a1_purchase`, `a1_stock`, `a1_stock_return_picking`, `a1_stock_report*` | fields of Odoo records | form defaults, computed fields, a report |

**How they interact.** A transaction that calls `delay()` inserts rows. The
trigger notifies the runner's connection, whose loop reads each notified row and
tells the channel manager. In a pass, jobs flow from their own channel down to
the root as capacities allow; the runner sets each job that the root yields to
`enqueued`, on an autocommit connection, and a client thread sends an HTTP
request. A worker locks the row if it is still `enqueued`, commits `started`,
performs the method in a second transaction that ends with `done`, and releases
the dependents in a third. Users and crons write the same rows from
transactions of their own.

**What is hard.** No component holds a lock on a job from its dispatch to its
end. The runner decides from a copy of the table; a request may be late, lost or
repeated; users overwrite states; PostgreSQL works at REPEATABLE READ (Odoo's
default), so a transaction computes from an old snapshot and only a row it
*writes* protects it; runner and workers die between two commits. In the business
modules a button is guarded by the form that shows it, not by its handler, so a
page loaded earlier calls it in any later state; wizards compare with what was
left when they opened; a configuration file is read, changed and rewritten by
whoever meets a new company; two sums that should agree are updated by different
code.

**What makes it correct.**

- jobs: parents before children; nobody waits for ever for parents that are done;
- controller: one execution of a job at a time, and its last write overwrites
  nobody's decision; an enqueued or started job has somebody who works for it;
- users: a job that ended comes back only because somebody wanted it;
- channels: a job is in one place of the tree and blocks what it should block; a
  pass starts all it can; sequential channels keep their order;
- runner: what it believes of a job is right or about to be corrected; no channel
  is overrun in the table; nobody starves; it sleeps no longer than it may;
- delayables: the jobs of a graph run in the order in which it was built; work
  that is dropped because of its identity key is done by the job that has the key;
- configuration: the limit of a company's accounting channel is in the file; jobs
  of one channel meet in one place of the runner;
- transfer requests: what left is what is expected at the destinations;
- returns: nobody returns more than was moved unless by a way that is known;
- costs: the average and the layers, the layers and the stock, stay together
  except through operations that can be named.

`PROJECT.json` lists the hazards with their lines and the properties that would
catch them.

## 2. Modules

| module | models | state ↔ code |
|---|---|---|
| `JobStates` | the states of `job.py:19-35`, `NOT_DONE` of `channels.py:12`, and `Absent` for a deleted row | |
| `QueueJob` | the table, the workers, the requests, users and crons | `state`, `retry`: columns; `worker[w]`: the point of `runjob` where `w` is, with what its `Job` object keeps (`ready`: the parents loaded by the first `store`; `retry`); `txn[u]`: what a user's open transaction will write; `stale[s]`: rows others wrote since the snapshot of `s`; `sent`: requests under way; `offered`: jobs the runner believes to be pending; `everDone`: history |
| `RetryPattern` | the retry pattern of a job function, from form to seconds | `pattern`: what a user entered; `column`: `retry_pattern` of the row, JSON; `tries`: `retry` of a job of the function |
| `Channels` | `ChannelManager` and `Channel` | `queue`, `running`, `failed`, `pause` per channel; `known` = `_jobs_by_uuid`; `eta` of the `ChannelJob`; `todo`: the generators of the current pass that are not exhausted; `now`: the time read by the pass |
| `LazyQueue` | `PriorityQueue` and `ChannelQueue`: heaps with lazy removal, beside the set of `Channels` | `soon` = `_queue`, `someday` = `_eta_queue`, each with `heap`, `known`, `removed`; `jobEta`; `sequential`; `popTime`: the time of the `pop` under way; `returned`: its result; `members`, `memberEta`, `allowed`: the set, its etas and what `Channels` says that `pop` may return |
| `JobRunner` | the loop of the runner between both: it extends `Channels`, and takes `INSTANCE QueueJob WITH offered <- Offered`, the jobs that some channel has in its queue | `phase`: down, loading, notify, run; `notes`: rows with a notification not yet handled |
| `Delayables` | chains, groups, `on_done`, `split`, the graph, identity keys, direct execution; cancelling | `parts`, `graph`: the objects a program builds; `direct`: the deque of direct execution; `txn`: transactions that delay; `row`, `dep`: columns; `cancel`: users' transactions; `failures` |
| `ChannelConfig` | where the capacities of channels come from | `file`: the option in the configuration file; `channel`: records of `queue.job.channel`; `session`: transactions that meet a company; `row`: jobs; `server`, `tree`, `capacity`, `at`: the runner, its channels and its jobs; `restarts`, `lost`: history |
| `TransferRequest` | stock transfer requests and their pickings | `state`, `lines`, `pickings`, `stock`; `page`: what each user's form shows |
| `WarehouseCost` | the average cost per warehouse of an AVCO product | `cost`: `sh.warehouse.cost`; `quantity`, `value`: sums of the layers; `layers`: those that entered, with `remaining_qty`; `onhand`: quants; `done`, `sold`: the moves in and the deliveries that are done; `transit`; `reads`: quantities that open transactions have read; `ops` |
| `OrderReturn` | return orders of a sale or a purchase line | `side`; `packing`: how many goods the unit of the line and `uom_po_id` hold; `shipped`, `returns`, `wizard` |
| `MCQueueJob`, `MCQueueParts` (`Channels`, `LazyQueue` and `RetryPattern`), `MCJobRunner`, `MCDelayables`, `MCChannelConfig`, `MCTransferRequest`, `MCWarehouseCost`, `MCOrderReturn` | instances for TLC | |
| `QueueJobProofs` | theorems about `QueueJob` and `RetryPattern` | |
| `JobRunnerProofs` | theorems about `Channels`, `LazyQueue` and `JobRunner` | |
| `DelayablesProofs`, `ChannelConfigProofs`, `TransferRequestProofs`, `OrderReturnProofs`, `WarehouseCostProofs` | theorems about the modules they are named after | |
| `Induction` | induction and recursion, also along a rank, and sums over finite sets, for these proofs | |

### QueueJob

*Transactions.* A worker's are `RunJob` (the locking `SELECT ... FOR
UPDATE`, `set_started`, commit: one step, as it is serialised by the lock),
`BeginPerform` .. `PerformDone` (snapshot at the first query of the job's method;
the commit fails if the row changed since) and `EnqueueDependents`. A postponed
or failed job is stored on a new cursor, whatever the row holds: `StoreAndLeave`.
What handles the exception may raise itself, before anything is stored: `postpone`
does when the retry pattern gives no number of seconds (`main.py:87-93`,
`job.py:837-858`). Then the request ends and the row stays `started` with no worker:
`HandlerRaises`.
A user's transaction is `Open*` (snapshot, decision and computation of all
writes) and `Commit` or `Abort`. The runner's statements are single steps on
autocommit connections. `EnqueueDependents` is one step too: its `UPDATE` reads
and writes in one statement and is followed by the commit; a conflict there is
`ReleaseFails`, because the second try of `main.py:52-68` runs in a transaction
that the error has already aborted.

*The runner.* `QueueJob` is an abstract specification of the runner: it reads rows
when it likes (`ReadRows`) and sends jobs that were pending when it read them,
however old that reading is, each once (`Dispatch`, which tests nothing of the
row, as `set_job_enqueued` does not). The runner with its channels and
notifications is `JobRunner`, which is checked, and proved, to implement it.

*Dependencies.* `Dependents` is the SQL of `_get_common_dependent_jobs_query`
evaluated on the rows the transaction sees. `ParentsDone` is `depends_on` with
deleted parents skipped. A worker's `Postpone` uses the parents it loaded, a
user's `OpenRequeue` those of its snapshot.

*Users.* `Requeueable` says from which states they requeue: `FormStates` (failed, as the
form offers, and enqueued, as the cron does) or `WizardStates` (all but waiting);
`Doneable` likewise from which they set to done: `FormDone`, where the form shows its
button, or `WizardDone`, any. The form offers nothing for a `started` job; a transaction
opened before may still try to commit once a worker executes it. The wizards, and a page
older than the row, spare such a job neither by lock nor by test. `Careful` says that
people do; where they do not, the worker's last write and the user's overwrite each
other, and nothing in the code or its documentation says which should win. `HandsOff`
says that users are careful or that nothing is offered for started jobs:
`queue_job_live`, `queue_job_set_done` and `job_runner_live` have users of the form who
are not careful, `queue_job_safety` and `job_runner` have careful users of the wizards.
A wizard's single transaction over several jobs is modelled as one per job, except for
cancelling, where the jobs of one transaction depend on each other: that is in
`Delayables`. `autovacuum` deletes jobs that ended long ago (30 days by default): no
worker is still on them. Children that the SQL cancels along with a parent get no
`date_cancelled` and are never deleted; this module does not keep dates and lets them go
as well; `Delayables` keeps the difference.

*Bounds.* `MaxRequests` bounds the requests of a job under way; `retry` counts to
`MaxRetries` and saturates (0: without limit).

### RetryPattern

The way of a pattern from the form through `_check_retry_pattern` (`Accepted`) and
JSON, whose keys are texts (`Stored`), back to numbers (`Parsed`) and to the seconds
by which a postponed job is delayed (`RetrySeconds`). `Edit` is the entry of a new
pattern, `SaveShown` the saving of the one that the form shows, which has been
parsed; `Perform` and `ResetTries` move the retries of a job. `QueueJob` leaves
seconds out; what a pattern that gives none does to the row is its `HandlerRaises`.
Keys that are no whole numbers and values nested in values are not modelled.

### Channels

A `ChannelQueue` is a set, and a job's `eta` says on which of its two heaps it
is; `Pops` is what `pop` returns: jobs that have come due join the others, the
first by rank is returned, unless the channel is sequential and the head of the
eta heap comes before it. That the set stands for the two heaps, whose removal is
lazy, is what `LazyQueue` is for. Its actions are the calls that a channel makes
(`AddObject`, `RemoveObject`, `GetWakeupTime`, and `pop` with its loop turn by turn:
`BeginPop`, `MoveDue`, `EndPop`) on two heaps and on one set, where the set follows
`Channels` itself (`Set == INSTANCE Channels`): its `PopsAt` says what may be popped, its
`Due` whose eta is forgotten. `ActsAsSet`: between calls both tell a channel the same.
Objects are instances, which may be equal in the order: `notify` makes a new
`ChannelJob` of a row whose old one may still lie in a heap, marked. `heappop` then
takes any of the first ones, and a marked one may stay behind its equal (`Peelings`).

`get_jobs_to_run` is a generator per channel that first exhausts those of its
children; `todo` holds the generators left, `Yield` takes a job out of one and
queues it in the parent, `Exhaust` ends one. Generators of sibling channels are
interleaved here in any order, which includes the code's. A channel with a
throttle pauses after each job (`pause`), and its generator yields one job in a
pass. `WakeupTime` collects, as `get_wakeup_time` does, the etas and pauses of the
channels that it reaches, and `Timeout` is what `wait_notification` makes of it.
`remove_db` takes the jobs away and keeps the pauses. Notifications are handled
between passes only, since the runner is one thread.

`notify` gets any state and any eta here, because the rows are other people's.

### JobRunner

`Listen` then `LoadJobs` (that order is the code's), `ProcessNotification` (the
row is read when the notification is handled, not when it was sent),
`BeginRunJobs`, `PassDown`, `SendJob`, `ExhaustChannel`, `Recover` (an exception
or the end of the process) and `RecoverInSend` (between `set_job_enqueued` and
the request). Every step of anyone that writes a row fires the trigger
(`NotesAfter`), also if the state does not change; the deletion of a `done` row
does not notify, and nobody listens while the runner is down. A notification is
kept per row, not per write: handling reads the current row, so later ones add
nothing. The runs leave etas and throttles out of this composition
(`MaxTime = 0`); the proofs do not.

### Delayables

A program first builds: `MakeCompound` (a chain or a group of what exists),
`OnDone`, `Split`, `CreateTestJobs`. `Edges(o)` is `_connect_graphs` and
`_merge_graph`: tails of an object are joined to heads of the next. Then it stores
everything in one transaction (`Delay`, with the search for identity keys in its
snapshot: `OneExists`, `AllExist`) or runs it at once (`DelayDirect`,
`ExecuteNext`, the deque of `delay.py:125`). Beside it, `Single` transactions
delay one job each through `with_delay` (`DelaySingle`). The stored rows are
started, finished, failed, requeued and deleted as far as identity keys and
cancellation see it. `OpenCancel` computes what a user's transaction will cancel:
the selected jobs one after the other, each with those children whose parents
are all cancelled by then, one level deep; `CommitCancel` writes it.

### ChannelConfig

`OpenSession` .. `CommitSession` is `_validate_accounting_entries` for a company
that has no channel yet: insert the record, read the file, truncate it, write it,
commit. The file is no part of the transaction, so `RollBack` leaves it.
Administrators create records, give them another name, another parent or both
(`WriteChannel`, with the names of all below recomputed: `CompleteName`), and remove
them. A session looks for the record of its company by its own name, wherever it is
(`Recorded`). `job_config` may keep the old name of a function's channel
(`JobConfigChannels`). The server runs with threads
or processes (`StartThread`, `StartPrefork`, `SpawnRunner`, `RecoverRunner`,
`PopRunner`, `StopServer`) and reads the option when it starts, truncated or not.
`Configured` is `simple_configure`, `Grown` is `get_channel_by_name` with
`parent_fallback` and `autocreate`, `Fallback` the search for a configured parent.

### TransferRequest

The handlers of the buttons test no state; the form hides those that do not fit
the state with which it was loaded. `Open` loads a page, and `ActionDraft`,
`ActionPost`, `ActionManagerApprove`, `ActionAmApprove`, `ActionReject` and
`ActionCancel` are guarded by the page only. `ButtonValidate` is the whole
`button_validate` on one picking or a batch of them: the check of demands and of
the stock, the pickings in for what left, backorders, and the new states of the
requests (`CheckState`).

### WarehouseCost

One action per operation on stock: `Receive`, `Deliver`, `ReturnDelivery`,
`ReturnOrder`, `TransferOut` (checked against the stock of all warehouses, as the code
does) and `TransferIn`, `Relocate` (a plain internal transfer, which writes no layer),
`Replenish` (between warehouses without the transit location), `Revalue`, `Land` (landed
costs). `Enter` and `Leave` are `product_price_update_before_done` and the layers that
the move creates. Amounts are exact: pairs of numerator and denominator.

*Corrections.* When the quantity of a move that is done is edited, the same methods run
with the difference as `forced_qty`: `RaiseIn`, `RaiseReturn` and `LowerIn` of a move
in, `RaiseDelivery` and `LowerDelivery`, `RaiseTransferOut` and `LowerTransferOut`.
A lowered receipt leaves at the standard price and does not update the cost; what is
lowered of a move out gets a layer without a warehouse; the layer of a raised return
order is valued once more as all that the move had brought.

*Transactions.* A move in reads the sum of the layers, which others insert into, and
writes only the line of the cost. `Read` is the snapshot of a transaction, and a move
in averages with what it has read, `Known`: that, or what is there now. Writing the line
makes other transactions that have read fail, so that they start again.

### OrderReturn

One line of one sale or purchase. Quantities are in units of measure: the wizards
return in the unit of the line, a return from a picking is converted, and rounded up
(`Up`), to the unit in which the product is bought (`uom_po_id`), the form copies the
lines of a sale in the product's own unit, and users choose any. Goods move in the
product's own unit; `x_returned_qty` adds the numbers of the lines as they are.
Pickings move whole units of the line, no unit is smaller than the product's own, and no
more goods are entered by hand than were ordered. Wizards read what is left when they open
(`OpenSaleWizard`, `OpenPurchaseWizard`, `OpenBillWizard`) and compare with it
when they are confirmed; returns are also made from a picking or by hand, edited,
confirmed, approved, received in parts with backorders, cancelled and reopened.

## 3. Runs

| run | asks | shows |
|---|---|---|
| `queue_job_safety` | two parents and a child, two workers, a runner with a stale view, a user who requeues or finishes jobs in any state but not while they are executed, all faults | parents first, single execution, ended jobs are reopened by users only, a job is left behind in three ways only (1,319,061 states) |
| `queue_job_live` | the same graph and fairness, `max_retries` 1; the runner may stop before the request, requests may be lost, the handling of an exception may raise; a user of the form, who does not look whether a worker is on a job | the executed row is `started`; no job stays `enqueued` for ever; children of done parents are released; while they wait, a worker is between `done` and the release (86,423 states) |
| `queue_job_set_done` (violation) | a user sets one parent to done while the other finishes | the child waits for ever |
| `queue_parts` | *channels*: a branch of three channels, the deepest sequential, the middle one with a throttle; three jobs, notifications of any kind, clock 0..2. *Heaps*: five objects, two equal with an eta, one with a later eta and before them otherwise, two without, of which one is equal to the first two once they are due; any sequence of calls, in a sequential queue and in another, clock 1..2. *Retry pattern*: all patterns over the keys 1, 5 and 10 with numbers, intervals, also reversed or of three ends, and texts; entered, saved again as shown, met after any number of tries up to eleven | *channels*: a job's place in the tree is one of four patterns, nothing is left of an unknown job; a pass is complete; a sequential channel keeps its order; the runner sleeps while nothing can be sent, and no longer. *Heaps*: the two heaps, with marked objects left in them, act as the set of `Channels`. *Retry pattern*: a postponed job gets the seconds of the greatest key it has reached, and none from a text or a reversed interval (184,049 states) |
| `job_runner` | the composition, stopped at any point and between `set_job_enqueued` and the request, exceptions in the handling of exceptions, users who requeue in any state or cancel | the view is right or about to be corrected; capacities hold in the table; every step of the runner is one that `QueueJob` allows (548,730 states) |
| `job_runner_live` | two jobs, one place, two retries, lost requests, a user of the form | the second job starves only if the first keeps coming back (141,162 states) |
| `delayables` | all programs with three delayables, two compounds and one `on_done`, delayed or executed directly beside another transaction with the same keys, one failure, one user who cancels | the graph has the order that was built; direct execution runs all; a job that is dropped for its key leaves one that will run; who is left waiting for a cancelled parent (909,059 states) |
| `delay_chains` (violation) | the same | a chain that begins or ends with a chain is not sequential |
| `channel_config` | two companies, two sessions that rewrite the file, records of depth two that are renamed, moved and removed, two jobs, one restart | the records are a tree; a company's entry is in the file unless two writers met or one stopped; jobs meet the limits their names promise, and jobs of one channel meet each other (1,735,776 states) |
| `transfer_request` | one request, two users with pages of any age, two destinations, four pickings | posted requests have distinct lines; what left is expected, and no more arrives; `in_transit` is true when it says so (1,038,616 states) |
| `warehouse_cost` | two warehouses, three kinds of orders, four operations with their corrections and early reads, a standard price of 9 | which operations alone separate the cost from the layers, and the layers from the stock (162,715 states) |
| `order_return` | two users, two pieces ordered of a product that is bought by the pair, two returns in any unit | which ways alone return more than was moved, or let goods be returned twice (767,908 states) |

`queue_parts` is one run over three specifications: a behaviour chooses one of the
parts at its start (`part`) and leaves the others in their initial state. They share no
variable, so its states are those of the three together: 87,131 of the channels,
91,710 of the heaps, 5,208 of the pattern.

The type invariants `HeapsTypeOK` and `PatternTypeOK` are theorems and in no run.

**Bounds.** Two workers are the least that can execute a job twice; the protocol's
conflicts are between two sessions and one row, or three sessions and a child with two
parents, which `Join` (two parents, one child), one user and two workers give. One
request at a time per job is enough for a late request to meet a reset and dispatched
job, since a request taken by a worker is no longer counted. The channels need two jobs
to compete and a third to join below them, three levels for `set_running` to stop
half-way, and three clock values for one job due, one waiting and one waiting longer. A
queue needs two objects with etas and two without for each heap to have a marked object
above or below another; with two of them equal, and a fifth that overtakes them, a
marked one may also be beside another. Of the retry keys, 10 comes before 5 as a text;
eleven tries pass them all. In `job_runner`, `j2` follows `j1` and both share the root's
one place; in `job_runner_live` two independent jobs share it. `MaxRetries` is 2 or 1
where liveness is asked about and 0 elsewhere.

Three delayables and two compounds give a chain in a chain, a chain in a group and the
converse, and a parent with two children; a child, its parent and its grandparent; two
jobs that a user cancels together. One concurrent transaction is enough for a conflict
over a key, two keys for a graph in which only one job's exists. Two sessions are the
least that lose an update of the file, two jobs the least that meet, names of depth two
the least in which a first part comes again. The jobs of that run are of one such
channel and of the companies'; a name that repeats its own first part is left to the
theorem. Two users and one request give two pages on one row; four pickings are an
outgoing one per destination and a second round, or a backorder and its incoming
picking. Four operations let a receipt, a transfer, its arrival and one more follow each
other in two warehouses, or a move and its correction beside a transaction that has
read; with two returns of two goods each wizard can find one, or two, already taken, or
both hidden in one unit of a pair.

Workers, users, sessions, delayables, warehouses and the parents of `Join` are
symmetric where runs say so; runs with liveness properties use no symmetry.

**Deadlock** is checked by `queue_parts`. The others may stop: all jobs have ended
and users and faults are restricted, or the number of operations, pickings,
returns, restarts or failures is used up.

**Fairness.** Workers: weak fairness of the steps with which the server takes a
request and goes on with a job, without the crashes. Users: an open transaction
commits or is aborted. The cron `requeue_stuck_jobs` runs every five minutes
(`data/queue_data.xml`) and sees a job that stayed enqueued: strong fairness, as
its transaction may be aborted and the job may move meanwhile. The runner's
thread: weak fairness of its loop; each notification is handled in the end, with
strong fairness, because `process_notifications` takes the whole list at each
turn of the loop while the model may begin a pass between two of them. No fairness
is assumed of users' decisions, time-outs and faults. `job_runner_live` is without
crashes and without exceptions in the handling of exceptions: a job that is left
`started` keeps its place in the channel, and others wait for it until somebody acts.

## 4. Proofs

All of them hold for every value of the constants: any set of jobs, graph, tree of
channels, capacities, throttles, numbers of workers and users and choice of faults;
any companies, channel names, requests, pickings, quantities and returns; any
warehouses, orders and prices; any queue and pattern; and any value of the bounds that
the runs name. They rest on the assumptions on the constants alone: the tree is a tree
(`TreeAssumption` and its companions in `Channels`), the table has finitely many rows
(`RowsAssumption`), the keys of retry patterns have at most two digits
(`PatternAssumption`), bounds and quantities are natural numbers. What is said "under
`HandsOff`" also assumes that users leave executing jobs alone, by care or because the
form is all they use, and `NoChildIsForgotten` assumes `Undisturbed`.

### The table

`QueueJobProofs!TypeCorrect`: `Spec => []TypeOK`.

`QueueJobProofs!ParentsAreFirst`: `Spec => []ParentsFirst`; it does not need
`HandsOff`. `ParentsFirst` is not inductive, because sessions write what they
computed earlier. `ParentsInv` adds that

- a row that a worker is on, or that an open transaction may still write, exists
  (`RowsExist`), so that no write brings a deleted row back;
- `done` is remembered (`DoneIsRemembered`), so that what a snapshot saw as done
  still counts;
- the job of every busy worker has its parents settled (`WorkersSettled`), as it
  writes `pending` or `failed` without looking;
- what an open transaction writes is settled already, or by the `done` that it
  writes along with it (`WritesSettled`);
- the jobs that the runner believes to be pending are settled (`OfferedSettled`).

The lemma `Monotone` says that `everDone` grows and deleted rows stay deleted, so
that "settled" is never lost; `Snapshots` says what a step of one session does to
the snapshots of others.

`QueueJobProofs!ExecutionIsSingle` and `ExecutedRowsAreStarted`: under
`HandsOff`, `SingleExecution` and `ExecutingIsStarted` always hold. The invariant
adds `CommitsAreSafe`: no transaction that can still commit writes the row of a
job being executed. A transaction opened before `RunJob` is stale for that row
afterwards, one opened later is kept off by `HandsOff`. It also adds
`OfferedNotTaken`: the runner never believes a job to be pending that is enqueued
or started, because nobody else enqueues and it forgets the job as it does; so its
untested write cannot hit an executed row, however stale its view. The reset of a
timed-out request does test `enqueued`.

`QueueJobProofs!EndedJobsStay`: under `HandsOff`, `OnlyUsersReopen`. It follows
from the same invariant, step by step. The run has no cancelling user, to keep it
small; the theorem covers every choice of operations.

`QueueJobProofs!NoJobGoesStale`: `Spec => NoStaleJob`, under no assumption on users or
faults. A job that is under way loses the one who works for it in three ways
(`Abandoned`): the runner stops between `set_job_enqueued` and the request, its
worker is killed, or what handles its exception raises. Every other step that ends
a request or takes a worker off a job also moves the row on.

`QueueJobProofs!NoChildIsForgotten`: under `Undisturbed`, `NoForgottenChild`. The
assumption names what the violation of `queue_job_set_done` and a dead worker show
to be needed: no crash and no failed release, users who set nothing to done and
requeue failed and enqueued jobs only. `ReleaseInv` then says why a child is not
missed: what is done stays done, the runner never believes a done job to be
pending, a worker on a job loaded its parents as done, and no user's transaction
writes a job that ended.

### Retry patterns

`QueueJobProofs!PatternTypeCorrect` and `PostponementsArePromised`:
`PatternSpec => []PostponedAsConfigured`. `ColumnInv` says that what is parsed from
the column is the pattern that was entered, except that texts have become sequences of
characters; so saving what the form shows changes nothing, and the check, which
a sequence of characters must pass again, may only refuse it. It rests on `TextsAreRead`
(`int` undoes `str`). The rest is about the loop: `InOrder` lists the keys so that they
ascend (`KeysInOrder`), the keys reached are a beginning of that list
(`ReachedKeys`), and the loop ends at its last (`LoopEnds`), which is the greatest key
that `Applies` names. That keys have one or two digits keeps `Text` a finite case; it
is the only bound the theorem has.

### The channels

In `JobRunnerProofs`: `ChannelTypesCorrect`, `FlowIsConsistent`, `OrderIsKept`,
`PassesAreComplete` and `SleepIsRight` for `ChannelsSpec`. `ConsistentFlow` gives a job
one of four patterns along the path from its channel to the root: nowhere, blocking its
own channel, running in all, or waiting in one and running below it. Each operation is
proved to take one pattern to another (`ChannelInv`); `set_running` and `remove`, which
walk up the tree and may stop on the way, are described by the sets of channels they
reach. `PassIsComplete` needs that a generator ends only after those of its children and
that nothing a channel yields later makes room in one that has ended (`PassInv`).

`SleepIsRight`: `SleepsUntilNeeded`. A channel whose generator has ended is at rest
(`AtRest`): its pause is over and forgotten, or to come; with room and no pause, none
of its jobs is due and it pops nothing. So every time that `get_wakeup_time` collects
is to come. A job that can be sent at a later time waits for the first paused channel
on its way, counted from the root, or for an eta in its own: both are among those
times. A pass that ends has exhausted finitely many channels, whatever `Channel` is.

`HeapsTypeCorrect` and `HeapsActAsSets`: `QueueSpec => []ActsAsSet`, for any number of
objects, equal in the order or not. `HeapsInv` says that the members of the set are the
objects in the heaps that are not marked, and what a `pop` under way has changed so far:
an eta that the set still has may be forgotten already, if the object has come due.
Several objects may be first, so the theorem is about whatever `heappop` takes: marked
objects that are before all others are peeled off and those beside the first may be, and
in each case the top of the heap is one of the least of those not marked. When the loop
has ended none with an eta is due, and the rest of `pop` compares the two tops, by their
places in the order, that `PopsAt` compares.

### The runner

`JobRunnerProofs`, whose specification composes the table and the channels:

- `ViewIsRight`: `[]ViewAgrees`. The invariant `RowsAndPlaces` joins `ChannelInv`
  with `ViewRight`: every row that is enqueued or started, and every row without a
  notification to come, is placed in the tree as its state demands. Rows under way
  are right even with a notification pending, because nobody but the runner
  enqueues and it has put the job there itself. Between `LISTEN` and the load
  nothing is claimed.
- `CapacitiesHold`: `[]CapacityRespected`. While the runner is connected, the jobs
  under way in the table are among those that run in its channels, whose number
  the capacities bound; while it is not, their number can only fall, and the
  next load counts them again (`CountsRight`). The sending of a job adds one where
  `pop` found room.
- `RunnerImplements`: `Spec => ImplementsQueueJob`. Under the mapping of `offered`
  to the jobs that are queued in a channel, every step of `JobRunner` is one of
  `QueueJob` or a stutter: handling a notification or loading is `ReadRows`, sending
  is `Dispatch`, the pass is a stutter as it moves jobs between queues only; workers,
  users and clients take the steps of `QueueJob` itself. The theorems about the
  table so carry over to the composition.

### Delayables

`DelayablesProofs`, for any number of delayables, compounds, transactions and users:

- `TypeCorrect`. It carries that no chain or group is a part of itself (each part
  was made before), on which the recursive definition of `Ends` rests.
- `RefusedWorkIsKept`: `KeyedWorkIsKept`. `SnapshotInv` says that an open
  transaction has stored nothing, and that the keys it saw are those of rows still
  there or of rows that have moved on since.
- `StrandedHaveMoreParents`: `[]OnlyGrandchildrenStranded`. `CancelInv` describes
  what an open transaction of a user will write: whatever others did to its rows
  since the snapshot makes its commit fail, and the children that have no parent
  but the cancelled one are among what it writes. `ReadyInv` keeps dates from rows
  that have not ended, `StrandedInv` is the property in inductive form.
- `FlatOrderIsKept`: `[]FlatOrderKept`. `ShapeInv` says that a group has parts, that a
  chain has connected each of its parts with the next, and that what is connected
  has been made. By induction along the depth of objects, the edges of an object in
  which no chain begins or ends with a chain are the promised ones.
- `GraphsRunInOrder`: `[]DirectRunsAll`. `DequeInv` says that what is in the deque is
  ready and that what is ready is in it or has run; that nothing stays unready needs
  a graph without a cycle. `LaidOut` gives one: each outermost object, with all within
  it, has an interval of numbers of its own, the parts of an object lie within its
  interval, and every edge leads to a later interval. A new compound or `on_done` moves
  the intervals of one outermost object past those of another. The jobs of an edge are
  within its ends, so their numbers grow along every graph.
- `JobsWaitInNoCircle`: the rows stored from a graph depend on each other without a
  circle, by the same numbers. No run checks this one.

### Configuration

`ChannelConfigProofs`, for any number of companies, sessions and jobs, and names of
any length:

- `TypeCorrect`, with `TreeInv`: the runner's channels contain all the parts of their
  names, so that a job is always in one of them.
- `RecordsStayATree`: `[]RecordsAreATree`. A record that is moved takes all below it
  along, and is not moved below itself: after `CompleteName` the parent of each name is
  still the name of a record.
- `EntriesStayInFile`: `[]EntriesAreKept`. `EntriesInv` claims the same of what each
  session has read and is about to write, for the companies whose record is
  committed or about to be; two sessions that rewrite at once are both counted as
  `lost`.
- `OneNameOneChannel`: `[]SameChannel`. A job stays where its name would put it now
  (`ResolvedInv`): the channels that the runner creates meanwhile are below an
  existing one, and catch no name that does not repeat its first part.
- `OwnChannelsLimitJobs`: `[]OwnChannelsLimit`. `LimitsInv` writes a job's channel as
  a beginning of its name followed by the whole name, where the beginning covers
  all configured channels above.

### Transfer requests

`TransferRequestProofs`, for any number of requests, users, products, destinations
and pickings. `IInv` joins `TypeOK`, `DistinctLines` and `InTransitIsAccurate` with

- `RowsInv`: no page, picking or line is about a request that is not there; a page
  that shows a request past its draft, and a picking, belong to distinct lines;
- `MovesInv`: a picking has one move per line, and a received one has brought what
  was expected;
- `PairedInv`: there is a bijection between the pickings out that are done and the
  pickings in, along which the one expects what the other took, line by line.

`ButtonValidate` extends the bijection by the pickings it creates, `Unlink` restricts
it, every other step leaves both sides as they were. `NothingIsLostInTransit`
(`[]ExportIsReceivable`) follows: the sums over both sides are equal along the
bijection, and what arrived is a part of what was expected (`SumAlongBijection`,
`SumOfSomeIsLess`). `LinesStayDistinct` and `TransitIsAccurate` are parts of `IInv`.

### Returns

`OrderReturnProofs`, for any quantity and any number of users, deliveries and returns:

- `CountedForever`: `GoodsAreCounted`. `ReturnsInv` bounds what came back on a return,
  with what is still expected, by its quantity, and says what a draft and a cancelled
  return have.
- `WizardsGuard`: `WizardsReturnWhatIsLeft`, for any units. `WizardInv` says that an
  open wizard that saw every return for what it is offers, in goods, no more than was
  left. A wizard does not see a return that is not linked, as those made in the form are
  not, and sees too little of one in a larger unit than the line's (`Undercounted`): it
  is among the exceptions (`Misled`). For the rest, what the numbers on the returns add
  up to, in units of the line, is no less than the goods on them (`SumOfMultiples`).

### Warehouse cost

`WarehouseCostProofs`, for any warehouses, orders, quantities and prices and any
number of operations, over exact amounts (the code's are floats, which are rounded):

- `TypeCorrect`, from `CostInv`: besides the types, `_run_fifo` never takes more from a
  layer than it has, and a warehouse where a move is done has a cost line, without which
  landed costs would have nothing to be added to.
- `LayersAreTheStock`: `LayersFollowStock`. The moves of an order are summed one by
  one on both sides (`Running`), and `Leave` takes the same from both unless the
  warehouse has no cost. The exceptions are the operations and corrections that write
  no layer, or one without the warehouse.
- `CostIsOfTheLayers`: `CostFollowsLayers`. Amounts are kept in lowest terms, so that
  two amounts that are worth the same are equal, and equations between them are
  proved over a common denominator. By induction over the moves of an order, the
  average times the quantity grows by what the layers are worth; the other operations
  add as much to both. The exceptions that the property names are the only steps
  where the two amounts have different sources; a move in that was averaged with a
  quantity others have changed since is one of them.

### Induction

The prover cannot instantiate theorems that take an operator. `Induction` states
induction and definition by recursion with sets and functions instead, and derives
from them that `SumFunction` of the community modules is a sum: of nothing, of one
more, along a bijection, of some of the numbers; that a recursion whose values come
from elements of lower rank has a solution, on which the functions over nested chains
and groups rest; and that what grows within a finite set comes to an end.

All inductive invariants were checked by TLC before their proofs.

### Only model-checked

Liveness under fairness is out of the prover's reach: `EnqueuedMovesOn`,
`ReadyChildReleased` and `NoStarvation` are checked by TLC only. Every invariant and
action property of a passing run is a theorem.

## 5. Where the code and its documentation disagree

With a run that shows it:

1. **Set to done.** `readme/USAGE.md:98-101` promises that a parent "manually set
   to done" resolves the dependency. The release is computed in a snapshot that
   does not see another parent's concurrent `done`; if both do that, nobody
   releases the child and nothing looks at it again (`queue_job_set_done`). Two
   workers alone are safe: each releases in a transaction after its own commit.
   A requeue of the *child* from the wizard while its parent runs again has the
   same end: it reads the parent before its `done` and commits `wait_dependencies`
   after the release.
2. **Chains of chains.** `delay.py:304-306` says that the jobs of a chain are
   executed sequentially. `_head` of a chain returns the tail of its first part and
   `_tail` the head of its last (`delay.py:330-334`), so where a chain begins or
   ends with a chain the wrong jobs are connected (`delay_chains`). Without such
   chains the order is exactly the one that was built (`FlatOrderKept`).

Met while modelling; the models behave as the code does:

- `channels.py:322-324` says that a sequential channel waits for a job of higher
  priority with an eta; `pop` looks at the one with the earliest eta only.
- `channels.py:1038` says "wait until all parent jobs are done", but the branch is
  `pass`: a queued job that goes back to waiting stays queued and is sent.
- `set_job_enqueued` has no condition on the state: a job cancelled after its last
  notification becomes enqueued and runs.
- `channels.py:987` looks for a configured parent by the parts of a name; where a
  name repeats its first part further down, a job may get another channel's limit
  (`Homonym` in `ChannelConfig`).
- `delay.py:288` returns within its loop: when all keys of a graph exist, only the
  first job is replaced by the existing one.
- A delayable that `split` has used up cannot be delayed itself (`delay.py:568`).
- A retry pattern with a text or a reversed interval passes `_check_retry_pattern`;
  the postponement then raises and the job stays `started` with nobody on it
  (`HandlerRaises`), and keeps its place in the channel. The documentation's
  "5 first retries" are four: the fifth already gets the next value.
- The check of the stock counts all warehouses (`stock_picking.py:317`), and the
  pickings of a batch are compared one by one, so that together they may take more
  than there is. A page of an old state approves a request again and makes a second
  round of pickings; cancelling a request in transit and deleting it deletes the
  pickings of goods on their way. A request with a cancelled incoming picking stays
  `in_transit`, and one may be `done` while outgoing pickings are open.
- A cancelled sale return whose goods came back lets them be returned again.
- A return from a picking is written in `uom_po_id` (`stock_return_picking.py:78-81`,
  `:84-87`), while `x_returned_qty` adds numbers of any unit (`sale_order_line.py:26-32`,
  `purchase_order_line.py:31-37`): 24 pieces that came back as 2 dozen count as 2, and
  a fresh wizard offers 22 of the 24 once more.
- A plain internal transfer between warehouses moves the stock and neither layers nor
  cost: what wrote its layers is commented out (`stock_move.py:226`, `:252-255`).
- Corrections of done moves leave the cost and the layers apart: a receipt that is
  lowered leaves at the standard price, what is lowered of a move out gets a layer
  without a warehouse, and a return order that is raised is valued at its whole quantity
  once more (`stock_move.py:162-217`, `a1_sale_return/models/stock_move.py:8-43`).
- The average is computed with a sum of layers that a concurrent transaction may have
  changed; it fails only if it wrote the line of the cost too (`stock_move.py:139-160`,
  `:237`), which a delivery does not.
- Two sessions that rewrite the configuration file at once lose an entry, which is
  not written again; a server that starts while the file is truncated has no
  limits.

## 6. Not modelled

- Several databases of one runner (they share only the channel tree, and each has
  the protocol of one), HTTP authentication, logging.
- Serialisation of jobs to JSON, access rights, chatter, views, related actions,
  the `create_test_job` routes, the parser of the text of the channels option.
- Inter-company transfers (`stock_picking.py:137-252`, `:344-408`,
  `stock_transfer_request.py:420-486`): unreachable, as `transfer_request_type`
  admits internal requests only. `create_manually_svl_in_out_vals`
  (`stock_move.py:251-255`): nothing calls it. Products tracked by serial numbers.
- Refunds and bills of returns: with them the run of `OrderReturn` is too large
  to finish.
- FIFO and standard price products, currencies and rounding in `WarehouseCost`;
  inventory adjustments; Odoo's later correction of what left without stock
  (`_run_fifo_vacuum`); two first moves into a warehouse at once, which would each
  create its line.
- Keys of retry patterns that are no whole numbers, and values nested in values; a
  channel whose parent is below itself.
- Accounting entries, rates and amounts in words, form defaults, master data, the
  stock report: sequential data entry on top of Odoo's own flows, which are not in
  this repository.

## 7. Plan

Done: sections 2 to 4. Left, the most useful first:

1. Refunds beside `OrderReturn`, in a module of their own.
2. Several databases of one runner: `JobRunner` with an index.
