# A TLA+ model of the HiveMind cluster

The repository is an orchestrator (`src/orchestrator`, an axum server over
PostgreSQL and Redis), a worker and command line client (`src/node-client`), a
library they share (`src/common`) and a key generator. A user submits a prompt;
the orchestrator turns it into a small plan of sub-tasks, pushes those that are
ready to a Redis stream, takes the workers' results, pays a credit receipt for
each and completes the job.

There is hardly a transaction in this code: every SQL statement commits on its
own, every replica runs every loop, and delivery to workers is at least once. The
models are therefore cut at the statements: one action per SQL statement or
Redis command that another process can come between, and a request, a loop
iteration or a worker may end after any of them.

Contents: [inventory](#inventory) · [modules](#modules) · [runs](#runs) ·
[what the code does not keep](#what-the-code-does-not-keep) ·
[fairness](#fairness) · [proofs](#proofs) · [not modelled](#not-modelled) ·
[plan](#plan)

## Inventory

| Component | Code | State | Operations | Hard behaviour | Correct means |
|---|---|---|---|---|---|
| Job submission | `routes/jobs.rs` | `jobs`, `sub_tasks` | `submit_job`: insert the job, then its plan row by row; `job_status`, `list_jobs` read | no transaction: others see and work on half a plan; an insert fails midway | a job gets its whole plan or nothing |
| Dispatcher | `task_manager.rs` `dispatch_ready_tasks` | `sub_tasks.status`, the stream | every 500 ms, per replica: claim up to 50 ready rows (`SKIP LOCKED`), then `XADD` each | several replicas; a crash or a failed `XADD` after the claim | dependency order; each row claimed and pushed once |
| Result ingestion | `routes/tasks.rs` | `sub_tasks`, `reputation_events`, `credit_receipts` | `submit_task_result`: look up the node, load the row, validate, mark, record, pay | requests race for one task; redelivery; death between two statements | paid once; no payment without work; a closed task stays closed |
| Finalization | `task_manager.rs` `finalize_job_if_ready` | `jobs.status`, `total_cost_credits` | count open rows, sum receipts, update the job | the last results interleave; the sum fails and becomes 0.0 | every finished job is completed, with a bill that covers its receipts |
| Work stream and worker | `runner.rs` | the stream, its group, the pending list, each worker's batch | `XGROUP CREATE`, `XAUTOCLAIM`, `XREADGROUP`, infer, `POST`, `XACK` | crash with a batch; lost replies; an entry claimed from a worker that is only slow; late answers | nothing delivered is forgotten |
| Request authentication | `middleware/auth.rs`, `cleanup_expired_nonces` | `request_nonces` | timestamp window, nonce insertion, a second layer for `/admin`, pruning | copies side by side; clocks at both ends of the window; pruning at the boundary | a nonce is remembered for as long as its message is fresh, so that the message is served once; its first copy is not refused |
| Node registry and admin | `routes/nodes.rs`, `routes/admin.rs` | `nodes` | register (upsert), heartbeat, ban, unban, two lists | a ban during a request; two statements per ban | a ban stops new work and is recorded |
| Reputation | `recompute_reputation_scores` | `nodes.reputation_score`, `reputation_events` | every 60 s: one update over the nodes that are not banned | interplay with ban and unban; events leave the window after 30 days | the score follows the events in the window |
| Credits | `common/src/credits.rs` | the amounts on receipts | `node_credit_share` | computed over the tasks complete so far, each taken for an Edge node's; a second result overwrites tokens; `u32` sums | shares stay in the executors' pool; work is paid |
| Retry state machine | `complete_task`, `fail_task` | `sub_tasks.retry_count` | reset or fail a task | called by nothing in this commit | - |
| Task DAG | `dag.rs`, `TaskDag` | none | `build_dag`, `ready_indices` | called by nothing but tests; the dispatcher has the order in SQL | accepted graphs never block |
| Validation, PII | `validator.rs`, `privacy.rs` | none | string checks | - | - |
| Rate limiting | `middleware/rate_limit.rs` | counters in memory | not mounted by `main.rs` | - | - |
| Wallet | `wallet.rs`, `identity.rs` | the key file and its mode | create or load the key, at the start of every command | first runs overlap; a crash between create, write and chmod | one machine is one node; the key ends whole and private |
| Command line client | `node-client/src/main.rs` | the key in memory | `register`, `start`, `wallet`, `job` | several commands at a time; `job wait` has no limit | no command works under a key that the file does not have |
| Configuration, TLS, key generator | the rest | none | start-up | - | - |

How they interact. `submit_job`, the dispatcher and `submit_task_result` meet
only in the database. The dispatcher and the workers meet in the stream, the
workers and `submit_task_result` in an HTTP call whose status decides whether an
entry is acknowledged. Housekeeping shares a loop with the dispatcher and, every
120th turn, prunes nonces and recomputes scores. All routes are behind the
signature middleware. The key in the wallet file is what ties a machine to a row
of `nodes`.

`PROJECT.json` lists the hazards of this code one by one, each with its line and
the properties that watch it.

## Modules

| Module | Models | Extends |
|---|---|---|
| `JobPlan` | the plan of each job tier | |
| `TaskLifecycle` | abstract: what is promised about sub-tasks | |
| `TaskBoard` | submission, dispatch, results, finalization on the job tables | `JobPlan` |
| `WorkerStream` | stream, group, pending list, worker loop | |
| `Pipeline` | the two together | `TaskBoard`, `WorkerStream` |
| `TaskDag` | the task graph: what `build_dag` accepts, what `ready_indices` returns | |
| `DispatchPlan` | the plans as task graphs | `TaskBoard`, `TaskDag` |
| `RequestAuth` | the signature middleware and its nonces | |
| `NodeRegistry` | nodes, bans, scores | |
| `NodeClient` | one machine's commands and its key file, driving the registry | `NodeRegistry` |
| `PayoutLedger` | the amounts one job pays | `JobPlan` |
| `FiniteSums` | lemmas about sums over finite sets and induction over subsets | |
| `TaskBoard_proofs`, `DispatchPlan_proofs`, `Pipeline_proofs`, `RequestAuth_proofs`, `PayoutLedger_proofs` | theorems | their module |
| `TaskBoardBilling_proofs` | theorems about payment and completion | `TaskBoard_proofs` |
| `NodeClient_proofs` | theorems about the registry, then about the client that drives it | `NodeClient` |
| `MCTaskBoard`, `MCRequestAuth`, `MCPayoutLedger` | small instances | their module |
| `MCPipeline` | small instances of `Pipeline`, with the properties of `DispatchPlan` | `Pipeline`, `DispatchPlan` |
| `MCNodeRegistry` | a small instance of registry and machine | `NodeClient` |

Definitions headed "Slip:" are plausible mistakes in the definition after them.
No specification uses them. Put in that definition's place, a slip breaks the
property it is paired with in `PROJECT.json` ("mutants"), which shows that the
property is about the code and that the bounds let it fail.

### TaskBoard

A task is `<<job, index>>`; `rows[j]` counts the inserted rows, `status`,
`assigned`, `jobStatus`, `totalCost` are columns, `events` and `receipts` count
the rows of the two append-only tables per task and node, `claims` is what a
replica holds between its `UPDATE ... RETURNING` and its `XADD`s, `published`
what is on the stream. `request[q]` is the program counter of one
`submit_task_result` call:

| `pc` | next statement | action |
|---|---|---|
| `idle` | node lookup | `BeginResult` |
| `load` | `SELECT` the row, guard, `validate_output` | `AcceptResult`, `RefuseDouble`, `RefuseOutput` |
| `mark` | `UPDATE sub_tasks` | `MarkComplete` |
| `reputation` | `INSERT INTO reputation_events` | `RecordReputation` |
| `receipt` | share and `INSERT INTO credit_receipts` | `PersistReceipt` |
| `count` | `SELECT COUNT(*)` | `CountOpenTasks` |
| `sum` | `SELECT SUM(credits)` | `SumCredits`, `SumCreditsFails` |
| `finish` | `UPDATE jobs` | `CompleteJob` |

The claim is one action: the CTE locks the rows it selects, and a row that
another transaction changed meanwhile is checked again or skipped. Any node may
report any published task at any time. An amount of credit is left out; a sum is
the bag of receipts it covers, which is what tells a right bill from a wrong one.

### WorkerStream and Pipeline

An entry is its index in the stream. Which consumer holds a pending entry
decides nothing in this loop, because workers claim only what is stale and read
only what is new; so the pending list is a set, and `stale` those idle for more
than 30 s. A worker may be slow without being dead: its entries go stale and are
claimed while it still works on them. `Pipeline` joins an `XADD` of the
dispatcher to the stream and a `POST` of a worker to a request of the board;
`serving[w]` is the HTTP connection. An HTTP timeout or a crash cuts it; the
handler may then go on, and it may be dropped where it stands: `axum::serve`
(`main.rs:86`) drops the future of a handler whose client has gone. Each action of
`Pipeline` takes its step on the board from `TaskBoard` as it is, or leaves the
board alone, so that what holds of every behaviour of the board holds here by
construction; only what stream and workers add is checked.

A worker's Redis connection is opened once and never again (`runner.rs:61-64`).
`link` says whether it is alive. Once it is lost, with a reply or between two
commands, every later command fails, the errors are swallowed, and the worker
works off the batch it has and then turns round with nothing until it is
restarted (`CommandFails`).

### TaskDag and DispatchPlan

`TaskDag` is the graph code of the repository: `Accepted` is `build_dag`
returning `Ok` (1 to 64 tasks, edges in bounds, no self-loop, a topological
order), `ReadyIndices` is `ready_indices`. A topological order exists exactly when
every non-empty set of tasks has one that waits for none of the set, which is how
`Acyclic` says it (`AcyclicIsSortable` proves that the two are the same). No route
calls the graph, so it has no specification of its own. The dispatcher's order is
a WHERE clause over the positions of the rows that are there (`Eligible` of
`TaskBoard`). `DispatchPlan` takes the plans of `submit_job` for graphs
(`PlanEdges`), to show that `build_dag` would accept them, and states that the
WHERE clause never locks a job.

### RequestAuth

One clock, in units of any length: `Skew` is the 30 s window on either side,
`Ttl` the 60 s a nonce is stored. A copy of a message passes the timestamp test
and at most `MaxDelay` later inserts its nonce; both layers of an admin route do
it. Signatures are not modelled: a message that is not well signed never reaches
the nonce table.

### NodeRegistry

`registered`, `tier`, `banned`, `recent` (seen within five minutes) and `score`
are the row of a node. The scores are in hundredths: baseline 50, +1 per result,
-100 per ban, clamped to 0 .. 100. Only the events of the last 30 days count
(`task_manager.rs:315`): `window` has them in the order in which they were
inserted, and `AgeEvent` lets the oldest one go at any time, so that a ban's effect
ends when its event leaves, or when 80 results are in the window beside it.
`banEvents` counts the ban events of any age, `bans` is a history variable.
`banCall` and `earning` are the calls between their two statements.

### NodeClient

A machine with one wallet path and several commands at a time. `keyFile` is
`"absent"`, `"partial"` (created or truncated, not written yet) or the key in it,
`keyMode` its permissions. `command[c]` follows `load_or_create_key`:

| `pc` | next call | action |
|---|---|---|
| `ended` | `path.exists()` | `LoadKey`, `FindNoKey` |
| `create` | `generate()`, `fs::write` creates or truncates | `CreateKeyFile` |
| `write` | `fs::write` writes | `WriteKey` |
| `protect` | `set_permissions(0600)` | `RestrictMode` |
| `ready` | the command itself | `RegisterCommand`, `ReportResult`, `EndCommand` |

Any of the calls may fail or be the last (`AbandonKey`); what it did to the file
stays. A key and the node it registers are one value. `ClientNext` takes
registrations and result look-ups only from commands that hold a key, and all
other steps from the registry, so that it implements `NodeRegistry`.

### PayoutLedger

The requests of one job again, now with tokens and amounts. Weights and
multipliers are tenths, a share is rounded down, token sums wrap at
`TokenModulus` (2^32 in a release build). Every share is halved:
`nodes.jobs_completed` is read for the new-node rate and written by nothing.
The code has `f64`, where a small share is small and not nothing; so
`SmallUnit` chooses the unit of credits small enough that even the least score
against five full rows is worth one. `submit_job` refuses a budget below 0.01
(`jobs.rs:37`, enforced at `jobs.rs:70`), so that every job has one.

## Runs

Passing:

| Run | Instance | States, time | Shows |
|---|---|---|---|
| `board` | 1 Standard job, 2 nodes, 2 replicas, 2 requests, 1 fault; symmetry | 1.7 M, 3-4 min | dispatch order, single claims, the guard, payment and billing, and that the board implements `TaskLifecycle` |
| `pipeline` | 1 Premium job, 1 worker, 2 requests, 1 fault or 1 mishap; symmetry of requests | 421 k, 1 min | entries are acknowledged only for complete tasks, answers reach the worker that waits, and the dispatcher never locks a job |
| `pipeline_live` | 1 Standard job, 2 workers, 1 request, batches of 2, 1 fault or mishap and the drop of the handler it cuts off, fairness | 474 k, 2 min | accepted jobs finish unless a handler was dropped or a claim lost, and then hang in the two known ways only; the pending list drains while nothing fails |
| `request_auth` | 2 messages (one of them an admin request), 2 copies each, both in progress at once, skew 2, ttl 4, delay 1, 13 ticks | 290 k, 40 s | nonces outlive messages, single use for a first copy that comes `MaxDelay` or more after its window opens, no false replay, pruning |
| `node_registry` | 2 keys, 2 commands, 2 administrators, 2 requests, 2 bans, 2 results in 30 days, 1 fault, 1 crash | 381 k, 1-2 min | bans stop new work and are recorded, scores follow the events of 30 days; the key file settles, whole and private, and one machine is one node |
| `payout_ledger` | 1 Standard job, 2 requests, an Edge node's report and a Pro node's that wraps, 1 fault; symmetry | 1.0 M, 20-35 s | how far beyond the pool a job pays, that shares computed over the full job add up (nodes no better than Edge), work is paid |

Why these bounds are enough. Jobs do not interact except through a replica's
batch, so one job shows the races; two replicas, two requests and two workers are
what each race needs, and the plan has three positions, so that an order can be
broken in the middle. One fault may hit any statement of any actor: the
interesting ones are single (two faults are two of the same kind, and the
properties with `faults = 0` in front say what holds without any). The
timestamps 3 and 4 with skew 2 put copies at both ends of the window, at its
edges and beyond, and 13 ticks are enough for a nonce to expire, be pruned and
its message come back. `MaxCopies`, `MaxGains`, `MaxBans`, `MaxFaults`,
`MaxMishaps`, `MaxCrashes`, `Horizon` are the bounds of the models;
`DispatchLimit` (50) and `BatchSize` (5) are the code's own, except in
`pipeline_live`.

Four choices need a reason. `pipeline` has a Premium job, because only that plan
has two rows at one position, which may be dispatched and answered side by side;
to afford it, `MCOneFailure` allows a fault or a mishap and not one of each.
`pipeline_live` allows one failure of either side and, after it, the abort of the
handler whose client is gone (`MCOneFailureAndDrop`); the two workers are alike
until then, so it is `n1` that is hit and `n2` that goes on. It has batches of
two: the job has three entries, so a batch can be too small for what is stale, and
one entry that never settles must not starve the others. Bans
and results do not touch the key file, so `MCOneStory` follows them only while no
command creates a key, in full where one first run made the key, and one ban and one event in the window
where overlapping first runs made two. It
bounds what is reached and stops no recomputation of scores, so fairness means
what it says. Where symmetry is used no temporal property
with fairness is checked. Deadlock is not checked, because all of these systems
may come to rest: every job done, every bound reached.

The properties, most of which relate several actors:

- `PositionOrder`, `ClaimedOnce`, `ImplementsLifecycle`: no task is handed out
  before those at smaller positions are inserted and complete, and at most once,
  with replicas, half-inserted plans and results interleaved.
- `PaidThenClosed`: once a task is complete and nobody is paying for it, no
  request passes the guard again, however often it is redelivered.
  `PaidOncePerRequest`: so a task is paid at most as often as requests can be
  served at a time, which is as much as the guard keeps (`double_pay`).
- `NoLostFinalize`, `BillIsWhole`, `AssigneePaid`, `ReputationBeforeCredit`: the
  three separate statements of finalization never leave a finished job without
  somebody who will complete it; once nobody finalizes it any more its total covers
  every receipt, those of late second results included, unless the last two
  finalizations overlapped (`overlapped`); the node a row names last was paid. All
  but the last are about behaviours without a failure: after one, the code promises
  none of them.
- `AckedIsComplete`, `AnswersReachTheirWorker`, `StreamIsPublished`; `JobsFinish`,
  `EntriesSettle`.
- `SomeTaskMoves`: whatever part of a plan is inserted, a job with an open row has
  one that is ready or dispatched.
- `RememberedWhileFresh`, `SingleUse`, `ReplayedOnlyAfterUse`, `NoncesPruned`.
- `BannedEarnsOnlyEarlier`, `BanIsRecorded`; `MarkFollowsWindow`: a node that is not
  banned ends below 0.3 for as long as the bans of the last 30 days outweigh its
  results, although its score was frozen while it was banned, and comes back once
  they do not.
- `KeyFileKept`: a key in the file with nobody at work on it is never replaced.
  `KeyIsWholeAndPrivate`: overlapping first runs end with a whole key and mode
  0600, whoever was last at each call. `OneIdentity`: unless two first runs
  overlapped, no command works under a key the file does not have, even when the
  run that made it died.
- `PaysWithinHalfPoolPerTask`: nodes no better than Edge get at most half of the pool
  for each task of the job, in whatever order results race and shares are computed.
  `FullJobSharesAddUp`: of these, the shares computed when every row is complete stay
  within half of the pool together; earlier ones are left out, and `over_pool` shows
  why. `WorkIsPaid`. In all three a row that was marked twice is left out: whose
  tokens its receipts are computed from is anybody's.

## What the code does not keep

Six runs end in a violation of what a comment or a document of the repository
says. Each takes a second or less.

| Run | Property | What happens |
|---|---|---|
| `double_pay` | `OneReceiptPerTask` | The guard reads the status, a later statement writes it. An entry that went stale under a slow worker goes to a second one; both pass the guard and both are paid. |
| `partial_plan` | `CompleteJobDidItsPlan` | The first rows of a plan are dispatched and completed while the rest is still being inserted; the job is completed without it. |
| `skipped_entry` | `EveryEntryPickedUp` | The consumer group is created at `$`: what was pushed before is never delivered. |
| `stranded` | `DispatchedIsPushed` | After a failed `XADD`, or a crash between claim and push, rows stay `dispatched` and are on no stream. Nothing claims them again. |
| `admin_locked_out` | `ReplayedOnlyAfterUse` | Both layers of an admin route consume the same nonce: the first copy of every admin request is refused as a replay. |
| `over_pool` | `ExecutorPoolKept` | Each share divides by the tasks complete so far: five Edge nodes are paid 75.8 % of a Premium job's budget, each at the halved rate, where the pool is 70 %. |

Further observations that no run shows:

- The formula in `credits.rs:18` divides a node's score by the scores of all tasks,
  each with its node's tier. `submit_task_result` takes every complete row for an
  Edge node's (`tasks.rs:156-157`, "exact tier not stored per-task"), and keeps the
  tier in the node's own score. A Pro node's share is three times, a Cluster node's
  eight times what the formula gives it: the first result of a job pays a Pro node
  105 % of the whole budget (10500 of 10000 in the instance of `payout_ledger`),
  where `credits.rs:61` has 70 % for all executors together, and that at a new
  node's half rate. `FirstShareBeyondBudget` proves it for every job.
- "single-use, stored for 60 s" (`auth.rs:7`) has one gap. When the first copy of a
  message is inserted just as its window opens (a fast clock), its nonce expires as
  the window closes; a second copy that passed the timestamp test at that moment
  and is inserted after the pruning is served as well. The premise of `SingleUse`
  takes this case out.
- A handler that is dropped, because its client timed out or died, between marking
  its row (`tasks.rs:119`) and finalizing (`tasks.rs:224`) leaves a complete row
  without a receipt, and the retry is answered 400 (`tasks.rs:82`). If it was the
  last open row of the job, the job hangs for ever (`Orphaned`). Its entry never
  leaves the pending list; `EntriesSettle` speaks only of behaviours without a
  failure.
- Of two requests that finalize one job side by side, the one with the older sum
  may write last.
- Entries that never settle are claimed again and again, oldest first. As many as
  a batch holds starve every later stale entry whenever they are idle for 30 s
  before the next turn, as when inference on the batch takes that long; with
  `BatchSize = 1` `JobsFinish` fails.
- `ban_expires_at` and the deadline of a job are read by nothing;
  `nodes.jobs_completed` is incremented by nothing.
- The shipped client reports no tokens, so that its receipts are worth 0.

Where two first runs do overlap, `OneIdentity` has nothing to say: each goes on
with its own key, and the one whose key was overwritten is a node that no later
command can be. A run that dies between `fs::write` and `set_permissions` leaves
a key that later commands load without mending its mode, and one that dies before
the write leaves a file that no command can parse.

`NodeRegistry` has the ban routes at work although `admin_locked_out` shows that
they cannot be reached as the routers are nested: it models the handlers.

## Fairness

`pipeline_live` assumes weak fairness of: a submission's statements; each
replica's claim and its pushes (the loop turns every 500 ms and logs errors
instead of ending); a handler while its client waits for it (tokio runs it on); of
a handler whose client has gone, that it goes on or is dropped, and nothing about
which; each worker's own loop, the start after a crash included (a supervisor
restarts it), and its `POST`, which assumes that inference ends; and the growing
of idle time. Nothing is assumed of failures. A worker that has lost its Redis
connection is not restarted, because its process goes on: it turns round with
nothing, and the jobs finish because the other worker, `n2`, keeps its connection.

It starts from `ReadyInit`, where the workers are up and Redis has the consumer
group from an earlier start: otherwise `skipped_entry` applies. A failure may then
leave a job open in two ways, which `JobsFinish` names: `Orphaned`, every row
complete and no request left that will complete the job, after a handler was
dropped or failed; and `Stranded`, a row that was claimed and will not be pushed.
That these are the only two is what the run shows: whatever a crash, a timeout, a
lost reply or a refused output costs, another delivery repairs it.

`RequestAuth` assumes that handlers, housekeeping and the clock go on,
`NodeRegistry` and `NodeClient` that housekeeping recomputes scores again and
again. Nothing is assumed of commands.

## Proofs

All theorems hold for any number of jobs, nodes, replicas, workers, requests,
messages, commands and copies, and for every bound the named assumptions allow.

- `TaskBoard_proofs`. `BoardInv` is `BoardTypeOK`, `PositionOrder`, `ClaimedOnce`
  and `RowsBehindWork`. The last is needed because the first three do not say
  that what is claimed, published or reported has a row in the right state: a
  result for a pending row would break the order. From it: `TypeCorrect`,
  `DispatchOrder`, `SingleDispatch`, and `BoardImplementsLifecycle` (each step
  maps to a step of the life cycle or to a stutter).
- `TaskBoardBilling_proofs`. `ClosedForGood` is an action property proved from
  `BoardInv`. `BillInv` adds to `BoardInv` that jobs not submitted have no rows,
  that a request past a statement has left that statement's row behind
  (`RequestBacked`), and that a complete row's assignee is paid or being paid
  (`AssigneeBacked`); it gives `FinalizeNotLost` and
  `AssigneeIsPaid`.
  `QuietBillIsWhole` needs `WholeInv` beside it: unless finalizations overlapped
  at most one request of a job is between sum and update (`Alone`), and once every
  row is complete and nobody will still sum, that request, or the jobs row when
  there is none, has the whole sum (`Whole`). `ReputationComesFirst` needs an
  invariant of its own: that receipts do not exceed events says nothing of two
  requests that have both written an event and owe a receipt, so `EventsAhead`
  counts them, with the cardinality of `Owed`.
- `DispatchPlan_proofs`. `AcceptedGraphMoves` is about every graph and state: a
  graph `build_dag` accepts, with open tasks and none under way, has a ready one.
  `PlansAreAccepted` shows that the plans of all tiers are such graphs;
  `NeverLocked` follows from the type invariant of the board and the order of
  positions.
- `Pipeline_proofs`. The lemma `PipelineStepIsBoardStep` notes that each step is one
  of the board or leaves it alone; this is how the actions are put together, so it
  is no result, but it carries `BoardInv` over. `DeliveryInv` is the types of stream and loops,
  `StreamIsPublished`, `AnswersReachTheirWorker`, `AckedIsComplete` and
  `AckedWhenComplete` (a worker about to acknowledge does so for a complete
  task). Each part needs the others: an acknowledgement is right because the
  answer was this worker's, and that because its connection was cut when it timed
  out. It gives `PipelineTypeCorrect`, `StreamHoldsPublished`,
  `AnswersFindTheirWorker` and `NothingDeliveredIsForgotten`.
- `RequestAuth_proofs`. `AuthInv` is the types, `CheckedInTime` (a copy before
  its insertion is at most `MaxDelay` past a test inside the window),
  `Remembered` and `ServedOnce`; from it `NonceOutlivesMessage` and
  `ServedAtMostOnce`. The assumption that makes it true is `Ttl >= 2 * Skew`
  (60 s and 30 s in the code, so with nothing to spare). `OnlyCopiesAreReplays`
  assumes that no admin request carries the admin key; `admin_locked_out` shows
  that it is false otherwise. Its invariant is that a first copy is alone and
  finds no nonce before its own insertion (`FirstCopyIsFirst`), and that nobody
  inserts in the second layer (`OneLayer`).
- `NodeClient_proofs`, the registry. `RegistryInv` adds to the types that no
  request has seen more bans than happened; then a new ban is later than every
  request under way. From it `RegistryTypeCorrect` and `BanStopsNewWork`.
  `BansAreRecorded` counts the administrators between the two statements of a
  ban. `ScoresFollowWindow` is the step that `MarkFollowsWindow` rests on, for every
  window, however many results and bans it holds: each recomputation puts a node
  that is not banned on the side of 0.3 where its window says (`EarnsBelow`). What is
  left to fairness, and to TLC, is that a recomputation comes.
- `NodeClient_proofs`, the client. `ClientImplementsRegistry` maps each step of a command to a
  registry step or a stutter, with the fairness, and carries the registry's
  theorems over (`ClientBanStopsWork`). `ClientInv` says where keys come from, that the first key is
  written while nobody else has one, and that whatever is unfinished about the
  file has a command at work on it (`SomebodyFinishes`); from it
  `KeyFileSettles`, `KeyEndsPrivate` and `OneMachineOneNode`.

- `FiniteSums`. The community modules define a sum over a set by a fold, which
  computes by recursion, and the library's induction theorems take an operator,
  which no prover here can instantiate. Both are gone round by an argument about
  the smallest subset that fails: `SetInduction` says, of a set and not of an
  operator, that what holds of a set whenever it holds of its proper subsets
  holds; the fold is unrolled into a table of partial sums (`SumIsTable`), and
  from it follow the facts that are used: `SumPick`, `SumIsNat`, `TermOfSum`,
  `SumSame`, `SumAtMost` and `SumInjected` (terms that are bounded by different
  terms of another sum add up to no more).
- `PayoutLedger_proofs`. `LedgerInv` is the types (`LedgerTypes`), `OneAward`
  (a row marked once has at most one receipt or one request that will issue it),
  `SharePending` (the row holds the report of the request that marked it until
  its share is computed) and `FairShare` (what holds of a share from then on). A
  share is computed from the rows complete at one moment and inserted, and
  judged, at later ones; `FairShare` keeps what stays true: its bound, and, when
  it was computed over the full job, its proportion of the job's score. From it
  `LedgerTypeCorrect`, `WorkPaid`, and by `SumInjected` `FullJobBounded` and
  `JobPaysAtMostPerTask`, which says how far `over_pool` can go, half of the pool
  for each task. `FirstShareBeyondBudget` says what these two leave out: while one
  row is complete the job has the score of an Edge node's row (`FirstJobScore`), and
  three or eight times that, of half the pool, is more than the budget.

The findings have exact conditions, proved as well:

| Finding | Holds where | Theorem |
|---|---|---|
| `stranded` | until something fails | `OnlyFaultsStrand` |
| `double_pay` | a task is paid once where requests are served one at a time, and never more often than requests can be served at a time | `OneAtATimePaysOnce`, `DoublePayIsBounded` |
| `partial_plan` | in every behaviour where no request counts the rows of a job before its submission is answered | `PlanDoneWhenSeededFirst` |
| `skipped_entry` | where the group was created on an empty stream | `EarlyGroupMissesNothing` |
| `admin_locked_out` | where no admin request carries the admin key | `OnlyCopiesAreReplays` |
| `over_pool` | no more than half of the pool for each task, where no row is marked twice and no node is better than Edge | `JobPaysAtMostPerTask` |

`DoublePayIsBounded` counts: a task's receipts and its payers (requests past the
guard that have not paid) together never exceed the requests, because a request
passes the guard only while the task is open, and while it is open nobody has
been paid for it (`PaymentsBounded`).

Assumptions on constants are the named `ASSUME`s (`BoardAssumption`,
`PipelineAssumption`, `AuthAssumption`, `RegistryAssumption`,
`ClientAssumption`, `LedgerAssumption`, `SmallUnit`); TLC evaluates each in a
run. Requests, nodes and administrators are finite sets there, which the counting
arguments and the sums need. `SmallUnit` is used by `WorkPaid` and
`FirstShareBeyondBudget`.

Model-checked only: all liveness (`JobsFinish`, `EntriesSettle`, `NoncesPruned`,
`MarkFollowsWindow`), because fairness speaks of `ENABLED`, which is out of the
prover's reach. Every invariant and every action property of the passing runs is
a theorem.

## Not modelled

- `complete_task`, `fail_task`: called by nothing in this commit. Whatever a
  model of them showed would not be a behaviour of the program.
- Reading routes (`job_status`, `list_jobs`, `job wait`, `flagged_nodes`): no
  state.
- String checks, PII, prompts, outputs, proof hashes, the JSON in front of
  `build_dag`: an output is accepted or not, by free choice.
- Signatures, key generation and TLS: library calls.
- The client's receipt store: nothing saves a receipt to it.
- Rate limiting: not mounted.
- Minimum tiers: `min_tier` is put on the stream and compared by nobody.
- Floating point: shares are integers rounded down.

## Plan

Done, in this order: `JobPlan`, `TaskBoard` with `TaskLifecycle`, its proofs,
`WorkerStream` and `Pipeline`, `RequestAuth` and its proofs, `NodeRegistry` and
its proofs, `PayoutLedger`; then `TaskDag` and `DispatchPlan`, batches smaller
than the pending list, `NodeClient`, and the proofs of `DispatchPlan`,
`Pipeline`, `NodeClient`, `ReputationBeforeCredit`, `BanIsRecorded` and
`ReplayedOnlyAfterUse`; then `FiniteSums` with the proofs of `PayoutLedger`, and
the conditions of the findings.

Left, should the code come to it: `complete_task` and `fail_task` once something
calls them, beside `submit_task_result` (a late failure against a completion);
the receipt store once something saves to it; the deadline of a job once
something enforces it.
