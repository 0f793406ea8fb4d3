------------------------------ MODULE TaskBoard ------------------------------
(***************************************************************************)
(* The orchestrator's work board: jobs, sub_tasks and credit_receipts in   *)
(* PostgreSQL, and the three pieces of code that write them while they run *)
(* side by side, each statement a transaction of its own:                  *)
(*                                                                         *)
(*   submit_job          (routes/jobs.rs)   inserts a job, then its plan;  *)
(*   dispatch_ready_tasks (task_manager.rs) one loop per replica claims    *)
(*                        ready rows, then pushes them to the stream;      *)
(*   submit_task_result  (routes/tasks.rs)  one request per delivered      *)
(*                        task, ending in finalize_job_if_ready.           *)
(*                                                                         *)
(* Any node may report any task that is on the stream, at any time and any *)
(* number of times: delivery is at least once and unordered (WorkerStream  *)
(* models the delivery).  A crash, an error of a statement and a cancelled *)
(* request end a loop iteration or a request where it stands; at most      *)
(* MaxFaults of them happen.                                               *)
(*                                                                         *)
(* A task is a pair <<job, index in the plan>>.  What an inference puts    *)
(* out is left out: the validation pipeline may refuse any output.  The    *)
(* amount on a receipt is left out too; a sum of credits is the receipts   *)
(* it covers.                                                              *)
(*                                                                         *)
(* A definition headed "Slip:" is a plausible mistake in the definition    *)
(* after it.  No specification uses it; put in that definition's place, it *)
(* must break the property PROJECT.json pairs it with.                     *)
(***************************************************************************)
EXTENDS JobPlan, FiniteSets, Functions

CONSTANTS
  Jobs,           \* jobs that may be submitted
  TierOf,         \* the tier each is submitted with
  Nodes,          \* registered nodes that are not banned
  Replicas,       \* orchestrator processes, each with its dispatch loop
  Requests,       \* result requests the orchestrator can serve at a time
  DispatchLimit,  \* rows one dispatch may claim (LIMIT 50)
  MaxFaults,      \* bound: crashes, failed statements, cancelled requests
  None            \* no task, no node, no total yet

ASSUME BoardAssumption ==
  /\ TierOf \in [Jobs -> JobTier]
  /\ DispatchLimit \in Nat \ {0}
  /\ MaxFaults \in Nat
  /\ None \notin Nodes
  /\ IsFiniteSet(Requests) /\ IsFiniteSet(Nodes)

VARIABLES
  submission,   \* how far the submit_job call of each job got
  rows,         \* how many sub_tasks rows of each job are inserted
  status,       \* sub_tasks.status (of the rows that are inserted)
  assigned,     \* sub_tasks.assigned_node_id
  jobStatus,    \* jobs.status
  totalCost,    \* jobs.total_cost_credits
  overlapped,   \* did the last finalization of the job to begin run beside
                \* another one?  (history, read by no action)
  events,       \* task_complete rows of reputation_events
  receipts,     \* credit_receipts rows, counted per task and node
  claims,       \* rows a replica has claimed and not pushed yet
  published,    \* tasks on the Redis stream
  request,      \* where each result request stands
  faults        \* faults so far

jobVars     == << submission, rows >>
resultVars  == << assigned, jobStatus, totalCost, overlapped, events, receipts >>
streamVars  == << claims, published >>
boardVars   == << submission, rows, status, assigned, jobStatus, totalCost,
                  overlapped, events, receipts, claims, published, request, faults >>

PlanOf(j) == SubtaskPlan[TierOf[j]]

Tasks == UNION { {j} \X (1 .. Len(PlanOf(j))) : j \in Jobs }

Position(t) == PlanOf(t[1])[t[2]].position

TasksOf(j) == {t \in Tasks : t[1] = j}

Exists(t) == t[2] <= rows[t[1]]

Award == Tasks \X Nodes
NoAward == [a \in Award |-> 0]

\* SELECT SUM(credits) of a job: the receipts the sum covers.
JobReceipts(j) == [a \in Award |-> IF a[1][1] = j THEN receipts[a] ELSE 0]

Idle == [pc |-> "idle", task |-> None, node |-> None, sum |-> NoAward]

Steps == {"load", "mark", "reputation", "receipt", "count", "sum", "finish"}
ActiveRequest == [pc : Steps, task : Tasks, node : Nodes, sum : [Award -> Nat]]

Fault == /\ faults < MaxFaults
         /\ faults' = faults + 1

-----------------------------------------------------------------------------
(* submit_job                                                              *)

\* INSERT INTO jobs: the row is there, with none of its tasks.
SubmitJob(j) ==
  /\ submission[j] = "none"
  /\ submission' = [submission EXCEPT ![j] = "seeding"]
  /\ jobStatus' = [jobStatus EXCEPT ![j] = "pending"]
  /\ UNCHANGED << rows, status, assigned, totalCost, overlapped, events, receipts,
                  streamVars, request, faults >>

\* Slip: the loop runs once too often.
InsertOneTooMany(j) ==
  /\ submission[j] = "seeding"
  /\ rows[j] <= Len(PlanOf(j))
  /\ rows' = [rows EXCEPT ![j] = @ + 1]
  /\ UNCHANGED << submission, status, resultVars, streamVars, request, faults >>

\* One turn of the seeding loop: INSERT INTO sub_tasks, on its own.
InsertSubTask(j) ==
  /\ submission[j] = "seeding"
  /\ rows[j] < Len(PlanOf(j))
  /\ rows' = [rows EXCEPT ![j] = @ + 1]
  /\ UNCHANGED << submission, status, resultVars, streamVars, request, faults >>

\* The loop is over: 201 Created.
JobCreated(j) ==
  /\ submission[j] = "seeding"
  /\ rows[j] = Len(PlanOf(j))
  /\ submission' = [submission EXCEPT ![j] = "created"]
  /\ UNCHANGED << rows, status, resultVars, streamVars, request, faults >>

\* An INSERT fails or the replica stops: the rows so far stay.
AbandonSubmission(j) ==
  /\ submission[j] = "seeding"
  /\ Fault
  /\ submission' = [submission EXCEPT ![j] = "failed"]
  /\ UNCHANGED << rows, status, resultVars, streamVars, request >>

-----------------------------------------------------------------------------
(* dispatch_ready_tasks                                                    *)

\* Slip: only rows nobody works on yet count as unmet dependencies.
EligibleIfNonePending(t) ==
  /\ Exists(t)
  /\ status[t] = "pending"
  /\ ~ \E dep \in TasksOf(t[1]) : /\ Exists(dep)
                                  /\ Position(dep) < Position(t)
                                  /\ status[dep] = "pending"

\* Slip: rows at the same position wait for each other.
EligibleAlone(t) ==
  /\ Exists(t)
  /\ status[t] = "pending"
  /\ ~ \E dep \in TasksOf(t[1]) : /\ Exists(dep)
                                  /\ dep # t /\ Position(dep) <= Position(t)
                                  /\ status[dep] # "complete"

\* The WHERE clause of the claim: pending, and no row of the job at a smaller
\* position that is not complete.
Eligible(t) ==
  /\ Exists(t)
  /\ status[t] = "pending"
  /\ ~ \E dep \in TasksOf(t[1]) : /\ Exists(dep)
                                  /\ Position(dep) < Position(t)
                                  /\ status[dep] # "complete"

\* Slip: the ready rows are selected and not updated in the same statement.
SelectReady(r, batch) ==
  /\ claims[r] = {}
  /\ batch # {}
  /\ Cardinality(batch) <= DispatchLimit
  /\ \A t \in batch : Eligible(t)
  /\ claims' = [claims EXCEPT ![r] = batch]
  /\ UNCHANGED << jobVars, status, resultVars, published, request, faults >>

\* The single UPDATE over the CTE.  Rows another statement has locked are
\* skipped, so any of the eligible rows may be left for a later tick.
ClaimReady(r, batch) ==
  /\ claims[r] = {}
  /\ batch # {}
  /\ Cardinality(batch) <= DispatchLimit
  /\ \A t \in batch : Eligible(t)
  /\ status' = [t \in Tasks |-> IF t \in batch THEN "dispatched" ELSE status[t]]
  /\ claims' = [claims EXCEPT ![r] = batch]
  /\ UNCHANGED << jobVars, resultVars, published, request, faults >>

\* Slip: a pushed row is kept for another try.
PushAndKeep(r, t) ==
  /\ t \in claims[r]
  /\ published' = published \cup {t}
  /\ UNCHANGED << jobVars, status, resultVars, claims, request, faults >>

\* XADD of one claimed row.
PushToStream(r, t) ==
  /\ t \in claims[r]
  /\ claims' = [claims EXCEPT ![r] = @ \ {t}]
  /\ published' = published \cup {t}
  /\ UNCHANGED << jobVars, status, resultVars, request, faults >>

\* XADD fails, the claim's reply is lost or the replica stops: the function
\* returns and nothing pushes the rows that are left.
DropClaims(r) ==
  /\ claims[r] # {}
  /\ Fault
  /\ claims' = [claims EXCEPT ![r] = {}]
  /\ UNCHANGED << jobVars, status, resultVars, published, request >>

-----------------------------------------------------------------------------
(* submit_task_result                                                      *)

Goto(q, pc) == request' = [request EXCEPT ![q].pc = pc]
Reply(q)    == request' = [request EXCEPT ![q] = Idle]

\* A node that was handed t reports it; the node is looked up (its row does
\* not change here).
BeginResult(q, t, n) ==
  /\ request[q].pc = "idle"
  /\ t \in published
  /\ request' = [request EXCEPT ![q] =
                   [pc |-> "load", task |-> t, node |-> n, sum |-> NoAward]]
  /\ UNCHANGED << jobVars, status, resultVars, streamVars, faults >>

\* Slip: no guard against double-submit.
AcceptAnyResult(q) ==
  /\ request[q].pc = "load"
  /\ Goto(q, "mark")
  /\ UNCHANGED << jobVars, status, resultVars, streamVars, faults >>

\* Slip: the guard looks at the job instead of the row.
AcceptWhileJobOpen(q) ==
  /\ request[q].pc = "load"
  /\ jobStatus[request[q].task[1]] # "complete"
  /\ Goto(q, "mark")
  /\ UNCHANGED << jobVars, status, resultVars, streamVars, faults >>

\* Slip: a result is taken only while its row is still waiting.
AcceptPendingResult(q) ==
  /\ request[q].pc = "load"
  /\ status[request[q].task] = "pending"
  /\ Goto(q, "mark")
  /\ UNCHANGED << jobVars, status, resultVars, streamVars, faults >>

\* The row is read as not complete and the output passes the pipeline.
AcceptResult(q) ==
  /\ request[q].pc = "load"
  /\ status[request[q].task] # "complete"
  /\ Goto(q, "mark")
  /\ UNCHANGED << jobVars, status, resultVars, streamVars, faults >>

\* 400 "task already completed".
RefuseDouble(q) ==
  /\ request[q].pc = "load"
  /\ status[request[q].task] = "complete"
  /\ Reply(q)
  /\ UNCHANGED << jobVars, status, resultVars, streamVars, faults >>

\* 400: the pipeline refuses the output.
RefuseOutput(q) ==
  /\ request[q].pc = "load"
  /\ status[request[q].task] # "complete"
  /\ Reply(q)
  /\ UNCHANGED << jobVars, status, resultVars, streamVars, faults >>

\* UPDATE sub_tasks: the status is not looked at again.
MarkComplete(q) ==
  /\ request[q].pc = "mark"
  /\ status' = [status EXCEPT ![request[q].task] = "complete"]
  /\ assigned' = [assigned EXCEPT ![request[q].task] = request[q].node]
  /\ Goto(q, "reputation")
  /\ UNCHANGED << jobVars, jobStatus, totalCost, overlapped, events, receipts,
                  streamVars, faults >>

\* Slip: one event per task, whichever node reports it.
RecordReputationOnce(q) ==
  /\ request[q].pc = "reputation"
  /\ events' = IF \E n \in Nodes : events[<< request[q].task, n >>] > 0
                 THEN events
                 ELSE [events EXCEPT ![<< request[q].task, request[q].node >>] = @ + 1]
  /\ Goto(q, "receipt")
  /\ UNCHANGED << jobVars, status, assigned, jobStatus, totalCost, overlapped,
                  receipts, streamVars, faults >>

RecordReputation(q) ==
  /\ request[q].pc = "reputation"
  /\ events' = [events EXCEPT ![<< request[q].task, request[q].node >>] = @ + 1]
  /\ Goto(q, "receipt")
  /\ UNCHANGED << jobVars, status, assigned, jobStatus, totalCost, overlapped,
                  receipts, streamVars, faults >>

\* Slip: one receipt per task, whichever node the row names by then.
PersistReceiptOnce(q) ==
  /\ request[q].pc = "receipt"
  /\ receipts' = IF \E n \in Nodes : receipts[<< request[q].task, n >>] > 0
                   THEN receipts
                   ELSE [receipts EXCEPT ![<< request[q].task, request[q].node >>] = @ + 1]
  /\ Goto(q, "count")
  /\ UNCHANGED << jobVars, status, assigned, jobStatus, totalCost, overlapped,
                  events, streamVars, faults >>

\* The share is computed from the job's complete rows and the receipt is
\* inserted under a nonce of its own, whatever receipts the task has.
PersistReceipt(q) ==
  /\ request[q].pc = "receipt"
  /\ receipts' = [receipts EXCEPT ![<< request[q].task, request[q].node >>] = @ + 1]
  /\ Goto(q, "count")
  /\ UNCHANGED << jobVars, status, assigned, jobStatus, totalCost, overlapped,
                  events, streamVars, faults >>

AllComplete(j) == \A t \in TasksOf(j) : Exists(t) => status[t] = "complete"

\* A request between its count and its update of the jobs row.
Billing(j, q) ==
  request[q].pc \in {"sum", "finish"} /\ request[q].task \in TasksOf(j)

\* q goes on to finalize the job.
StartBilling(q) ==
  LET j == request[q].task[1] IN
  /\ Goto(q, "sum")
  /\ overlapped' = [overlapped EXCEPT ![j] =
                      \E p \in Requests \ {q} : Billing(j, p)]

\* Slip: the test of the count is inverted.
CountOpenTasksInverted(q) ==
  /\ request[q].pc = "count"
  /\ IF AllComplete(request[q].task[1])
       THEN Reply(q) /\ UNCHANGED overlapped
       ELSE StartBilling(q)
  /\ UNCHANGED << jobVars, status, assigned, jobStatus, totalCost, events, receipts,
                  streamVars, faults >>

\* Slip: a job that is complete already is not summed again.
CountOpenTasksOnce(q) ==
  /\ request[q].pc = "count"
  /\ IF /\ AllComplete(request[q].task[1])
        /\ jobStatus[request[q].task[1]] # "complete"
       THEN StartBilling(q)
       ELSE Reply(q) /\ UNCHANGED overlapped
  /\ UNCHANGED << jobVars, status, assigned, jobStatus, totalCost, events, receipts,
                  streamVars, faults >>

\* finalize_job_if_ready, SELECT COUNT: rows that are not complete.  Some are
\* left: the request is answered with its receipt.
CountOpenTasks(q) ==
  /\ request[q].pc = "count"
  /\ IF AllComplete(request[q].task[1])
       THEN StartBilling(q)
       ELSE Reply(q) /\ UNCHANGED overlapped
  /\ UNCHANGED << jobVars, status, assigned, jobStatus, totalCost, events, receipts,
                  streamVars, faults >>

SumCredits(q) ==
  /\ request[q].pc = "sum"
  /\ request' = [request EXCEPT ![q].pc = "finish",
                                ![q].sum = JobReceipts(request[q].task[1])]
  /\ UNCHANGED << jobVars, status, resultVars, streamVars, faults >>

\* A failed SUM counts as 0.0 and the job is completed all the same.
SumCreditsFails(q) ==
  /\ request[q].pc = "sum"
  /\ Fault
  /\ Goto(q, "finish")
  /\ UNCHANGED << jobVars, status, resultVars, streamVars >>

\* UPDATE jobs, then the answer with the receipt.
CompleteJob(q) ==
  /\ request[q].pc = "finish"
  /\ jobStatus' = [jobStatus EXCEPT ![request[q].task[1]] = "complete"]
  /\ totalCost' = [totalCost EXCEPT ![request[q].task[1]] = request[q].sum]
  /\ Reply(q)
  /\ UNCHANGED << jobVars, status, assigned, overlapped, events, receipts,
                  streamVars, faults >>

\* Slip: a request that dies puts its task back, as fail_task would.
AbortAndRequeue(q) ==
  /\ request[q].pc # "idle"
  /\ Fault
  /\ status' = [status EXCEPT ![request[q].task] = "pending"]
  /\ Reply(q)
  /\ UNCHANGED << jobVars, resultVars, streamVars >>

\* A statement fails (500), the node hangs up or the replica stops.
AbortResult(q) ==
  /\ request[q].pc # "idle"
  /\ Fault
  /\ Reply(q)
  /\ UNCHANGED << jobVars, status, resultVars, streamVars >>

-----------------------------------------------------------------------------

BoardInit ==
  /\ submission = [j \in Jobs |-> "none"]
  /\ rows = [j \in Jobs |-> 0]
  /\ status = [t \in Tasks |-> "pending"]
  /\ assigned = [t \in Tasks |-> None]
  /\ jobStatus = [j \in Jobs |-> "none"]
  /\ totalCost = [j \in Jobs |-> None]
  /\ overlapped = [j \in Jobs |-> FALSE]
  /\ events = NoAward
  /\ receipts = NoAward
  /\ claims = [r \in Replicas |-> {}]
  /\ published = {}
  /\ request = [q \in Requests |-> Idle]
  /\ faults = 0

SubmitStep(j) == SubmitJob(j) \/ InsertSubTask(j) \/ JobCreated(j)

Answer(q) ==
  \/ AcceptResult(q) \/ RefuseDouble(q) \/ RefuseOutput(q)
  \/ MarkComplete(q) \/ RecordReputation(q) \/ PersistReceipt(q)
  \/ CountOpenTasks(q) \/ SumCredits(q) \/ CompleteJob(q)

BoardFault ==
  \/ \E j \in Jobs : AbandonSubmission(j)
  \/ \E r \in Replicas : DropClaims(r)
  \/ \E q \in Requests : SumCreditsFails(q) \/ AbortResult(q)

BoardNext ==
  \/ \E j \in Jobs : SubmitStep(j)
  \/ \E r \in Replicas, batch \in SUBSET Tasks : ClaimReady(r, batch)
  \/ \E r \in Replicas, t \in Tasks : PushToStream(r, t)
  \/ \E q \in Requests, t \in Tasks, n \in Nodes : BeginResult(q, t, n)
  \/ \E q \in Requests : Answer(q)
  \/ BoardFault

BoardSpec == BoardInit /\ [][BoardNext]_boardVars

-----------------------------------------------------------------------------
(* Properties                                                              *)

RequestState == ActiveRequest \cup {Idle}

\* The columns and the in-memory state of the replicas have their types.
BoardTypeOK ==
  /\ submission \in [Jobs -> {"none", "seeding", "created", "failed"}]
  /\ rows \in [Jobs -> Nat]
  /\ \A j \in Jobs : rows[j] <= Len(PlanOf(j))
  /\ status \in [Tasks -> {"pending", "dispatched", "complete"}]
  /\ assigned \in [Tasks -> Nodes \cup {None}]
  /\ jobStatus \in [Jobs -> {"none", "pending", "complete"}]
  /\ totalCost \in [Jobs -> [Award -> Nat] \cup {None}]
  /\ overlapped \in [Jobs -> BOOLEAN]
  /\ events \in [Award -> Nat]
  /\ receipts \in [Award -> Nat]
  /\ claims \in [Replicas -> SUBSET Tasks]
  /\ published \in SUBSET Tasks
  /\ request \in [Requests -> RequestState]
  /\ faults \in 0 .. MaxFaults

\* Dependency order: a task that was handed out has every task of its plan at
\* a smaller position inserted and complete, although the plan is inserted row
\* by row while the dispatcher runs (dispatch_ready_tasks, submit_job).
PositionOrder ==
  \A t, u \in Tasks :
    /\ status[t] # "pending"
    /\ u[1] = t[1]
    /\ Position(u) < Position(t)
    => Exists(u) /\ status[u] = "complete"

\* Replicas compete safely: no task is claimed by two of them, nor claimed
\* again once it is on the stream, so it is pushed at most once
\* (task_manager.rs, FOR UPDATE SKIP LOCKED).
ClaimedOnce ==
  \A r \in Replicas :
    /\ claims[r] \cap published = {}
    /\ \A s \in Replicas \ {r} : claims[r] \cap claims[s] = {}

\* What a claimed, published or reported task's row says; with the two
\* properties above this is inductive.
RowsBehindWork ==
  /\ \A t \in Tasks : status[t] # "pending" => Exists(t)
  /\ \A t \in published : status[t] # "pending"
  /\ \A r \in Replicas : \A t \in claims[r] : status[t] = "dispatched"
  /\ \A q \in Requests : request[q].pc # "idle" => request[q].task \in published
  /\ \A q \in Requests :
       request[q].pc \in {"reputation", "receipt", "count", "sum", "finish"}
         => status[request[q].task] = "complete"

\* A request that will still ask whether its job is done.
Finalizing(j) ==
  \E q \in Requests : /\ request[q].task \in TasksOf(j)
                      /\ request[q].pc \in {"reputation", "receipt", "count",
                                            "sum", "finish"}

\* Nobody forgets to finalize: when all the rows of a job are complete and the
\* job is not, a request is on its way that will complete it, however the
\* last results interleave, as long as nothing failed
\* (finalize_job_if_ready: count, sum and update are separate statements).
NoLostFinalize ==
  faults = 0 =>
    \A j \in Jobs :
      rows[j] > 0 /\ AllComplete(j) /\ jobStatus[j] # "complete"
        => Finalizing(j)

\* A quiet job's bill is whole: when nothing failed and no request will still
\* ask whether the job is done, its total covers every receipt the job has,
\* those of later results included, unless the last finalization began while
\* another one was between its SUM and its UPDATE: then the older total may be
\* the one that stays (finalize_job_if_ready: count, sum and update are
\* separate statements).
BillIsWhole ==
  faults = 0 =>
    \A j \in Jobs :
      rows[j] > 0 /\ AllComplete(j) /\ ~ Finalizing(j) /\ ~ overlapped[j]
        => jobStatus[j] = "complete" /\ totalCost[j] = JobReceipts(j)

\* A request past its guard that has not paid yet.
Paying(t) ==
  \E q \in Requests : /\ request[q].task = t
                      /\ request[q].pc \in {"mark", "reputation", "receipt"}

\* The double-submit guard closes for good: once a task is complete and the
\* requests that passed the guard before have paid or died, no request passes
\* it again and no receipt is issued, however often the task is redelivered
\* (routes/tasks.rs, step 2).
PaidThenClosed ==
  [][ \A t \in Tasks :
        status[t] = "complete" /\ ~ Paying(t)
          => /\ ~ Paying(t)'
             /\ \A n \in Nodes : receipts'[<< t, n >>] = receipts[<< t, n >>] ]_boardVars

\* Receipts of a task, whoever was paid.
Payments(t) == SumFunction([n \in Nodes |-> receipts[<< t, n >>]])

\* How far the guard fails: a task is paid at most as often as requests can be
\* served at a time, however often it is reported, redelivered and aborted
\* (routes/tasks.rs, step 2: the guard and the mark are two statements).
PaidOncePerRequest == \A t \in Tasks : Payments(t) <= Cardinality(Requests)

\* The row's assignee is paid: when nothing failed and no request is paying
\* for the task, the node a complete row names holds a receipt for it, though
\* racing results overwrite each other's assigned_node_id.
AssigneePaid ==
  faults = 0 =>
    \A t \in Tasks :
      status[t] = "complete" /\ ~ Paying(t)
        => assigned[t] # None /\ receipts[<< t, assigned[t] >>] > 0

\* No credit without its reputation event, wherever a request dies between
\* the two inserts.
ReputationBeforeCredit == \A a \in Award : receipts[a] <= events[a]

\* The board of TaskLifecycle: a task that is not inserted is absent.
Lifecycle ==
  INSTANCE TaskLifecycle WITH
    board <- [t \in Tasks |-> IF Exists(t) THEN status[t] ELSE "absent"],
    Precedes <- {p \in Tasks \X Tasks : /\ p[1][1] = p[2][1]
                                       /\ Position(p[1]) < Position(p[2])}

\* The board implements the life cycle: no task is handed out early or twice,
\* completed before it was handed out, or reopened.
ImplementsLifecycle == Lifecycle!LifecycleSpec

-----------------------------------------------------------------------------
(* What the documentation says, and these statements do not guarantee      *)

\* "guard against double-submit" (routes/tasks.rs:6): one receipt per task.
OneReceiptPerTask ==
  \A t \in Tasks, n, m \in Nodes :
    receipts[<< t, n >>] + (IF n = m THEN 0 ELSE receipts[<< t, m >>]) <= 1

\* "Standard -> Planner(0) -> Coder(1) -> Summarizer(2)" and "If every
\* sub-task in a job is 'complete', mark the job 'complete'" (routes/jobs.rs:124,
\* task_manager.rs:240): a complete job has done its whole plan.
CompleteJobDidItsPlan ==
  \A j \in Jobs :
    jobStatus[j] = "complete" =>
      \A t \in TasksOf(j) : Exists(t) /\ status[t] = "complete"

\* "atomically mark them Dispatched and push them onto the Redis stream"
\* (task_manager.rs:54): a dispatched row is on the stream or about to be.
DispatchedIsPushed ==
  \A t \in Tasks :
    status[t] = "dispatched" =>
      t \in published \/ \E r \in Replicas : t \in claims[r]

=============================================================================
