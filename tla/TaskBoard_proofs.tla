--------------------------- MODULE TaskBoard_proofs ---------------------------
(***************************************************************************)
(* Proofs about TaskBoard for every set of jobs, nodes, replicas and       *)
(* requests and every number of faults.                                    *)
(***************************************************************************)
EXTENDS TaskBoard, TLAPS

-----------------------------------------------------------------------------
(* The plans                                                               *)

\* A plan is a non-empty sequence of steps whose positions never decrease
\* (the subtask_plan table of submit_job).
LEMMA PlanShape ==
  ASSUME NEW tier \in JobTier
  PROVE  LET plan == SubtaskPlan[tier] IN
         /\ Len(plan) \in Nat \ {0}
         /\ \A i \in 1 .. Len(plan) : plan[i].position \in Nat
         /\ \A i, k \in 1 .. Len(plan) :
              plan[i].position < plan[k].position => i < k
<1>1. CASE tier = "Standard"
  BY <1>1 DEF SubtaskPlan, PlanStep
<1>2. CASE tier = "Paid"
  BY <1>2 DEF SubtaskPlan, PlanStep
<1>3. CASE tier = "Premium"
  BY <1>3 DEF SubtaskPlan, PlanStep
<1> QED
  BY <1>1, <1>2, <1>3 DEF JobTier

\* A task is a job and an index into its plan.
LEMMA TaskShape ==
  ASSUME NEW t \in Tasks
  PROVE  /\ t[1] \in Jobs
         /\ t[2] \in 1 .. Len(PlanOf(t[1]))
         /\ t = << t[1], t[2] >>
         /\ Len(PlanOf(t[1])) \in Nat \ {0}
         /\ Position(t) \in Nat
<1>1. PICK j \in Jobs : t \in {j} \X (1 .. Len(PlanOf(j)))
  BY DEF Tasks
<1>2. t[1] = j /\ t[2] \in 1 .. Len(PlanOf(j)) /\ t = << t[1], t[2] >>
  BY <1>1
<1>3. TierOf[j] \in JobTier
  BY BoardAssumption
<1> QED
  BY <1>2, <1>3, PlanShape DEF PlanOf, Position

\* Within a job, a smaller position means an earlier row.
LEMMA EarlierRow ==
  ASSUME NEW t \in Tasks, NEW u \in Tasks,
         u[1] = t[1], Position(u) < Position(t)
  PROVE  u[2] < t[2]
<1>1. TierOf[t[1]] \in JobTier
  BY TaskShape, BoardAssumption
<1> QED
  BY <1>1, TaskShape, PlanShape DEF PlanOf, Position

-----------------------------------------------------------------------------
(* Types                                                                   *)

\* What BoardTypeOK says of one request that is not idle.
LEMMA ActiveShape ==
  ASSUME BoardTypeOK, NEW q \in Requests, request[q].pc # "idle"
  PROVE  /\ request[q] \in ActiveRequest
         /\ request[q].task \in Tasks
         /\ request[q].node \in Nodes
         /\ request[q].task[1] \in Jobs
         /\ << request[q].task, request[q].node >> \in Award
<1>1. request[q] \in ActiveRequest
  BY DEF BoardTypeOK, RequestState, Idle
<1> QED
  BY <1>1, TaskShape DEF ActiveRequest, Award

\* A request that moves on stays well typed.
LEMMA GotoType ==
  ASSUME BoardTypeOK, NEW q \in Requests, request[q].pc # "idle",
         NEW pc \in Steps, Goto(q, pc)
  PROVE  request' \in [Requests -> RequestState]
<1>1. request[q] \in ActiveRequest
  BY ActiveShape
<1>2. [request[q] EXCEPT !.pc = pc] \in ActiveRequest
  BY <1>1 DEF ActiveRequest
<1> QED
  BY <1>2 DEF Goto, BoardTypeOK, RequestState

\* So does one that is answered.
LEMMA ReplyType ==
  ASSUME BoardTypeOK, NEW q \in Requests, Reply(q)
  PROVE  request' \in [Requests -> RequestState]
BY DEF Reply, BoardTypeOK, RequestState

\* The sum a request reads is a count per award.
LEMMA SumType ==
  ASSUME BoardTypeOK, NEW j \in Jobs
  PROVE  JobReceipts(j) \in [Award -> Nat]
BY DEF BoardTypeOK, JobReceipts

LEMMA TypeInit == BoardInit => BoardTypeOK
<1> SUFFICES ASSUME BoardInit PROVE BoardTypeOK
  OBVIOUS
<1>1. \A j \in Jobs : Len(PlanOf(j)) \in Nat
  BY PlanShape, BoardAssumption DEF PlanOf
<1>2. 0 \in 0 .. MaxFaults
  BY BoardAssumption
<1>3. NoAward \in [Award -> Nat]
  BY DEF NoAward
<1> QED
  BY <1>1, <1>2, <1>3 DEF BoardInit, BoardTypeOK, RequestState

\* Every step keeps the types.
LEMMA TypeStep ==
  ASSUME BoardTypeOK, [BoardNext]_boardVars
  PROVE  BoardTypeOK'
<1> USE DEF jobVars, resultVars, streamVars
<1>0. ASSUME Fault PROVE faults' \in 0 .. MaxFaults
  BY <1>0, BoardAssumption DEF Fault, BoardTypeOK
<1>1. ASSUME NEW j \in Jobs, SubmitJob(j)
      PROVE  BoardTypeOK'
  BY <1>1 DEF SubmitJob, BoardTypeOK
<1>2. ASSUME NEW j \in Jobs, InsertSubTask(j)
      PROVE  BoardTypeOK'
  <2>1. Len(PlanOf(j)) \in Nat
    BY PlanShape, BoardAssumption DEF PlanOf
  <2> QED
    BY <1>2, <2>1 DEF InsertSubTask, BoardTypeOK
<1>3. ASSUME NEW j \in Jobs, JobCreated(j)
      PROVE  BoardTypeOK'
  BY <1>3 DEF JobCreated, BoardTypeOK
<1>4. ASSUME NEW j \in Jobs, AbandonSubmission(j)
      PROVE  BoardTypeOK'
  BY <1>0, <1>4 DEF AbandonSubmission, BoardTypeOK
<1>5. ASSUME NEW r \in Replicas, NEW batch \in SUBSET Tasks, ClaimReady(r, batch)
      PROVE  BoardTypeOK'
  BY <1>5 DEF ClaimReady, BoardTypeOK
<1>6. ASSUME NEW r \in Replicas, NEW t \in Tasks, PushToStream(r, t)
      PROVE  BoardTypeOK'
  BY <1>6 DEF PushToStream, BoardTypeOK
<1>7. ASSUME NEW r \in Replicas, DropClaims(r)
      PROVE  BoardTypeOK'
  BY <1>0, <1>7 DEF DropClaims, BoardTypeOK
<1>8. ASSUME NEW q \in Requests, NEW t \in Tasks, NEW n \in Nodes, BeginResult(q, t, n)
      PROVE  BoardTypeOK'
  <2>1. [pc |-> "load", task |-> t, node |-> n, sum |-> NoAward] \in RequestState
    BY DEF RequestState, ActiveRequest, Steps, NoAward
  <2> QED
    BY <1>8, <2>1 DEF BeginResult, BoardTypeOK
<1>9. ASSUME NEW q \in Requests, Answer(q)
      PROVE  BoardTypeOK'
  <2>1. CASE AcceptResult(q)
    BY <2>1, GotoType DEF AcceptResult, BoardTypeOK, Steps
  <2>2. CASE RefuseDouble(q) \/ RefuseOutput(q)
    BY <2>2, ReplyType DEF RefuseDouble, RefuseOutput, BoardTypeOK
  <2>3. CASE MarkComplete(q)
    BY <2>3, GotoType, ActiveShape DEF MarkComplete, BoardTypeOK, Steps
  <2>4. CASE RecordReputation(q)
    BY <2>4, GotoType, ActiveShape DEF RecordReputation, BoardTypeOK, Steps
  <2>5. CASE PersistReceipt(q)
    BY <2>5, GotoType, ActiveShape DEF PersistReceipt, BoardTypeOK, Steps
  <2>6. CASE CountOpenTasks(q)
    <3>1. CASE AllComplete(request[q].task[1])
      BY <2>6, <3>1, GotoType DEF CountOpenTasks, StartBilling, BoardTypeOK, Steps
    <3>2. CASE ~ AllComplete(request[q].task[1])
      BY <2>6, <3>2, ReplyType DEF CountOpenTasks, BoardTypeOK
    <3> QED
      BY <3>1, <3>2
  <2>7. CASE SumCredits(q)
    <3>1. request[q] \in ActiveRequest /\ request[q].task[1] \in Jobs
      BY <2>7, ActiveShape DEF SumCredits
    <3>2. [request[q] EXCEPT !.pc = "finish",
                             !.sum = JobReceipts(request[q].task[1])] \in RequestState
      BY <3>1, SumType DEF ActiveRequest, Steps, RequestState
    <3> QED
      BY <2>7, <3>2 DEF SumCredits, BoardTypeOK
  <2>8. CASE CompleteJob(q)
    <3>1. request[q].sum \in [Award -> Nat] /\ request[q].task[1] \in Jobs
      BY <2>8, ActiveShape DEF CompleteJob, ActiveRequest
    <3> QED
      BY <2>8, <3>1, ReplyType DEF CompleteJob, BoardTypeOK
  <2> QED
    BY <1>9, <2>1, <2>2, <2>3, <2>4, <2>5, <2>6, <2>7, <2>8 DEF Answer
<1>10. ASSUME NEW q \in Requests, SumCreditsFails(q)
       PROVE  BoardTypeOK'
  BY <1>0, <1>10, GotoType DEF SumCreditsFails, BoardTypeOK, Steps
<1>11. ASSUME NEW q \in Requests, AbortResult(q)
       PROVE  BoardTypeOK'
  BY <1>0, <1>11, ReplyType DEF AbortResult, BoardTypeOK
<1>12. CASE UNCHANGED boardVars
  BY <1>12 DEF boardVars, BoardTypeOK
<1> QED
  BY <1>1, <1>2, <1>3, <1>4, <1>5, <1>6, <1>7, <1>8, <1>9, <1>10, <1>11, <1>12
     DEF BoardNext, SubmitStep, BoardFault

\* The tables, claims and requests have their types in every reachable state.
THEOREM TypeCorrect == BoardSpec => []BoardTypeOK
<1>1. BoardInit => BoardTypeOK
  BY TypeInit
<1>2. BoardTypeOK /\ [BoardNext]_boardVars => BoardTypeOK'
  BY TypeStep
<1> QED
  BY <1>1, <1>2, PTL DEF BoardSpec

-----------------------------------------------------------------------------
(* Dependency order and single dispatch                                    *)

\* Neither property is inductive alone: an unconditional UPDATE to complete
\* keeps the order only because a request's task is on the stream, and a task
\* on the stream is past pending; a claim keeps tasks apart only because what
\* is claimed or on the stream is past pending too.
BoardInv ==
  /\ BoardTypeOK
  /\ PositionOrder
  /\ ClaimedOnce
  /\ RowsBehindWork

\* The steps of a request that write neither statuses, rows nor the stream.
\* The condition on a request is the last two conjuncts of RowsBehindWork.
LEMMA RequestOnlyStep ==
  ASSUME BoardInv, NEW q \in Requests,
         UNCHANGED << rows, status, claims, published >>,
         request' = [request EXCEPT ![q] = request'[q]],
         request'[q].pc # "idle" => request'[q].task \in published,
         request'[q].pc \in {"reputation", "receipt", "count", "sum", "finish"}
           => status[request'[q].task] = "complete"
  PROVE  PositionOrder' /\ ClaimedOnce' /\ RowsBehindWork'
<1>1. PositionOrder'
  BY DEF BoardInv, PositionOrder, Exists
<1>2. ClaimedOnce'
  BY DEF BoardInv, ClaimedOnce
<1>3. \A p \in Requests \ {q} : request'[p] = request[p]
  BY DEF BoardInv, BoardTypeOK
<1>4. \A p \in Requests : request'[p].pc # "idle" => request'[p].task \in published
  BY <1>3 DEF BoardInv, RowsBehindWork
<1>5. \A p \in Requests :
        request'[p].pc \in {"reputation", "receipt", "count", "sum", "finish"}
          => status[request'[p].task] = "complete"
  BY <1>3 DEF BoardInv, RowsBehindWork
<1>6. RowsBehindWork'
  BY <1>4, <1>5 DEF BoardInv, RowsBehindWork, Exists
<1> QED
  BY <1>1, <1>2, <1>6

\* A request that moves on within the handler satisfies that condition.
LEMMA GotoStep ==
  ASSUME BoardInv, NEW q \in Requests, request[q].pc # "idle",
         UNCHANGED << rows, status, claims, published >>,
         NEW pc \in Steps, Goto(q, pc),
         pc = "mark" \/ status[request[q].task] = "complete"
  PROVE  PositionOrder' /\ ClaimedOnce' /\ RowsBehindWork'
<1>1. request[q] \in ActiveRequest
  BY ActiveShape DEF BoardInv
<1>2. request'[q].pc = pc /\ request'[q].task = request[q].task
  BY <1>1 DEF Goto, ActiveRequest, BoardInv, BoardTypeOK
<1>3. request' = [request EXCEPT ![q] = request'[q]]
  BY DEF Goto, BoardInv, BoardTypeOK
<1>4. request[q].task \in published
  BY DEF BoardInv, RowsBehindWork
<1>5. pc = "mark" => pc \notin {"reputation", "receipt", "count", "sum", "finish"}
  OBVIOUS
<1> QED
  BY <1>2, <1>3, <1>4, <1>5, RequestOnlyStep

LEMMA ReplyStep ==
  ASSUME BoardInv, NEW q \in Requests,
         UNCHANGED << rows, status, claims, published >>, Reply(q)
  PROVE  PositionOrder' /\ ClaimedOnce' /\ RowsBehindWork'
<1>1. request'[q] = Idle
  BY DEF Reply, BoardInv, BoardTypeOK
<1>2. request' = [request EXCEPT ![q] = request'[q]]
  BY <1>1 DEF Reply
<1>3. Idle.pc = "idle"
  BY DEF Idle
<1> QED
  BY <1>1, <1>2, <1>3, RequestOnlyStep

\* Inserting the next row of a plan disturbs no order: tasks of a smaller
\* position are all inserted before it.
LEMMA InsertStep ==
  ASSUME BoardInv, NEW j \in Jobs, InsertSubTask(j)
  PROVE  PositionOrder' /\ ClaimedOnce' /\ RowsBehindWork'
<1> USE DEF InsertSubTask, resultVars, streamVars
<1>1. ASSUME NEW t \in Tasks, Exists(t) PROVE Exists(t)'
  <2>1. t[1] \in Jobs /\ t[2] \in Nat
    BY TaskShape
  <2> QED
    BY <1>1, <2>1 DEF Exists, BoardInv, BoardTypeOK
<1>2. PositionOrder'
  BY <1>1 DEF BoardInv, PositionOrder
<1>3. ClaimedOnce'
  BY DEF BoardInv, ClaimedOnce
<1>4. RowsBehindWork'
  BY <1>1 DEF BoardInv, RowsBehindWork
<1> QED
  BY <1>2, <1>3, <1>4

\* A claim takes pending rows whose predecessors are complete.
LEMMA ClaimStep ==
  ASSUME BoardInv, NEW r \in Replicas, NEW batch \in SUBSET Tasks,
         ClaimReady(r, batch)
  PROVE  PositionOrder' /\ ClaimedOnce' /\ RowsBehindWork'
<1> USE DEF ClaimReady, jobVars, resultVars
<1>1. \A t \in Tasks : status'[t] = IF t \in batch THEN "dispatched" ELSE status[t]
  OBVIOUS
<1>2. \A t \in batch : status[t] = "pending" /\ Exists(t)
  BY DEF Eligible
<1>3. \A t \in Tasks : status[t] = "complete" => status'[t] = "complete"
  BY <1>1, <1>2
<1>4. \A t \in Tasks : status[t] # "pending" => t \notin batch
  BY <1>2
<1>5. PositionOrder'
  <2> SUFFICES ASSUME NEW t \in Tasks, NEW u \in Tasks, status'[t] # "pending",
                      u[1] = t[1], Position(u) < Position(t)
               PROVE  Exists(u) /\ status'[u] = "complete"
    BY DEF PositionOrder, Exists
  <2>1. CASE t \in batch
    <3>1. u[2] < t[2] /\ u[2] \in Nat /\ t[2] \in Nat /\ t[1] \in Jobs
      BY EarlierRow, TaskShape
    <3>2. Exists(u)
      BY <2>1, <1>2, <3>1 DEF Exists, BoardInv, BoardTypeOK
    <3>3. status[u] = "complete"
      BY <2>1, <3>2 DEF Eligible, TasksOf
    <3> QED
      BY <3>2, <3>3, <1>3
  <2>2. CASE t \notin batch
    BY <2>2, <1>1, <1>3 DEF BoardInv, PositionOrder
  <2> QED
    BY <2>1, <2>2
<1>6. ClaimedOnce'
  <2>1. \A t \in batch : t \notin published
    BY <1>4 DEF BoardInv, RowsBehindWork, BoardTypeOK
  <2>2. \A s \in Replicas : \A t \in claims[s] : t \notin batch
    BY <1>2 DEF BoardInv, RowsBehindWork
  <2>3. \A s \in Replicas : claims'[s] = IF s = r THEN batch ELSE claims[s]
    BY DEF BoardInv, BoardTypeOK
  <2> QED
    BY <2>1, <2>2, <2>3 DEF BoardInv, ClaimedOnce
<1>7. RowsBehindWork'
  <2>1. \A t \in Tasks : status'[t] # "pending" => Exists(t)
    BY <1>1, <1>2 DEF BoardInv, RowsBehindWork
  <2>2. \A t \in published : status'[t] # "pending"
    BY <1>1 DEF BoardInv, RowsBehindWork, BoardTypeOK
  <2>3. \A s \in Replicas : \A t \in claims'[s] : status'[t] = "dispatched"
    BY <1>1 DEF BoardInv, RowsBehindWork, BoardTypeOK
  <2>4. \A q \in Requests :
          request[q].pc \in {"reputation", "receipt", "count", "sum", "finish"}
            => status'[request[q].task] = "complete"
    <3> SUFFICES ASSUME NEW q \in Requests,
                        request[q].pc \in {"reputation", "receipt", "count", "sum", "finish"}
                 PROVE  status'[request[q].task] = "complete"
      OBVIOUS
    <3>1. request[q].task \in Tasks
      BY ActiveShape DEF BoardInv
    <3> QED
      BY <3>1, <1>3 DEF BoardInv, RowsBehindWork
  <2> QED
    BY <2>1, <2>2, <2>3, <2>4 DEF RowsBehindWork, Exists, BoardInv
<1> QED
  BY <1>5, <1>6, <1>7

\* A pushed task moves from its one claim to the stream.
LEMMA PushStep ==
  ASSUME BoardInv, NEW r \in Replicas, NEW t \in Tasks, PushToStream(r, t)
  PROVE  PositionOrder' /\ ClaimedOnce' /\ RowsBehindWork'
<1> USE DEF PushToStream, jobVars, resultVars
<1>1. \A s \in Replicas : claims'[s] = IF s = r THEN claims[s] \ {t} ELSE claims[s]
  BY DEF BoardInv, BoardTypeOK
<1>2. PositionOrder'
  BY DEF BoardInv, PositionOrder, Exists
<1>3. ClaimedOnce'
  BY <1>1 DEF BoardInv, ClaimedOnce
<1>4. status[t] = "dispatched"
  BY DEF BoardInv, RowsBehindWork
<1>5. RowsBehindWork'
  BY <1>1, <1>4 DEF BoardInv, RowsBehindWork, Exists
<1> QED
  BY <1>2, <1>3, <1>5

\* Claims that are dropped leave the rows dispatched.
LEMMA DropStep ==
  ASSUME BoardInv, NEW r \in Replicas, DropClaims(r)
  PROVE  PositionOrder' /\ ClaimedOnce' /\ RowsBehindWork'
<1> USE DEF DropClaims, jobVars, resultVars
<1>1. \A s \in Replicas : claims'[s] \subseteq claims[s]
  BY DEF BoardInv, BoardTypeOK
<1>2. PositionOrder'
  BY DEF BoardInv, PositionOrder, Exists
<1>3. ClaimedOnce'
  BY <1>1 DEF BoardInv, ClaimedOnce
<1>4. RowsBehindWork'
  BY <1>1 DEF BoardInv, RowsBehindWork, Exists
<1> QED
  BY <1>2, <1>3, <1>4

\* The unconditional UPDATE completes only a task that was handed out, so what
\* comes before it is complete already; no claimed row is touched, because a
\* claimed task is not on the stream.
LEMMA MarkStep ==
  ASSUME BoardInv, NEW q \in Requests, MarkComplete(q)
  PROVE  PositionOrder' /\ ClaimedOnce' /\ RowsBehindWork'
<1> USE DEF MarkComplete, jobVars, streamVars
<1> DEFINE done == request[q].task
<1>1. /\ request[q] \in ActiveRequest
      /\ done \in Tasks
      /\ done \in published
      /\ status[done] # "pending"
  BY ActiveShape DEF BoardInv, RowsBehindWork
<1>2. \A t \in Tasks : status'[t] = IF t = done THEN "complete" ELSE status[t]
  BY DEF BoardInv, BoardTypeOK
<1>3. PositionOrder'
  BY <1>1, <1>2 DEF BoardInv, PositionOrder, Exists
<1>4. ClaimedOnce'
  BY DEF BoardInv, ClaimedOnce
<1>5. \A p \in Requests : request'[p].task = request[p].task
  BY <1>1 DEF Goto, BoardInv, BoardTypeOK, ActiveRequest
<1>6. \A p \in Requests \ {q} : request'[p] = request[p]
  BY DEF Goto, BoardInv, BoardTypeOK
<1>7. \A r \in Replicas : done \notin claims[r]
  BY <1>1 DEF BoardInv, ClaimedOnce
<1>8. RowsBehindWork'
  <2>1. \A t \in Tasks : status'[t] # "pending" => Exists(t)'
    BY <1>1, <1>2 DEF BoardInv, RowsBehindWork, Exists
  <2>2. \A t \in published' : status'[t] # "pending"
    BY <1>2 DEF BoardInv, RowsBehindWork, BoardTypeOK
  <2>3. \A r \in Replicas : \A t \in claims'[r] : status'[t] = "dispatched"
    BY <1>2, <1>7 DEF BoardInv, RowsBehindWork, BoardTypeOK
  <2>4. \A p \in Requests : request'[p].pc # "idle" => request'[p].task \in published'
    BY <1>1, <1>5, <1>6 DEF BoardInv, RowsBehindWork
  <2>5. \A p \in Requests :
          request'[p].pc \in {"reputation", "receipt", "count", "sum", "finish"}
            => status'[request'[p].task] = "complete"
    <3> SUFFICES ASSUME NEW p \in Requests,
                        request'[p].pc \in {"reputation", "receipt", "count", "sum", "finish"}
                 PROVE  status'[request'[p].task] = "complete"
      OBVIOUS
    <3>1. CASE p = q
      BY <3>1, <1>1, <1>2, <1>5
    <3>2. CASE p # q
      <4>1. request[p].task \in Tasks /\ status[request[p].task] = "complete"
        BY <3>2, <1>6, ActiveShape DEF BoardInv, RowsBehindWork
      <4> QED
        BY <4>1, <1>2, <1>5
    <3> QED
      BY <3>1, <3>2
  <2> QED
    BY <2>1, <2>2, <2>3, <2>4, <2>5 DEF RowsBehindWork
<1> QED
  BY <1>3, <1>4, <1>8

LEMMA SafetyInit == BoardInit => BoardInv
<1> SUFFICES ASSUME BoardInit PROVE BoardInv
  OBVIOUS
<1>1. BoardTypeOK
  BY TypeInit
<1>2. PositionOrder /\ ClaimedOnce
  BY DEF BoardInit, PositionOrder, ClaimedOnce
<1>3. RowsBehindWork
  BY DEF BoardInit, RowsBehindWork, Idle
<1> QED
  BY <1>1, <1>2, <1>3 DEF BoardInv

\* Every step keeps the inductive invariant.
LEMMA SafetyStep ==
  ASSUME BoardInv, [BoardNext]_boardVars
  PROVE  PositionOrder' /\ ClaimedOnce' /\ RowsBehindWork'
<1> USE DEF jobVars, resultVars, streamVars
<1>1. ASSUME NEW j \in Jobs,
             SubmitJob(j) \/ JobCreated(j) \/ AbandonSubmission(j) \/ UNCHANGED boardVars
      PROVE  PositionOrder' /\ ClaimedOnce' /\ RowsBehindWork'
  BY <1>1 DEF SubmitJob, JobCreated, AbandonSubmission, boardVars,
              BoardInv, PositionOrder, ClaimedOnce, RowsBehindWork, Exists
<1>2. ASSUME NEW q \in Requests, NEW t \in Tasks, NEW n \in Nodes, BeginResult(q, t, n)
      PROVE  PositionOrder' /\ ClaimedOnce' /\ RowsBehindWork'
  <2>1. request'[q].pc = "load" /\ request'[q].task = t
    BY <1>2 DEF BeginResult, BoardInv, BoardTypeOK
  <2>2. request' = [request EXCEPT ![q] = request'[q]]
    BY <1>2 DEF BeginResult, BoardInv, BoardTypeOK
  <2> QED
    BY <1>2, <2>1, <2>2, RequestOnlyStep DEF BeginResult
<1>3. ASSUME NEW q \in Requests, Answer(q)
      PROVE  PositionOrder' /\ ClaimedOnce' /\ RowsBehindWork'
  <2>1. request[q].pc \in {"reputation", "receipt", "count", "sum", "finish"}
          => status[request[q].task] = "complete"
    BY DEF BoardInv, RowsBehindWork
  <2>2. CASE AcceptResult(q)
    BY <2>2, GotoStep DEF AcceptResult, Steps
  <2>3. CASE RefuseDouble(q) \/ RefuseOutput(q)
    BY <2>3, ReplyStep DEF RefuseDouble, RefuseOutput
  <2>4. CASE MarkComplete(q)
    BY <2>4, MarkStep
  <2>5. CASE RecordReputation(q)
    BY <2>1, <2>5, GotoStep DEF RecordReputation, Steps
  <2>6. CASE PersistReceipt(q)
    BY <2>1, <2>6, GotoStep DEF PersistReceipt, Steps
  <2>7. CASE CountOpenTasks(q)
    BY <2>1, <2>7, GotoStep, ReplyStep DEF CountOpenTasks, StartBilling, Steps
  <2>8. CASE SumCredits(q)
    <3>1. request[q] \in ActiveRequest
      BY <2>8, ActiveShape DEF SumCredits, BoardInv
    <3>2. /\ request'[q].pc = "finish"
          /\ request'[q].task = request[q].task
          /\ request' = [request EXCEPT ![q] = request'[q]]
      BY <2>8, <3>1 DEF SumCredits, ActiveRequest, BoardInv, BoardTypeOK
    <3>3. request[q].task \in published
      BY <2>8 DEF SumCredits, BoardInv, RowsBehindWork
    <3> QED
      BY <2>1, <2>8, <3>2, <3>3, RequestOnlyStep DEF SumCredits
  <2>9. CASE CompleteJob(q)
    BY <2>9, ReplyStep DEF CompleteJob
  <2> QED
    BY <1>3, <2>2, <2>3, <2>4, <2>5, <2>6, <2>7, <2>8, <2>9 DEF Answer
<1>4. ASSUME NEW q \in Requests, SumCreditsFails(q)
      PROVE  PositionOrder' /\ ClaimedOnce' /\ RowsBehindWork'
  BY <1>4, GotoStep DEF SumCreditsFails, Steps, BoardInv, RowsBehindWork
<1>5. ASSUME NEW q \in Requests, AbortResult(q)
      PROVE  PositionOrder' /\ ClaimedOnce' /\ RowsBehindWork'
  BY <1>5, ReplyStep DEF AbortResult
<1>6. ASSUME UNCHANGED boardVars
      PROVE  PositionOrder' /\ ClaimedOnce' /\ RowsBehindWork'
  BY <1>6 DEF boardVars, BoardInv, PositionOrder, ClaimedOnce, RowsBehindWork, Exists
<1> QED
  BY <1>1, <1>2, <1>3, <1>4, <1>5, <1>6, InsertStep, ClaimStep, PushStep, DropStep
     DEF BoardNext, SubmitStep, BoardFault

\* A complete task stays complete.
LEMMA CompleteStays ==
  ASSUME BoardInv, [BoardNext]_boardVars
  PROVE  \A t \in Tasks : status[t] = "complete" => status'[t] = "complete"
<1>1. CASE UNCHANGED status
  BY <1>1
<1>2. ASSUME NEW r \in Replicas, NEW batch \in SUBSET Tasks, ClaimReady(r, batch)
      PROVE  \A t \in Tasks : status[t] = "complete" => status'[t] = "complete"
  BY <1>2 DEF ClaimReady, Eligible
<1>3. ASSUME NEW q \in Requests, MarkComplete(q)
      PROVE  \A t \in Tasks : status[t] = "complete" => status'[t] = "complete"
  BY <1>3 DEF MarkComplete, BoardInv, BoardTypeOK
<1>4. \/ UNCHANGED status
      \/ \E r \in Replicas, batch \in SUBSET Tasks : ClaimReady(r, batch)
      \/ \E q \in Requests : MarkComplete(q)
  BY DEF BoardNext, SubmitStep, SubmitJob, InsertSubTask, JobCreated, PushToStream, BeginResult,
         Answer, AcceptResult, RefuseDouble, RefuseOutput, RecordReputation, PersistReceipt,
         CountOpenTasks, SumCredits, CompleteJob, BoardFault, AbandonSubmission, DropClaims,
         SumCreditsFails, AbortResult, boardVars
<1> QED BY <1>1, <1>2, <1>3, <1>4

LEMMA BoardInvariant == BoardSpec => []BoardInv
<1>1. BoardInit => BoardInv
  BY SafetyInit
<1>2. BoardInv /\ [BoardNext]_boardVars => BoardInv'
  BY TypeStep, SafetyStep DEF BoardInv
<1> QED
  BY <1>1, <1>2, PTL DEF BoardSpec

\* No task is handed out, and none is completed, before every task of its plan
\* at a smaller position is inserted and complete: with any number of
\* replicas, concurrent results, crashes and half-inserted plans.
THEOREM DispatchOrder == BoardSpec => []PositionOrder
<1>1. BoardInv => PositionOrder
  BY DEF BoardInv
<1> QED
  BY <1>1, BoardInvariant, PTL

\* No two replicas ever hold the same task, and none holds a task that is on
\* the stream already, whatever is dropped or crashes.
THEOREM SingleDispatch == BoardSpec => []ClaimedOnce
<1>1. BoardInv => ClaimedOnce
  BY DEF BoardInv
<1> QED
  BY <1>1, BoardInvariant, PTL

-----------------------------------------------------------------------------
(* The board implements the task life cycle                                *)

\* The stage TaskLifecycle sees.
Stage(t) == IF Exists(t) THEN status[t] ELSE "absent"

\* A step that touches neither rows nor statuses is a stutter of the life
\* cycle.
LEMMA SameBoard ==
  ASSUME UNCHANGED << rows, status >>
  PROVE  UNCHANGED [t \in Tasks |-> Stage(t)]
BY DEF Stage, Exists

\* Inserting a row adds the next task of the plan.
LEMMA InsertAdds ==
  ASSUME BoardInv, NEW j \in Jobs, InsertSubTask(j)
  PROVE  Lifecycle!LifecycleNext
<1> USE DEF InsertSubTask, resultVars, streamVars
<1>1. rows[j] \in Nat /\ Len(PlanOf(j)) \in Nat
  BY PlanShape, BoardAssumption DEF PlanOf, BoardInv, BoardTypeOK
<1>2. PICK new \in Tasks : new[1] = j /\ new[2] = rows[j] + 1
  <2>1. rows[j] + 1 \in 1 .. Len(PlanOf(j))
    BY <1>1
  <2>2. << j, rows[j] + 1 >> \in Tasks
    BY <2>1 DEF Tasks
  <2> QED
    BY <2>2
<1>3. ~ Exists(new) /\ Exists(new)' /\ status[new] = "pending"
  BY <1>1, <1>2 DEF Exists, BoardInv, BoardTypeOK, RowsBehindWork
<1>4. \A t \in Tasks : t # new => (Exists(t)' <=> Exists(t))
  <2> SUFFICES ASSUME NEW t \in Tasks, t # new
               PROVE  Exists(t)' <=> Exists(t)
    OBVIOUS
  <2>1. t[1] \in Jobs /\ t[2] \in Nat /\ t = << t[1], t[2] >>
    BY TaskShape
  <2>2. new = << new[1], new[2] >>
    BY TaskShape
  <2>3. t[1] # j \/ t[2] # rows[j] + 1
    BY <1>2, <2>1, <2>2
  <2>4. CASE t[1] # j
    BY <2>1, <2>4 DEF Exists, BoardInv, BoardTypeOK
  <2>5. CASE t[1] = j /\ t[2] # rows[j] + 1
    BY <1>1, <2>1, <2>5 DEF Exists, BoardInv, BoardTypeOK
  <2> QED
    BY <2>3, <2>4, <2>5
<1>5. \A u \in Tasks : u[1] = j /\ Position(u) < Position(new) => Exists(u)
  <2> SUFFICES ASSUME NEW u \in Tasks, u[1] = j, Position(u) < Position(new)
               PROVE  Exists(u)
    OBVIOUS
  <2>1. u[2] < new[2] /\ u[2] \in Nat
    BY <1>2, EarlierRow, TaskShape
  <2> QED
    BY <1>1, <1>2, <2>1 DEF Exists
<1>6. \A u \in Tasks : Exists(u) => Stage(u) # "absent"
  BY DEF Stage, BoardInv, BoardTypeOK
<1>7. Lifecycle!Add(new)
  <2>1. [t \in Tasks |-> Stage(t)]' = [[t \in Tasks |-> Stage(t)] EXCEPT ![new] = "pending"]
    BY <1>2, <1>3, <1>4 DEF Stage
  <2> QED
    BY <1>2, <1>3, <1>5, <1>6, <2>1 DEF Lifecycle!Add, Stage
<1> QED
  BY <1>2, <1>7 DEF Lifecycle!LifecycleNext

\* A claim dispatches tasks that are ready.
LEMMA ClaimDispatches ==
  ASSUME BoardInv, NEW r \in Replicas, NEW batch \in SUBSET Tasks,
         ClaimReady(r, batch)
  PROVE  Lifecycle!LifecycleNext
<1> USE DEF ClaimReady, jobVars, resultVars
<1>1. ASSUME NEW t \in batch
      PROVE  Stage(t) = "pending" /\ Lifecycle!Ready(t)
  <2>1. Exists(t) /\ status[t] = "pending" /\ t \in Tasks
    BY DEF Eligible
  <2>2. ASSUME NEW u \in Tasks, u[1] = t[1], Position(u) < Position(t)
        PROVE  Exists(u) /\ status[u] = "complete"
    <3>1. u[2] < t[2] /\ u[2] \in Nat /\ t[2] \in Nat /\ t[1] \in Jobs
      BY <2>1, <2>2, EarlierRow, TaskShape
    <3>2. Exists(u)
      BY <2>1, <2>2, <3>1 DEF Exists, BoardInv, BoardTypeOK
    <3> QED
      BY <2>2, <3>2 DEF Eligible, TasksOf
  <2> QED
    BY <2>1, <2>2 DEF Lifecycle!Ready, Stage
<1>2. \A t \in Tasks : Exists(t)' <=> Exists(t)
  BY DEF Exists
<1>3. \A t \in batch : Exists(t)
  BY DEF Eligible
<1>4. [t \in Tasks |-> Stage(t)]' =
        [t \in Tasks |-> IF t \in batch THEN "dispatched" ELSE Stage(t)]
  BY <1>2, <1>3 DEF Stage
<1>5. Lifecycle!Dispatch(batch)
  BY <1>1, <1>4 DEF Lifecycle!Dispatch, Stage
<1> QED
  BY <1>5 DEF Lifecycle!LifecycleNext

\* Marking a task completes it, or changes nothing when it was complete.
LEMMA MarkCompletes ==
  ASSUME BoardInv, NEW q \in Requests, MarkComplete(q)
  PROVE  Lifecycle!LifecycleNext \/ UNCHANGED [t \in Tasks |-> Stage(t)]
<1> USE DEF MarkComplete, jobVars, streamVars
<1>0. PICK done \in Tasks : done = request[q].task
  BY ActiveShape DEF BoardInv
<1>1. done \in Tasks /\ status[done] \in {"dispatched", "complete"} /\ Exists(done)
  BY <1>0 DEF BoardInv, BoardTypeOK, RowsBehindWork
<1>2. \A t \in Tasks : status'[t] = IF t = done THEN "complete" ELSE status[t]
  BY <1>0 DEF BoardInv, BoardTypeOK
<1>3. \A t \in Tasks : Exists(t)' <=> Exists(t)
  BY DEF Exists
<1>4. CASE status[done] = "complete"
  BY <1>1, <1>2, <1>3, <1>4 DEF Stage
<1>5. CASE status[done] = "dispatched"
  <2>1. [t \in Tasks |-> Stage(t)]' =
          [[t \in Tasks |-> Stage(t)] EXCEPT ![done] = "complete"]
    BY <1>1, <1>2, <1>3 DEF Stage
  <2>2. Lifecycle!Complete(done)
    BY <1>1, <1>5, <2>1 DEF Lifecycle!Complete, Stage
  <2> QED
    BY <1>1, <2>2 DEF Lifecycle!LifecycleNext
<1> QED
  BY <1>1, <1>4, <1>5

\* Any step of the board is a step or a stutter of the life cycle.
LEMMA LifecycleStep ==
  ASSUME BoardInv, [BoardNext]_boardVars
  PROVE  Lifecycle!LifecycleNext \/ UNCHANGED [t \in Tasks |-> Stage(t)]
<1>1. CASE \/ \E j \in Jobs : InsertSubTask(j)
           \/ \E r \in Replicas, batch \in SUBSET Tasks : ClaimReady(r, batch)
           \/ \E q \in Requests : MarkComplete(q)
  BY <1>1, InsertAdds, ClaimDispatches, MarkCompletes
<1>2. CASE UNCHANGED << rows, status >>
  BY <1>2, SameBoard
<1>3. \A j \in Jobs :
        SubmitJob(j) \/ JobCreated(j) \/ AbandonSubmission(j) => UNCHANGED << rows, status >>
  BY DEF SubmitJob, JobCreated, AbandonSubmission
<1>4. \A r \in Replicas, t \in Tasks :
        PushToStream(r, t) => UNCHANGED << rows, status >>
  BY DEF PushToStream, jobVars
<1>5. \A q \in Requests :
        Answer(q) \/ SumCreditsFails(q) \/ AbortResult(q)
          => MarkComplete(q) \/ UNCHANGED << rows, status >>
  BY DEF Answer, AcceptResult, RefuseDouble, RefuseOutput, RecordReputation, PersistReceipt,
         CountOpenTasks, SumCredits, CompleteJob, SumCreditsFails, AbortResult,
         jobVars
<1>6. \A q \in Requests, t \in Tasks, n \in Nodes :
        BeginResult(q, t, n) => UNCHANGED << rows, status >>
  BY DEF BeginResult, jobVars
<1>7. \A r \in Replicas : DropClaims(r) => UNCHANGED << rows, status >>
  BY DEF DropClaims, jobVars
<1>8. UNCHANGED boardVars => UNCHANGED << rows, status >>
  BY DEF boardVars
<1> QED
  BY <1>1, <1>2, <1>3, <1>4, <1>5, <1>6, <1>7, <1>8 DEF BoardNext, SubmitStep, BoardFault

\* Whatever is interleaved, crashed or dropped, the sub-tasks go through the
\* life cycle of TaskLifecycle: added, handed out once when all before them is
\* complete, and completed for good.
THEOREM BoardImplementsLifecycle == BoardSpec => ImplementsLifecycle
<1>1. BoardInit => Lifecycle!LifecycleInit
  <2> SUFFICES ASSUME BoardInit PROVE Lifecycle!LifecycleInit
    OBVIOUS
  <2>1. ASSUME NEW t \in Tasks PROVE ~ Exists(t)
    BY TaskShape DEF BoardInit, Exists
  <2> QED
    BY <2>1 DEF Lifecycle!LifecycleInit
<1>2. BoardInv /\ [BoardNext]_boardVars
        => [Lifecycle!LifecycleNext]_([t \in Tasks |-> IF Exists(t) THEN status[t] ELSE "absent"])
  BY LifecycleStep DEF Stage
<1> QED
  BY <1>1, <1>2, BoardInvariant, PTL
     DEF BoardSpec, ImplementsLifecycle, Lifecycle!LifecycleSpec

-----------------------------------------------------------------------------
(* What strands a row                                                      *)

\* A claim that is not dropped keeps its rows in sight until each of them is
\* on the stream.
LEMMA InSightStep ==
  ASSUME BoardInv, DispatchedIsPushed, [BoardNext]_boardVars, faults' = 0
  PROVE  DispatchedIsPushed'
<1> USE DEF jobVars, resultVars, streamVars
<1>1. ASSUME NEW r \in Replicas, NEW batch \in SUBSET Tasks, ClaimReady(r, batch)
      PROVE  DispatchedIsPushed'
  <2>1. \A s \in Replicas : claims[s] \subseteq claims'[s]
    BY <1>1 DEF ClaimReady, BoardInv, BoardTypeOK
  <2>2. batch \subseteq claims'[r]
    BY <1>1 DEF ClaimReady, BoardInv, BoardTypeOK
  <2>3. \A t \in Tasks : status'[t] = "dispatched" => t \in batch \/ status[t] = "dispatched"
    BY <1>1 DEF ClaimReady
  <2> QED
    BY <1>1, <2>1, <2>2, <2>3 DEF ClaimReady, DispatchedIsPushed
<1>2. ASSUME NEW r \in Replicas, NEW t \in Tasks, PushToStream(r, t)
      PROVE  DispatchedIsPushed'
  <2>1. \A s \in Replicas : claims[s] \subseteq claims'[s] \cup published'
    BY <1>2 DEF PushToStream, BoardInv, BoardTypeOK
  <2>2. published \subseteq published' /\ status' = status
    BY <1>2 DEF PushToStream
  <2> QED
    BY <2>1, <2>2 DEF DispatchedIsPushed
<1>3. ASSUME NEW q \in Requests, MarkComplete(q)
      PROVE  DispatchedIsPushed'
  BY <1>3 DEF MarkComplete, DispatchedIsPushed, BoardInv, BoardTypeOK
<1>4. ASSUME NEW r \in Replicas, DropClaims(r)
      PROVE  FALSE
  BY <1>4 DEF DropClaims, Fault, BoardInv, BoardTypeOK
<1>5. ASSUME UNCHANGED << status, claims, published >>
      PROVE  DispatchedIsPushed'
  BY <1>5 DEF DispatchedIsPushed
<1>6. \/ UNCHANGED << status, claims, published >>
      \/ \E r \in Replicas, batch \in SUBSET Tasks : ClaimReady(r, batch)
      \/ \E r \in Replicas, t \in Tasks : PushToStream(r, t)
      \/ \E r \in Replicas : DropClaims(r)
      \/ \E q \in Requests : MarkComplete(q)
  BY DEF BoardNext, SubmitStep, SubmitJob, InsertSubTask, JobCreated, BeginResult,
         Answer, AcceptResult, RefuseDouble, RefuseOutput, RecordReputation, PersistReceipt,
         CountOpenTasks, SumCredits, CompleteJob, BoardFault, AbandonSubmission,
         SumCreditsFails, AbortResult, boardVars
<1> QED
  BY <1>1, <1>2, <1>3, <1>4, <1>5, <1>6

\* A step counts one fault or none.
LEMMA FaultsCount ==
  ASSUME [BoardNext]_boardVars
  PROVE  faults' = faults \/ faults' = faults + 1
<1>1. BoardFault => faults' = faults + 1
  BY DEF BoardFault, AbandonSubmission, DropClaims, SumCreditsFails, AbortResult, Fault
<1>2. \A q \in Requests : Answer(q) => faults' = faults
  BY DEF Answer, AcceptResult, RefuseDouble, RefuseOutput, MarkComplete, RecordReputation,
         PersistReceipt, CountOpenTasks, SumCredits, CompleteJob
<1>3. \A j \in Jobs : SubmitStep(j) => faults' = faults
  BY DEF SubmitStep, SubmitJob, InsertSubTask, JobCreated
<1>4. \A r \in Replicas : /\ \A batch \in SUBSET Tasks : ClaimReady(r, batch) => faults' = faults
                         /\ \A t \in Tasks : PushToStream(r, t) => faults' = faults
  BY DEF ClaimReady, PushToStream
<1>5. \A q \in Requests, t \in Tasks, n \in Nodes : BeginResult(q, t, n) => faults' = faults
  BY DEF BeginResult
<1>6. UNCHANGED boardVars => faults' = faults
  BY DEF boardVars
<1> QED
  BY <1>1, <1>2, <1>3, <1>4, <1>5, <1>6 DEF BoardNext

\* The claim of task_manager.rs:54 fails through faults only: as long as no
\* push, reply or replica is lost, every dispatched row is on the stream or in
\* the hands of the replica that will push it, with any number of replicas
\* claiming side by side.
THEOREM OnlyFaultsStrand == BoardSpec => [](faults = 0 => DispatchedIsPushed)
<1> DEFINE InSight == faults = 0 => DispatchedIsPushed
<1>1. BoardInit => InSight
  BY DEF BoardInit, DispatchedIsPushed
<1>2. BoardInv /\ InSight /\ [BoardNext]_boardVars => InSight'
  <2> SUFFICES ASSUME BoardInv, InSight, [BoardNext]_boardVars, faults' = 0
               PROVE  DispatchedIsPushed'
    OBVIOUS
  <2>1. faults' = faults \/ faults' = faults + 1
    BY FaultsCount
  <2>2. faults = 0
    BY <2>1 DEF BoardInv, BoardTypeOK
  <2> QED
    BY <2>2, InSightStep
<1> QED
  BY <1>1, <1>2, BoardInvariant, PTL DEF BoardSpec

=============================================================================
