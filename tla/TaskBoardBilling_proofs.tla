----------------------- MODULE TaskBoardBilling_proofs -----------------------
(***************************************************************************)
(* Proofs about what the board pays and when it closes a job: the          *)
(* double-submit guard, finalization, the bill, the assignee and the       *)
(* reputation event that comes before a receipt.                           *)
(***************************************************************************)
EXTENDS TaskBoard_proofs, FiniteSums

\* What a step of a request that moves on, or is answered, does to the others.
LEMMA GotoEffect ==
  ASSUME BoardTypeOK, NEW q \in Requests, request[q].pc # "idle",
         NEW pc \in Steps, Goto(q, pc)
  PROVE  /\ \A p \in Requests \ {q} : request'[p] = request[p]
         /\ request'[q].pc = pc
         /\ request'[q].task = request[q].task
         /\ request'[q].node = request[q].node
         /\ request'[q].sum = request[q].sum
<1>1. request[q] \in ActiveRequest
  BY ActiveShape
<1> QED
  BY <1>1 DEF Goto, BoardTypeOK, ActiveRequest

LEMMA ReplyEffect ==
  ASSUME BoardTypeOK, NEW q \in Requests, Reply(q)
  PROVE  /\ \A p \in Requests \ {q} : request'[p] = request[p]
         /\ request'[q] = Idle
         /\ request'[q].pc = "idle"
BY DEF Reply, BoardTypeOK, Idle

-----------------------------------------------------------------------------
(* The double-submit guard                                                 *)

\* The requests past the guard that have not paid yet.
Payers(t) ==
  {q \in Requests : /\ request[q].task = t
                    /\ request[q].pc \in {"mark", "reputation", "receipt"}}

\* A request that is paying after a step was paying before it, or passed the
\* guard in that step and found its task not complete.
LEMMA PayersStep ==
  ASSUME BoardInv, [BoardNext]_boardVars, NEW t \in Tasks, status[t] = "complete"
  PROVE  Payers(t)' \subseteq Payers(t)
<1>1. CASE UNCHANGED request
  BY <1>1 DEF Payers
<1>2. ASSUME NEW q \in Requests, NEW u \in Tasks, NEW n \in Nodes, BeginResult(q, u, n)
      PROVE  Payers(t)' \subseteq Payers(t)
  <2>1. \A p \in Requests : request'[p] = request[p] \/ request'[p].pc = "load"
    BY <1>2 DEF BeginResult, BoardInv, BoardTypeOK
  <2> QED
    BY <2>1 DEF Payers
<1>3. ASSUME NEW q \in Requests, Reply(q)
      PROVE  Payers(t)' \subseteq Payers(t)
  <2>1. \A p \in Requests : request'[p] = request[p] \/ request'[p].pc = "idle"
    BY <1>3, ReplyEffect DEF BoardInv
  <2> QED
    BY <2>1 DEF Payers
<1>4. ASSUME NEW q \in Requests, NEW pc \in Steps, Goto(q, pc), request[q].pc # "idle",
             request[q].task = t /\ pc \in {"mark", "reputation", "receipt"}
               => request[q].pc \in {"mark", "reputation", "receipt"}
      PROVE  Payers(t)' \subseteq Payers(t)
  <2>1. /\ \A p \in Requests \ {q} : request'[p] = request[p]
        /\ request'[q].pc = pc /\ request'[q].task = request[q].task
    BY <1>4, GotoEffect DEF BoardInv
  <2> QED
    BY <1>4, <2>1 DEF Payers
<1>5. ASSUME NEW q \in Requests, Answer(q)
      PROVE  Payers(t)' \subseteq Payers(t)
  <2>1. CASE AcceptResult(q)
    BY <2>1, <1>4 DEF AcceptResult, Steps
  <2>2. CASE RefuseDouble(q) \/ RefuseOutput(q) \/ CompleteJob(q)
    BY <2>2, <1>3 DEF RefuseDouble, RefuseOutput, CompleteJob
  <2>3. CASE MarkComplete(q)
    BY <2>3, <1>4 DEF MarkComplete, Steps
  <2>4. CASE RecordReputation(q)
    BY <2>4, <1>4 DEF RecordReputation, Steps
  <2>5. CASE PersistReceipt(q)
    BY <2>5, <1>4 DEF PersistReceipt, Steps
  <2>6. CASE CountOpenTasks(q)
    BY <2>6, <1>3, <1>4 DEF CountOpenTasks, StartBilling, Steps
  <2>7. CASE SumCredits(q)
    <3>1. \A p \in Requests : request'[p] = request[p] \/ request'[p].pc = "finish"
      <4>1. request[q] \in ActiveRequest
        BY <2>7, ActiveShape DEF SumCredits, BoardInv
      <4> QED
        BY <2>7, <4>1 DEF SumCredits, ActiveRequest, BoardInv, BoardTypeOK
    <3> QED
      BY <3>1 DEF Payers
  <2> QED
    BY <1>5, <2>1, <2>2, <2>3, <2>4, <2>5, <2>6, <2>7 DEF Answer
<1>6. ASSUME NEW q \in Requests, SumCreditsFails(q) \/ AbortResult(q)
      PROVE  Payers(t)' \subseteq Payers(t)
  BY <1>6, <1>3, <1>4 DEF SumCreditsFails, AbortResult, Steps
<1>7. \A j \in Jobs : SubmitStep(j) \/ AbandonSubmission(j) => UNCHANGED request
  BY DEF SubmitStep, SubmitJob, InsertSubTask, JobCreated, AbandonSubmission
<1>8. /\ \A r \in Replicas, batch \in SUBSET Tasks : ClaimReady(r, batch) => UNCHANGED request
      /\ \A r \in Replicas, u \in Tasks : PushToStream(r, u) => UNCHANGED request
      /\ \A r \in Replicas : DropClaims(r) => UNCHANGED request
  BY DEF ClaimReady, PushToStream, DropClaims
<1>9. UNCHANGED boardVars => UNCHANGED request
  BY DEF boardVars
<1> QED
  BY <1>1, <1>2, <1>5, <1>6, <1>7, <1>8, <1>9 DEF BoardNext, BoardFault

\* When nobody is paying for a complete task, nobody will.
LEMMA PayingStep ==
  ASSUME BoardInv, [BoardNext]_boardVars, NEW t \in Tasks,
         status[t] = "complete", ~ Paying(t)
  PROVE  ~ Paying(t)'
<1>1. Payers(t) = {} /\ Payers(t)' = {}
  BY PayersStep DEF Payers, Paying
<1> QED BY <1>1 DEF Payers, Paying

\* Receipts change by the one statement that inserts them.
LEMMA PaidByReceipt ==
  ASSUME [BoardNext]_boardVars
  PROVE  UNCHANGED receipts \/ \E q \in Requests : PersistReceipt(q)
<1>1. \A q \in Requests : Answer(q) => UNCHANGED receipts \/ PersistReceipt(q)
  BY DEF Answer, AcceptResult, RefuseDouble, RefuseOutput, MarkComplete,
         RecordReputation, CountOpenTasks, SumCredits, CompleteJob, resultVars
<1>2. \A j \in Jobs : SubmitStep(j) \/ AbandonSubmission(j) => UNCHANGED receipts
  BY DEF SubmitStep, SubmitJob, InsertSubTask, JobCreated, AbandonSubmission, resultVars
<1>3. /\ \A r \in Replicas, batch \in SUBSET Tasks : ClaimReady(r, batch) => UNCHANGED receipts
      /\ \A r \in Replicas, u \in Tasks : PushToStream(r, u) => UNCHANGED receipts
      /\ \A r \in Replicas : DropClaims(r) => UNCHANGED receipts
  BY DEF ClaimReady, PushToStream, DropClaims, resultVars
<1>4. /\ \A q \in Requests, u \in Tasks, m \in Nodes : BeginResult(q, u, m) => UNCHANGED receipts
      /\ \A q \in Requests : SumCreditsFails(q) \/ AbortResult(q) => UNCHANGED receipts
  BY DEF BeginResult, SumCreditsFails, AbortResult, resultVars
<1>5. UNCHANGED boardVars => UNCHANGED receipts
  BY DEF boardVars
<1> QED
  BY <1>1, <1>2, <1>3, <1>4, <1>5 DEF BoardNext, BoardFault

\* Only a request that is paying for a task issues a receipt for it.
LEMMA ReceiptStep ==
  ASSUME BoardInv, [BoardNext]_boardVars, NEW t \in Tasks, NEW n \in Nodes, ~ Paying(t)
  PROVE  receipts'[<< t, n >>] = receipts[<< t, n >>]
<1>1. CASE UNCHANGED receipts
  BY <1>1
<1>2. ASSUME NEW q \in Requests, PersistReceipt(q)
      PROVE  receipts'[<< t, n >>] = receipts[<< t, n >>]
  <2>1. request[q].task # t
    BY <1>2 DEF PersistReceipt, Paying
  <2>2. << t, n >> \in Award /\ << t, n >> # << request[q].task, request[q].node >>
    BY <2>1 DEF Award
  <2> QED
    BY <1>2, <2>2 DEF PersistReceipt, BoardInv, BoardTypeOK
<1> QED
  BY <1>1, <1>2, PaidByReceipt

\* Once a task is complete and nobody who passed the guard is still paying for
\* it, it is closed for good: no request passes again, no receipt is issued.
THEOREM ClosedForGood == BoardSpec => PaidThenClosed
<1>1. BoardInv /\ [BoardNext]_boardVars =>
        [ \A t \in Tasks :
            status[t] = "complete" /\ ~ Paying(t)
              => /\ ~ Paying(t)'
                 /\ \A n \in Nodes : receipts'[<< t, n >>] = receipts[<< t, n >>] ]_boardVars
  BY PayingStep, ReceiptStep
<1> QED
  BY <1>1, BoardInvariant, PTL DEF BoardSpec, PaidThenClosed

-----------------------------------------------------------------------------
(* Finalization, the bill and the assignee                                 *)

UnsubmittedEmpty == \A j \in Jobs : submission[j] = "none" => rows[j] = 0

\* A complete row's assignee holds a receipt, or the request that wrote it is
\* on its way to issue one.
AssigneeBacked ==
  faults = 0 =>
    \A t \in Tasks :
      status[t] = "complete" =>
        /\ assigned[t] \in Nodes
        /\ \/ receipts[<< t, assigned[t] >>] > 0
           \/ \E q \in Requests : /\ request[q].task = t
                                  /\ request[q].node = assigned[t]
                                  /\ request[q].pc \in {"reputation", "receipt"}

\* NoLostFinalize and AssigneePaid rest on what the requests in flight still
\* owe: this makes the two inductive.
BillInv ==
  /\ BoardInv
  /\ UnsubmittedEmpty
  /\ NoLostFinalize
  /\ AssigneeBacked

BillGoal ==
  /\ UnsubmittedEmpty
  /\ NoLostFinalize
  /\ AssigneeBacked

\* The steps that neither write a result nor move a request.
BoardOnlyStep ==
  \/ \E j \in Jobs : SubmitStep(j) \/ AbandonSubmission(j)
  \/ UNCHANGED boardVars
  \/ \E r \in Replicas, batch \in SUBSET Tasks : ClaimReady(r, batch)
  \/ \E r \in Replicas, t \in Tasks : PushToStream(r, t)
  \/ \E r \in Replicas : DropClaims(r)

\* None of them makes a job all complete that was not, and they write to the
\* jobs row only when it is inserted.
LEMMA BoardOnlyEffect ==
  ASSUME BoardInv, UnsubmittedEmpty, BoardOnlyStep
  PROVE  /\ UNCHANGED << request, assigned, totalCost, overlapped, receipts >>
         /\ faults \in Nat /\ (faults' = 0 => faults = 0)
         /\ UnsubmittedEmpty'
         /\ \A t \in Tasks : status'[t] = "complete" <=> status[t] = "complete"
         /\ \A k \in Jobs :
              \/ jobStatus'[k] = jobStatus[k]
              \/ rows'[k] = 0 /\ jobStatus'[k] # "complete"
         /\ \A k \in Jobs :
              rows'[k] > 0 /\ AllComplete(k)' => rows[k] > 0 /\ AllComplete(k)
<1> USE DEF BoardInv, BoardOnlyStep
<1>1. /\ UNCHANGED << request, assigned, totalCost, overlapped, receipts >>
      /\ faults \in Nat /\ (faults' = 0 => faults = 0)
  BY BoardAssumption
     DEF SubmitStep, SubmitJob, InsertSubTask, JobCreated, AbandonSubmission, ClaimReady,
         PushToStream, DropClaims, boardVars, resultVars, Fault, BoardTypeOK
<1>2. \A t \in Tasks : /\ status'[t] = "complete" <=> status[t] = "complete"
                       /\ Exists(t) => Exists(t)'
  <2>1. CASE UNCHANGED << rows, status >>
    BY <2>1 DEF Exists
  <2>2. CASE \E r \in Replicas, batch \in SUBSET Tasks : ClaimReady(r, batch)
    BY <2>2 DEF ClaimReady, Eligible, Exists, jobVars
  <2>3. CASE \E j \in Jobs : InsertSubTask(j)
    <3>1. \A t \in Tasks : t[1] \in Jobs /\ t[2] \in Nat
      BY TaskShape
    <3> QED
      BY <2>3, <3>1 DEF InsertSubTask, Exists, BoardTypeOK
  <2> QED
    BY <2>1, <2>2, <2>3
       DEF SubmitStep, SubmitJob, JobCreated, AbandonSubmission, PushToStream, DropClaims,
           boardVars, jobVars
<1>3. UnsubmittedEmpty'
  BY DEF UnsubmittedEmpty, SubmitStep, SubmitJob, InsertSubTask, JobCreated,
         AbandonSubmission, ClaimReady, PushToStream, DropClaims, boardVars, jobVars,
         BoardTypeOK
<1>4. \A k \in Jobs :
        \/ jobStatus'[k] = jobStatus[k]
        \/ rows'[k] = 0 /\ jobStatus'[k] # "complete"
  BY DEF UnsubmittedEmpty, SubmitStep, SubmitJob, InsertSubTask, JobCreated,
         AbandonSubmission, ClaimReady, PushToStream, DropClaims, boardVars, resultVars,
         BoardTypeOK
<1>5. ASSUME NEW k \in Jobs, rows'[k] > 0, AllComplete(k)'
      PROVE  rows[k] > 0 /\ AllComplete(k)
  <2>1. AllComplete(k)
    BY <1>2, <1>5 DEF AllComplete, TasksOf
  <2>2. rows[k] > 0
    <3>1. CASE rows'[k] = rows[k]
      BY <1>5, <3>1
    <3>2. CASE rows'[k] # rows[k]
      <4>1. PICK j \in Jobs : InsertSubTask(j) /\ k = j
        BY <3>2 DEF SubmitStep, SubmitJob, InsertSubTask, JobCreated, AbandonSubmission,
                    ClaimReady, PushToStream, DropClaims, boardVars, jobVars, BoardTypeOK
      <4>2. PICK new \in Tasks : new[1] = j /\ new[2] = rows[j] + 1
        <5>1. rows[j] \in Nat /\ Len(PlanOf(j)) \in Nat
          BY PlanShape, BoardAssumption DEF PlanOf, BoardTypeOK
        <5>2. rows[j] + 1 \in 1 .. Len(PlanOf(j))
          BY <4>1, <5>1 DEF InsertSubTask
        <5>3. << j, rows[j] + 1 >> \in Tasks
          BY <5>2 DEF Tasks
        <5> QED
          BY <5>3
      <4>3. Exists(new)' /\ status[new] # "complete"
        <5>1. rows[j] \in Nat /\ rows'[j] = rows[j] + 1
          BY <4>1 DEF InsertSubTask, BoardTypeOK
        <5>2. Exists(new)' /\ ~ Exists(new)
          BY <4>2, <5>1 DEF Exists
        <5> QED
          BY <5>2 DEF RowsBehindWork
      <4>4. status'[new] # "complete"
        BY <1>2, <4>3
      <4> QED
        BY <1>5, <4>1, <4>2, <4>3, <4>4 DEF AllComplete, TasksOf
    <3> QED
      BY <3>1, <3>2
  <2> QED
    BY <2>1, <2>2
<1> QED
  BY <1>1, <1>2, <1>3, <1>4, <1>5

LEMMA BoardOnlyBill ==
  ASSUME BillInv, BoardOnlyStep
  PROVE  BillGoal'
<1> USE DEF BillInv
<1>1. /\ UNCHANGED << request, assigned, receipts >>
      /\ faults' = 0 => faults = 0
      /\ UnsubmittedEmpty'
      /\ \A t \in Tasks : status'[t] = "complete" <=> status[t] = "complete"
      /\ \A k \in Jobs :
           \/ jobStatus'[k] = jobStatus[k]
           \/ rows'[k] = 0 /\ jobStatus'[k] # "complete"
      /\ \A k \in Jobs :
           rows'[k] > 0 /\ AllComplete(k)' => rows[k] > 0 /\ AllComplete(k)
  BY BoardOnlyEffect
<1>2. NoLostFinalize'
  <2> SUFFICES ASSUME faults' = 0, NEW k \in Jobs,
                      rows'[k] > 0, AllComplete(k)', jobStatus'[k] # "complete"
               PROVE  Finalizing(k)'
    BY DEF NoLostFinalize
  <2>1. Finalizing(k)' <=> Finalizing(k)
    BY <1>1 DEF Finalizing
  <2>2. rows[k] > 0 /\ AllComplete(k) /\ jobStatus[k] # "complete"
    <3>1. rows[k] > 0 /\ AllComplete(k)
      BY <1>1
    <3>2. rows'[k] # 0
      BY DEF BoardInv, BoardTypeOK
    <3> QED
      BY <1>1, <3>1, <3>2
  <2> QED
    BY <1>1, <2>1, <2>2 DEF NoLostFinalize
<1>3. AssigneeBacked'
  BY <1>1 DEF AssigneeBacked
<1> QED
  BY <1>1, <1>2, <1>3 DEF BillGoal

\* Steps of one request that write no table: they must not drop a finalization
\* that is due, nor leave a payment behind.
LEMMA QuietMove ==
  ASSUME BillInv, NEW q \in Requests,
         UNCHANGED << submission, rows, status, assigned, jobStatus, totalCost, receipts >>,
         faults' \in Nat, faults' = 0 => faults = 0,
         \A p \in Requests \ {q} : request'[p] = request[p],
         faults' = 0 /\ request[q].pc \in {"reputation", "receipt", "count", "sum", "finish"}
           => /\ request[q].pc \notin {"reputation", "receipt"}
              /\ \/ ~ AllComplete(request[q].task[1])
                 \/ /\ request'[q].task = request[q].task
                    /\ request'[q].pc \in {"sum", "finish"}
  PROVE  BillGoal'
<1> USE DEF BillInv, BoardInv
<1>1. UnsubmittedEmpty'
  BY DEF UnsubmittedEmpty
<1>2. \A k \in Jobs : AllComplete(k)' <=> AllComplete(k)
  BY DEF AllComplete, Exists
<1>3. NoLostFinalize'
  <2> SUFFICES ASSUME faults' = 0, NEW k \in Jobs,
                      rows[k] > 0, AllComplete(k), jobStatus[k] # "complete"
               PROVE  Finalizing(k)'
    BY <1>2 DEF NoLostFinalize
  <2>1. PICK p \in Requests :
          /\ request[p].task \in TasksOf(k)
          /\ request[p].pc \in {"reputation", "receipt", "count", "sum", "finish"}
    BY DEF NoLostFinalize, Finalizing
  <2>2. CASE p # q
    BY <2>1, <2>2 DEF Finalizing
  <2>3. CASE p = q
    <3>1. request'[q].task = request[q].task /\ request'[q].pc \in {"sum", "finish"}
      BY <2>1, <2>3 DEF TasksOf
    <3> QED
      BY <2>1, <2>3, <3>1 DEF Finalizing
  <2> QED
    BY <2>2, <2>3
<1>4. AssigneeBacked'
  <2> SUFFICES ASSUME faults' = 0, NEW t \in Tasks, status[t] = "complete",
                      ~ receipts[<< t, assigned[t] >>] > 0
               PROVE  /\ assigned[t] \in Nodes
                      /\ \E p \in Requests : /\ request'[p].task = t
                                             /\ request'[p].node = assigned[t]
                                             /\ request'[p].pc \in {"reputation", "receipt"}
    BY DEF AssigneeBacked
  <2>1. PICK p \in Requests : /\ request[p].task = t
                              /\ request[p].node = assigned[t]
                              /\ request[p].pc \in {"reputation", "receipt"}
    BY DEF AssigneeBacked
  <2>2. p # q
    BY <2>1
  <2> QED
    BY <2>1, <2>2 DEF AssigneeBacked
<1> QED
  BY <1>1, <1>3, <1>4 DEF BillGoal

\* The steps of a request that write no table are quiet.
LEMMA QuietBill ==
  ASSUME BillInv, NEW q \in Requests,
         \/ \E t \in Tasks, n \in Nodes : BeginResult(q, t, n)
         \/ AcceptResult(q) \/ RefuseDouble(q) \/ RefuseOutput(q)
         \/ CountOpenTasks(q) \/ SumCredits(q) \/ SumCreditsFails(q) \/ AbortResult(q)
  PROVE  BillGoal'
<1> USE DEF BillInv, BoardInv
<1>0. faults \in Nat
  BY BoardAssumption DEF BoardTypeOK
<1>1. UNCHANGED << submission, rows, status, assigned, jobStatus, totalCost, receipts >>
  BY DEF BeginResult, AcceptResult, RefuseDouble, RefuseOutput, CountOpenTasks,
         SumCredits, SumCreditsFails, AbortResult, jobVars, resultVars
<1>3. ASSUME NEW t \in Tasks, NEW n \in Nodes, BeginResult(q, t, n)
      PROVE  BillGoal'
  <2>1. \A r \in Requests \ {q} : request'[r] = request[r]
    BY <1>3 DEF BeginResult, BoardTypeOK
  <2> QED
    BY <1>0, <1>1, <1>3, <2>1, QuietMove DEF BeginResult
<1>4. CASE AcceptResult(q)
  <2>1. \A r \in Requests \ {q} : request'[r] = request[r]
    BY <1>4, GotoEffect DEF AcceptResult, Steps
  <2> QED
    BY <1>0, <1>1, <1>4, <2>1, QuietMove DEF AcceptResult
<1>5. ASSUME Reply(q), faults' = 0 => faults = 0, faults' \in Nat,
             faults' = 0 /\ request[q].pc \in {"reputation", "receipt", "count", "sum", "finish"}
               => request[q].pc = "count" /\ ~ AllComplete(request[q].task[1])
      PROVE  BillGoal'
  <2>1. \A r \in Requests \ {q} : request'[r] = request[r]
    BY <1>5, ReplyEffect
  <2> QED
    BY <1>1, <1>5, <2>1, QuietMove
<1>6. CASE RefuseDouble(q) \/ RefuseOutput(q) \/ AbortResult(q)
  <2>1. faults' \in Nat /\ (AbortResult(q) => faults' # 0) /\ (faults' = 0 => faults = 0)
    BY <1>0, <1>6 DEF RefuseDouble, RefuseOutput, AbortResult, Fault
  <2> QED
    BY <1>5, <1>6, <2>1 DEF RefuseDouble, RefuseOutput, AbortResult
<1>7. CASE CountOpenTasks(q)
  <2>1. CASE ~ AllComplete(request[q].task[1])
    BY <1>0, <1>5, <1>7, <2>1 DEF CountOpenTasks
  <2>2. CASE AllComplete(request[q].task[1])
    <3>1. /\ \A r \in Requests \ {q} : request'[r] = request[r]
          /\ request'[q].pc = "sum"
          /\ request'[q].task = request[q].task
      BY <1>7, <2>2, GotoEffect DEF CountOpenTasks, StartBilling, Steps
    <3> QED
      BY <1>0, <1>1, <1>7, <3>1, QuietMove DEF CountOpenTasks
  <2> QED
    BY <2>1, <2>2
<1>8. CASE SumCredits(q)
  <2>1. request[q] \in ActiveRequest
    BY <1>8, ActiveShape DEF SumCredits
  <2>2. /\ \A r \in Requests \ {q} : request'[r] = request[r]
        /\ request'[q].pc = "finish"
        /\ request'[q].task = request[q].task
    BY <1>8, <2>1 DEF SumCredits, BoardTypeOK, ActiveRequest
  <2> QED
    BY <1>0, <1>1, <1>8, <2>2, QuietMove DEF SumCredits
<1>9. CASE SumCreditsFails(q)
  <2>1. \A r \in Requests \ {q} : request'[r] = request[r]
    BY <1>9, GotoEffect DEF SumCreditsFails, Steps
  <2>2. faults' \in Nat /\ faults' # 0
    BY <1>0, <1>9 DEF SumCreditsFails, Fault
  <2> QED
    BY <1>1, <2>1, <2>2, QuietMove
<1> QED
  BY <1>3, <1>4, <1>6, <1>7, <1>8, <1>9

\* Marking a task makes its request the assignee's payer and the job's
\* finalizer.
LEMMA MarkBill ==
  ASSUME BillInv, NEW q \in Requests, MarkComplete(q)
  PROVE  BillGoal'
<1> USE DEF BillInv, BoardInv, MarkComplete, jobVars, streamVars
<1>1. PICK done \in Tasks : done = request[q].task
  BY ActiveShape
<1>2. request[q].node \in Nodes
  BY ActiveShape
<1>3. /\ \A r \in Requests \ {q} : request'[r] = request[r]
      /\ request'[q].pc = "reputation"
      /\ request'[q].task = done
      /\ request'[q].node = request[q].node
      /\ request'[q].sum = request[q].sum
  BY <1>1, GotoEffect DEF Steps
<1>4. \A t \in Tasks :
        /\ status'[t] = IF t = done THEN "complete" ELSE status[t]
        /\ assigned'[t] = IF t = done THEN request[q].node ELSE assigned[t]
  BY <1>1 DEF BoardTypeOK
<1>5. UnsubmittedEmpty'
  BY DEF UnsubmittedEmpty
<1>6. NoLostFinalize'
  <2> SUFFICES ASSUME faults = 0, NEW k \in Jobs,
                      rows[k] > 0, AllComplete(k)', jobStatus[k] # "complete"
               PROVE  Finalizing(k)'
    BY DEF NoLostFinalize
  <2>1. CASE done \in TasksOf(k)
    BY <1>3, <2>1 DEF Finalizing
  <2>2. CASE done \notin TasksOf(k)
    <3>1. AllComplete(k)
      BY <1>4, <2>2 DEF AllComplete, TasksOf, Exists
    <3>2. PICK r \in Requests :
            /\ request[r].task \in TasksOf(k)
            /\ request[r].pc \in {"reputation", "receipt", "count", "sum", "finish"}
      BY <3>1 DEF NoLostFinalize, Finalizing
    <3>3. r # q
      BY <3>2
    <3> QED
      BY <1>3, <3>2, <3>3 DEF Finalizing
  <2> QED
    BY <2>1, <2>2
<1>7. AssigneeBacked'
  <2> SUFFICES ASSUME faults = 0, NEW t \in Tasks, status'[t] = "complete"
               PROVE  /\ assigned'[t] \in Nodes
                      /\ \/ receipts[<< t, assigned'[t] >>] > 0
                         \/ \E r \in Requests : /\ request'[r].task = t
                                                /\ request'[r].node = assigned'[t]
                                                /\ request'[r].pc \in {"reputation", "receipt"}
    BY DEF AssigneeBacked
  <2>1. CASE t = done
    BY <1>2, <1>3, <1>4, <2>1
  <2>2. CASE t # done
    <3>1. status[t] = "complete" /\ assigned'[t] = assigned[t]
      BY <1>4, <2>2
    <3>2. assigned[t] \in Nodes
      BY <3>1 DEF AssigneeBacked
    <3>3. CASE receipts[<< t, assigned[t] >>] > 0
      BY <3>1, <3>2, <3>3
    <3>4. CASE ~ receipts[<< t, assigned[t] >>] > 0
      <4>1. PICK r \in Requests : /\ request[r].task = t
                                  /\ request[r].node = assigned[t]
                                  /\ request[r].pc \in {"reputation", "receipt"}
        BY <3>1, <3>4 DEF AssigneeBacked
      <4>2. request'[r] = request[r]
        BY <1>3, <4>1
      <4> QED
        BY <3>1, <3>2, <4>1, <4>2
    <3> QED
      BY <3>3, <3>4
  <2> QED
    BY <2>1, <2>2
<1> QED
  BY <1>5, <1>6, <1>7 DEF BillGoal

\* The reputation event leaves the payment due; the receipt pays it.
LEMMA PayBill ==
  ASSUME BillInv, NEW q \in Requests, RecordReputation(q) \/ PersistReceipt(q)
  PROVE  BillGoal'
<1> USE DEF BillInv, BoardInv
<1> DEFINE paid == << request[q].task, request[q].node >>
           next == IF RecordReputation(q) THEN "receipt" ELSE "count"
<1>1. request[q].pc \in {"reputation", "receipt"} /\ paid \in Award
  BY ActiveShape DEF RecordReputation, PersistReceipt
<1>2. /\ \A r \in Requests \ {q} : request'[r] = request[r]
      /\ request'[q].pc \in {"receipt", "count"}
      /\ PersistReceipt(q) <=> request'[q].pc = "count"
      /\ request'[q].task = request[q].task
      /\ request'[q].node = request[q].node
      /\ request'[q].sum = request[q].sum
  <2>1. CASE RecordReputation(q)
    BY <2>1, GotoEffect DEF RecordReputation, PersistReceipt, Steps
  <2>2. CASE PersistReceipt(q)
    BY <2>2, GotoEffect DEF PersistReceipt, Steps
  <2> QED
    BY <2>1, <2>2
<1>3. UNCHANGED << submission, rows, status, assigned, jobStatus, totalCost, faults >>
  BY DEF RecordReputation, PersistReceipt, jobVars
<1>4. \A a \in Award : receipts[a] \in Nat /\ receipts'[a] \in Nat /\ receipts[a] <= receipts'[a]
  <2>1. receipts \in [Award -> Nat]
    BY DEF BoardTypeOK
  <2>2. CASE RecordReputation(q)
    BY <2>1, <2>2 DEF RecordReputation
  <2>3. CASE PersistReceipt(q)
    <3>1. receipts' = [receipts EXCEPT ![paid] = @ + 1]
      BY <2>3 DEF PersistReceipt
    <3> HIDE DEF paid
    <3> QED
      BY <1>1, <2>1, <3>1
  <2> QED
    BY <2>2, <2>3
<1>5. PersistReceipt(q) => receipts'[paid] > 0
  BY <1>1 DEF PersistReceipt, BoardTypeOK
<1>6. UnsubmittedEmpty'
  BY <1>3 DEF UnsubmittedEmpty
<1>7. NoLostFinalize'
  <2>1. \A k \in Jobs : AllComplete(k)' <=> AllComplete(k)
    BY <1>3 DEF AllComplete, Exists
  <2>2. \A k \in Jobs : Finalizing(k) => Finalizing(k)'
    BY <1>2 DEF Finalizing
  <2> QED
    BY <1>3, <2>1, <2>2 DEF NoLostFinalize
<1>8. AssigneeBacked'
  <2> SUFFICES ASSUME faults = 0, NEW t \in Tasks, status[t] = "complete"
               PROVE  /\ assigned[t] \in Nodes
                      /\ \/ receipts'[<< t, assigned[t] >>] > 0
                         \/ \E r \in Requests : /\ request'[r].task = t
                                                /\ request'[r].node = assigned[t]
                                                /\ request'[r].pc \in {"reputation", "receipt"}
    BY <1>3 DEF AssigneeBacked
  <2>1. assigned[t] \in Nodes /\ << t, assigned[t] >> \in Award
    BY DEF AssigneeBacked, Award
  <2>2. CASE receipts[<< t, assigned[t] >>] > 0
    BY <1>4, <2>1, <2>2
  <2>3. CASE ~ receipts[<< t, assigned[t] >>] > 0
    <3>1. PICK r \in Requests : /\ request[r].task = t
                                /\ request[r].node = assigned[t]
                                /\ request[r].pc \in {"reputation", "receipt"}
      BY <2>3 DEF AssigneeBacked
    <3>2. CASE r = q /\ PersistReceipt(q)
      BY <1>5, <2>1, <3>1, <3>2
    <3>3. CASE r = q /\ ~ PersistReceipt(q)
      BY <1>2, <2>1, <3>1, <3>3
    <3>4. CASE r # q
      BY <1>2, <2>1, <3>1, <3>4
    <3> QED
      BY <3>2, <3>3, <3>4
  <2> QED
    BY <2>2, <2>3
<1> QED
  BY <1>6, <1>7, <1>8 DEF BillGoal

\* Completing a job writes the sum its request has read.
LEMMA CompleteBill ==
  ASSUME BillInv, NEW q \in Requests, CompleteJob(q)
  PROVE  BillGoal'
<1> USE DEF BillInv, BoardInv, CompleteJob, jobVars, streamVars
<1>1. PICK j \in Jobs : j = request[q].task[1]
  BY ActiveShape
<1>2. /\ \A r \in Requests \ {q} : request'[r] = request[r]
      /\ request'[q].pc = "idle" /\ request'[q].sum = NoAward
  BY ReplyEffect DEF Idle
<1>3. /\ jobStatus' = [jobStatus EXCEPT ![j] = "complete"]
      /\ totalCost' = [totalCost EXCEPT ![j] = request[q].sum]
  BY <1>1
<1>4. NoAward' = NoAward /\ Award' = Award
  BY DEF NoAward, Award
<1>5. UnsubmittedEmpty'
  BY DEF UnsubmittedEmpty
<1>6. NoLostFinalize'
  <2> SUFFICES ASSUME faults = 0, NEW k \in Jobs,
                      rows[k] > 0, AllComplete(k), jobStatus'[k] # "complete"
               PROVE  Finalizing(k)'
    BY DEF NoLostFinalize, AllComplete, Exists
  <2>1. k # j /\ jobStatus[k] # "complete"
    BY <1>3 DEF BoardTypeOK
  <2>2. PICK r \in Requests :
          /\ request[r].task \in TasksOf(k)
          /\ request[r].pc \in {"reputation", "receipt", "count", "sum", "finish"}
    BY <2>1 DEF NoLostFinalize, Finalizing
  <2>3. r # q
    BY <1>1, <2>1, <2>2 DEF TasksOf
  <2> QED
    BY <1>2, <2>2, <2>3 DEF Finalizing
<1>7. AssigneeBacked'
  <2> SUFFICES ASSUME faults = 0, NEW t \in Tasks, status[t] = "complete",
                      ~ receipts[<< t, assigned[t] >>] > 0
               PROVE  \E r \in Requests : /\ request'[r].task = t
                                          /\ request'[r].node = assigned[t]
                                          /\ request'[r].pc \in {"reputation", "receipt"}
    BY DEF AssigneeBacked
  <2>1. PICK r \in Requests : /\ request[r].task = t
                              /\ request[r].node = assigned[t]
                              /\ request[r].pc \in {"reputation", "receipt"}
    BY DEF AssigneeBacked
  <2> QED
    BY <1>2, <2>1
<1> QED
  BY <1>5, <1>6, <1>7 DEF BillGoal

LEMMA BillInit == BoardInit => BillInv
<1> SUFFICES ASSUME BoardInit PROVE BillInv
  OBVIOUS
<1>1. BoardInv
  BY SafetyInit
<1>2. UnsubmittedEmpty /\ NoLostFinalize /\ AssigneeBacked
  BY DEF BoardInit, UnsubmittedEmpty, NoLostFinalize, AssigneeBacked
<1> QED
  BY <1>1, <1>2 DEF BillInv

LEMMA BillStep ==
  ASSUME BillInv, [BoardNext]_boardVars
  PROVE  BillGoal'
<1>1. ASSUME NEW q \in Requests, Answer(q)
      PROVE  BillGoal'
  BY <1>1, QuietBill, MarkBill, PayBill, CompleteBill DEF Answer
<1>2. CASE \E j \in Jobs : SubmitStep(j) \/ AbandonSubmission(j)
  BY <1>2, BoardOnlyBill DEF BoardOnlyStep
<1>3. CASE \/ \E q \in Requests, t \in Tasks, n \in Nodes : BeginResult(q, t, n)
           \/ \E q \in Requests : SumCreditsFails(q) \/ AbortResult(q)
  BY <1>3, QuietBill
<1>4. CASE \/ \E r \in Replicas, batch \in SUBSET Tasks : ClaimReady(r, batch)
           \/ \E r \in Replicas, t \in Tasks : PushToStream(r, t)
           \/ \E r \in Replicas : DropClaims(r)
           \/ UNCHANGED boardVars
  BY <1>4, BoardOnlyBill DEF BoardOnlyStep
<1> QED
  BY <1>1, <1>2, <1>3, <1>4 DEF BoardNext, BoardFault

LEMMA BillInvariant == BoardSpec => []BillInv
<1>1. BoardInit => BillInv
  BY BillInit
<1>2. BillInv /\ [BoardNext]_boardVars => BillInv'
  BY TypeStep, SafetyStep, BillStep DEF BillInv, BoardInv, BillGoal
<1> QED
  BY <1>1, <1>2, PTL DEF BoardSpec

\* However the last results of a job interleave, one of their requests still
\* finalizes it, as long as nothing fails.
THEOREM FinalizeNotLost == BoardSpec => []NoLostFinalize
<1>1. BillInv => NoLostFinalize
  BY DEF BillInv
<1> QED
  BY <1>1, BillInvariant, PTL

\* The node a complete row names is paid once nobody is paying for the row any
\* more, unless something failed.
THEOREM AssigneeIsPaid == BoardSpec => []AssigneePaid
<1>1. BillInv => AssigneePaid
  BY BoardAssumption DEF BillInv, AssigneeBacked, AssigneePaid, Paying
<1> QED
  BY <1>1, BillInvariant, PTL

-----------------------------------------------------------------------------
(* A quiet job's bill is whole                                             *)

\* The requests past the mark, and those that have not read their sum yet.
Past(j, q) ==
  /\ request[q].task \in TasksOf(j)
  /\ request[q].pc \in {"reputation", "receipt", "count", "sum", "finish"}

Due(j) == \E q \in Requests : Past(j, q) /\ request[q].pc # "finish"

\* Unless the flag says otherwise, at most one finalization is under way.
Alone(j) ==
  ~ overlapped[j] => \A p, q \in Requests : Billing(j, p) /\ Billing(j, q) => p = q

\* Between the last receipt and the last update the whole sum is in the hands
\* of the one request that is left, afterwards it is in the jobs row.
Whole(j) ==
  rows[j] > 0 /\ AllComplete(j) /\ ~ Due(j) /\ ~ overlapped[j] =>
    /\ \A q \in Requests : Past(j, q) => request[q].sum = JobReceipts(j)
    /\ (\A q \in Requests : ~ Past(j, q))
         => jobStatus[j] = "complete" /\ totalCost[j] = JobReceipts(j)

WholeInv == \A j \in Jobs : Alone(j) /\ (faults = 0 => Whole(j))

\* A step of a request that is not past its mark in a job, or is about another
\* job, leaves the job's bill as it is.
LEMMA WholeAway ==
  ASSUME NEW k \in Jobs, NEW q \in Requests, Alone(k),
         \A p \in Requests \ {q} : request'[p] = request[p],
         ~ Past(k, q), ~ Past(k, q)',
         rows'[k] = rows[k], AllComplete(k)' <=> AllComplete(k),
         jobStatus'[k] = jobStatus[k], totalCost'[k] = totalCost[k],
         overlapped'[k] = overlapped[k], JobReceipts(k)' = JobReceipts(k)
  PROVE  Alone(k)' /\ (Whole(k) => Whole(k)')
<1>1. \A p \in Requests : /\ Past(k, p)' <=> Past(k, p)
                          /\ Billing(k, p)' <=> Billing(k, p)
                          /\ Past(k, p) => request'[p] = request[p]
  BY DEF Past, Billing, TasksOf
<1>2. Due(k)' <=> Due(k)
  BY <1>1 DEF Due
<1>3. Alone(k)'
  BY <1>1 DEF Alone
<1>4. Whole(k) => Whole(k)'
  BY <1>1, <1>2 DEF Whole
<1> QED
  BY <1>3, <1>4

\* A request before its mark bills nothing.
LEMMA WholeBefore ==
  ASSUME BillInv, WholeInv, NEW k \in Jobs, NEW q \in Requests,
         \/ \E t \in Tasks, n \in Nodes : BeginResult(q, t, n)
         \/ AcceptResult(q) \/ RefuseDouble(q) \/ RefuseOutput(q)
  PROVE  Alone(k)' /\ (faults' = 0 => Whole(k)')
<1> USE DEF BillInv, BoardInv
<1>1. UNCHANGED << rows, status, jobStatus, totalCost, overlapped, receipts, faults >>
  BY DEF BeginResult, AcceptResult, RefuseDouble, RefuseOutput, jobVars, resultVars
<1>2. /\ \A p \in Requests \ {q} : request'[p] = request[p]
      /\ request[q].pc \in {"idle", "load"}
      /\ request'[q].pc \in {"load", "mark", "idle"}
  <2>1. CASE \E t \in Tasks, n \in Nodes : BeginResult(q, t, n)
    BY <2>1 DEF BeginResult, BoardTypeOK
  <2>2. CASE AcceptResult(q)
    BY <2>2, GotoEffect DEF AcceptResult, Steps
  <2>3. CASE RefuseDouble(q) \/ RefuseOutput(q)
    BY <2>3, ReplyEffect DEF RefuseDouble, RefuseOutput
  <2> QED
    BY <2>1, <2>2, <2>3
<1>3. ~ Past(k, q) /\ ~ Past(k, q)'
  BY <1>2 DEF Past
<1>4. /\ AllComplete(k)' <=> AllComplete(k)
      /\ JobReceipts(k)' = JobReceipts(k)
  BY <1>1 DEF AllComplete, Exists, JobReceipts, Award
<1> QED
  BY <1>1, <1>2, <1>3, <1>4, WholeAway DEF WholeInv

\* From the mark to the receipt the job's bill is due.
LEMMA WholePay ==
  ASSUME BillInv, WholeInv, NEW k \in Jobs, NEW q \in Requests,
         MarkComplete(q) \/ RecordReputation(q) \/ PersistReceipt(q)
  PROVE  Alone(k)' /\ (faults' = 0 => Whole(k)')
<1> USE DEF BillInv, BoardInv
<1>1. PICK done \in Tasks : done = request[q].task
  BY ActiveShape DEF MarkComplete, RecordReputation, PersistReceipt
<1>2. /\ \A p \in Requests \ {q} : request'[p] = request[p]
      /\ request[q].pc \in {"mark", "reputation", "receipt"}
      /\ request'[q].pc \in {"reputation", "receipt", "count"}
      /\ request'[q].task = done
  <2>1. CASE MarkComplete(q)
    BY <1>1, <2>1, GotoEffect DEF MarkComplete, Steps
  <2>2. CASE RecordReputation(q)
    BY <1>1, <2>2, GotoEffect DEF RecordReputation, Steps
  <2>3. CASE PersistReceipt(q)
    BY <1>1, <2>3, GotoEffect DEF PersistReceipt, Steps
  <2> QED
    BY <2>1, <2>2, <2>3
<1>3. UNCHANGED << rows, jobStatus, totalCost, overlapped, faults >>
  BY DEF MarkComplete, RecordReputation, PersistReceipt, jobVars
<1>4. CASE done \in TasksOf(k)
  <2>1. Due(k)'
    BY <1>2, <1>4 DEF Due, Past, TasksOf
  <2>2. \A p \in Requests : Billing(k, p)' => Billing(k, p)
    BY <1>2 DEF Billing, TasksOf
  <2>3. Alone(k)'
    BY <1>3, <2>2 DEF WholeInv, Alone
  <2> QED
    BY <2>1, <2>3 DEF Whole
<1>5. CASE done \notin TasksOf(k)
  <2>1. ~ Past(k, q) /\ ~ Past(k, q)'
    BY <1>1, <1>2, <1>5 DEF Past, TasksOf
  <2>2. \A t \in TasksOf(k) : status'[t] = status[t]
    BY <1>1, <1>5
       DEF MarkComplete, RecordReputation, PersistReceipt, TasksOf, BoardTypeOK
  <2>3. AllComplete(k)' <=> AllComplete(k)
    BY <1>3, <2>2 DEF AllComplete, TasksOf, Exists
  <2>4. \A a \in Award : a[1][1] = k => receipts'[a] = receipts[a]
    BY <1>1, <1>5
       DEF MarkComplete, RecordReputation, PersistReceipt, TasksOf, BoardTypeOK
  <2>5. JobReceipts(k)' = JobReceipts(k)
    BY <2>4 DEF JobReceipts, Award
  <2> QED
    BY <1>2, <1>3, <2>1, <2>3, <2>5, WholeAway DEF WholeInv
<1> QED
  BY <1>4, <1>5

\* The count lets a request finalize, which makes the bill due, or turns it
\* away because a row is open.
LEMMA WholeCount ==
  ASSUME BillInv, WholeInv, NEW k \in Jobs, NEW q \in Requests, CountOpenTasks(q)
  PROVE  Alone(k)' /\ (faults' = 0 => Whole(k)')
<1> USE DEF BillInv, BoardInv, CountOpenTasks, jobVars
<1>1. PICK done \in Tasks : done = request[q].task
  BY ActiveShape
<1>2. PICK j \in Jobs : j = done[1]
  BY <1>1, TaskShape
<1>3. CASE AllComplete(j)
  <2>1. /\ \A p \in Requests \ {q} : request'[p] = request[p]
        /\ request'[q].pc = "sum" /\ request'[q].task = done
    BY <1>1, <1>2, <1>3, GotoEffect DEF StartBilling, Steps
  <2>2. overlapped' = [overlapped EXCEPT ![j] = \E p \in Requests \ {q} : Billing(j, p)]
    BY <1>1, <1>2, <1>3 DEF StartBilling
  <2>3. CASE k = j
    <3>1. Due(k)'
      BY <1>2, <2>1, <2>3 DEF Due, Past, TasksOf
    <3>2. overlapped'[k] <=> \E p \in Requests \ {q} : Billing(k, p)
      BY <2>2, <2>3 DEF BoardTypeOK
    <3>3. \A p \in Requests \ {q} : Billing(k, p)' => Billing(k, p)
      BY <2>1 DEF Billing, TasksOf
    <3>4. Alone(k)'
      BY <3>2, <3>3 DEF Alone
    <3> QED
      BY <3>1, <3>4 DEF Whole
  <2>4. CASE k # j
    <3>1. ~ Past(k, q) /\ ~ Past(k, q)'
      BY <1>1, <1>2, <2>1, <2>4 DEF Past, TasksOf
    <3>2. overlapped'[k] = overlapped[k]
      BY <2>2, <2>4 DEF BoardTypeOK
    <3>3. /\ AllComplete(k)' <=> AllComplete(k)
          /\ JobReceipts(k)' = JobReceipts(k)
      BY DEF AllComplete, Exists, JobReceipts, Award
    <3> QED
      BY <2>1, <3>1, <3>2, <3>3, WholeAway DEF WholeInv
  <2> QED
    BY <2>3, <2>4
<1>4. CASE ~ AllComplete(j)
  <2>1. /\ \A p \in Requests \ {q} : request'[p] = request[p]
        /\ request'[q].pc = "idle"
        /\ UNCHANGED overlapped
    BY <1>1, <1>2, <1>4, ReplyEffect
  <2>2. /\ AllComplete(k)' <=> AllComplete(k)
        /\ JobReceipts(k)' = JobReceipts(k)
    BY DEF AllComplete, Exists, JobReceipts, Award
  <2>3. CASE k = j
    <3>1. \A p \in Requests : Billing(k, p)' => Billing(k, p)
      BY <2>1 DEF Billing, TasksOf
    <3> QED
      BY <1>4, <2>1, <2>2, <2>3, <3>1 DEF WholeInv, Alone, Whole
  <2>4. CASE k # j
    <3>1. ~ Past(k, q) /\ ~ Past(k, q)'
      BY <1>1, <1>2, <2>1, <2>4 DEF Past, TasksOf
    <3> QED
      BY <2>1, <2>2, <3>1, WholeAway DEF WholeInv
  <2> QED
    BY <2>3, <2>4
<1> QED
  BY <1>3, <1>4

\* The one request that finalizes alone reads the whole sum and writes it.
LEMMA WholeFinalize ==
  ASSUME BillInv, WholeInv, NEW k \in Jobs, NEW q \in Requests,
         SumCredits(q) \/ CompleteJob(q)
  PROVE  Alone(k)' /\ (faults' = 0 => Whole(k)')
<1> USE DEF BillInv, BoardInv
<1>1. PICK done \in Tasks : done = request[q].task
  BY ActiveShape DEF SumCredits, CompleteJob
<1>2. PICK j \in Jobs : j = done[1]
  BY <1>1, TaskShape
<1>3. UNCHANGED << rows, status, overlapped, receipts, faults >>
  BY DEF SumCredits, CompleteJob, jobVars, resultVars
<1>4. /\ AllComplete(k)' <=> AllComplete(k)
      /\ JobReceipts(k)' = JobReceipts(k)
  BY <1>3 DEF AllComplete, Exists, JobReceipts, Award
<1>5. CASE SumCredits(q)
  <2>1. request[q] \in ActiveRequest
    BY <1>5, ActiveShape DEF SumCredits
  <2>2. /\ \A p \in Requests \ {q} : request'[p] = request[p]
        /\ request[q].pc = "sum" /\ request'[q].pc = "finish"
        /\ request'[q].task = done
        /\ request'[q].sum = JobReceipts(j)
        /\ UNCHANGED << jobStatus, totalCost >>
    BY <1>1, <1>2, <1>5, <2>1 DEF SumCredits, BoardTypeOK, ActiveRequest, resultVars
  <2>3. CASE k = j
    <3>1. \A p \in Requests : Billing(k, p)' <=> Billing(k, p)
      BY <1>1, <2>2 DEF Billing, TasksOf
    <3>2. Alone(k)'
      BY <1>3, <3>1 DEF WholeInv, Alone
    <3>3. ASSUME ~ overlapped[k], ~ Due(k)', NEW p \in Requests, Past(k, p)'
          PROVE  request'[p].sum = JobReceipts(k)
      <4>1. request'[p].pc = "finish"
        BY <3>3 DEF Due
      <4>2. Billing(k, p)' /\ Billing(k, q)'
        BY <1>2, <2>2, <2>3, <3>3, <4>1 DEF Past, Billing, TasksOf
      <4>3. p = q
        BY <3>1, <3>3, <4>2 DEF WholeInv, Alone
      <4> QED
        BY <2>2, <2>3, <4>3
    <3>4. Past(k, q)'
      BY <1>2, <2>2, <2>3 DEF Past, TasksOf
    <3>5. Whole(k)'
      BY <1>3, <1>4, <3>3, <3>4 DEF Whole
    <3> QED
      BY <3>2, <3>5
  <2>4. CASE k # j
    <3>1. ~ Past(k, q) /\ ~ Past(k, q)'
      BY <1>1, <1>2, <2>2, <2>4 DEF Past, TasksOf
    <3> QED
      BY <1>3, <1>4, <2>2, <3>1, WholeAway DEF WholeInv
  <2> QED
    BY <2>3, <2>4
<1>6. CASE CompleteJob(q)
  <2>1. /\ \A p \in Requests \ {q} : request'[p] = request[p]
        /\ request[q].pc = "finish" /\ request'[q].pc = "idle"
        /\ jobStatus' = [jobStatus EXCEPT ![j] = "complete"]
        /\ totalCost' = [totalCost EXCEPT ![j] = request[q].sum]
    BY <1>1, <1>2, <1>6, ReplyEffect DEF CompleteJob
  <2>2. CASE k = j
    <3>1. \A p \in Requests : /\ Billing(k, p)' => Billing(k, p)
                              /\ Past(k, p)' => Past(k, p) /\ request'[p] = request[p]
      BY <2>1 DEF Billing, Past, TasksOf
    <3>2. Alone(k)'
      BY <1>3, <3>1 DEF WholeInv, Alone
    <3>3. Due(k) => Due(k)'
      BY <2>1 DEF Due, Past, TasksOf
    <3>4. Past(k, q)
      BY <1>1, <1>2, <2>1, <2>2 DEF Past, TasksOf
    <3>5. jobStatus'[k] = "complete" /\ totalCost'[k] = request[q].sum
      BY <2>1, <2>2 DEF BoardTypeOK
    <3>6. Whole(k) => Whole(k)'
      BY <1>3, <1>4, <3>1, <3>3, <3>4, <3>5 DEF Whole
    <3> QED
      BY <1>3, <3>2, <3>6 DEF WholeInv
  <2>3. CASE k # j
    <3>1. ~ Past(k, q) /\ ~ Past(k, q)'
      BY <1>1, <1>2, <2>1, <2>3 DEF Past, TasksOf
    <3>2. jobStatus'[k] = jobStatus[k] /\ totalCost'[k] = totalCost[k]
      BY <2>1, <2>3 DEF BoardTypeOK
    <3> QED
      BY <1>3, <1>4, <2>1, <3>1, <3>2, WholeAway DEF WholeInv
  <2> QED
    BY <2>2, <2>3
<1> QED
  BY <1>5, <1>6

\* A failure ends the promise, and adds no finalization.
LEMMA WholeFault ==
  ASSUME BillInv, WholeInv, NEW k \in Jobs, NEW q \in Requests,
         SumCreditsFails(q) \/ AbortResult(q)
  PROVE  Alone(k)' /\ (faults' = 0 => Whole(k)')
<1> USE DEF BillInv, BoardInv
<1>1. faults' # 0 /\ UNCHANGED overlapped
  BY BoardAssumption DEF SumCreditsFails, AbortResult, Fault, resultVars, BoardTypeOK
<1>2. \A p \in Requests : Billing(k, p)' => Billing(k, p)
  <2>1. CASE SumCreditsFails(q)
    BY <2>1, GotoEffect DEF SumCreditsFails, Steps, Billing, TasksOf
  <2>2. CASE AbortResult(q)
    BY <2>2, ReplyEffect DEF AbortResult, Billing, TasksOf
  <2> QED
    BY <2>1, <2>2
<1> QED
  BY <1>1, <1>2 DEF WholeInv, Alone

\* Steps beside the requests only open jobs again.
LEMMA WholeBoardOnly ==
  ASSUME BillInv, WholeInv, NEW k \in Jobs, BoardOnlyStep
  PROVE  Alone(k)' /\ (faults' = 0 => Whole(k)')
<1> USE DEF BillInv
<1>1. /\ UNCHANGED << request, totalCost, overlapped, receipts >>
      /\ faults' = 0 => faults = 0
      /\ \/ jobStatus'[k] = jobStatus[k]
         \/ rows'[k] = 0
      /\ rows'[k] > 0 /\ AllComplete(k)' => rows[k] > 0 /\ AllComplete(k)
  BY BoardOnlyEffect
<1>2. \A p \in Requests : /\ Past(k, p)' <=> Past(k, p)
                          /\ Billing(k, p)' <=> Billing(k, p)
  BY <1>1 DEF Past, Billing, TasksOf
<1>3. Due(k)' <=> Due(k)
  BY <1>1, <1>2 DEF Due
<1>4. JobReceipts(k)' = JobReceipts(k)
  BY <1>1 DEF JobReceipts, Award
<1>5. Alone(k)'
  BY <1>1, <1>2 DEF WholeInv, Alone
<1>6. rows'[k] > 0 => rows'[k] # 0
  OBVIOUS
<1>7. Whole(k) => Whole(k)'
  BY <1>1, <1>2, <1>3, <1>4, <1>6 DEF Whole
<1> QED
  BY <1>1, <1>5, <1>7 DEF WholeInv

LEMMA WholeStep ==
  ASSUME BillInv, WholeInv, [BoardNext]_boardVars
  PROVE  WholeInv'
<1> SUFFICES ASSUME NEW k \in Jobs
             PROVE  Alone(k)' /\ (faults' = 0 => Whole(k)')
  BY DEF WholeInv
<1>1. ASSUME NEW q \in Requests, Answer(q)
      PROVE  Alone(k)' /\ (faults' = 0 => Whole(k)')
  BY <1>1, WholeBefore, WholePay, WholeCount, WholeFinalize DEF Answer
<1>2. CASE \E q \in Requests, t \in Tasks, n \in Nodes : BeginResult(q, t, n)
  BY <1>2, WholeBefore
<1>3. CASE \E q \in Requests : SumCreditsFails(q) \/ AbortResult(q)
  BY <1>3, WholeFault
<1>4. CASE BoardOnlyStep
  BY <1>4, WholeBoardOnly
<1> QED
  BY <1>1, <1>2, <1>3, <1>4 DEF BoardNext, BoardFault, BoardOnlyStep

\* When nothing failed, the total of a job nobody is finalizing is the sum of
\* all its receipts, unless its last finalization began beside another one.
THEOREM QuietBillIsWhole == BoardSpec => []BillIsWhole
<1>1. BoardInit => WholeInv
  BY DEF BoardInit, WholeInv, Alone, Whole, Billing, Idle
<1>2. BillInv /\ WholeInv /\ [BoardNext]_boardVars => WholeInv'
  BY WholeStep
<1>3. WholeInv => BillIsWhole
  <2> SUFFICES ASSUME WholeInv, faults = 0, NEW j \in Jobs,
                      rows[j] > 0, AllComplete(j), ~ Finalizing(j), ~ overlapped[j]
               PROVE  jobStatus[j] = "complete" /\ totalCost[j] = JobReceipts(j)
    BY DEF BillIsWhole
  <2>1. \A q \in Requests : ~ Past(j, q)
    BY DEF Finalizing, Past
  <2>2. ~ Due(j)
    BY <2>1 DEF Due
  <2> QED
    BY <2>1, <2>2 DEF WholeInv, Whole
<1> QED
  BY <1>1, <1>2, <1>3, BillInvariant, PTL DEF BoardSpec

-----------------------------------------------------------------------------
(* No credit without its reputation event                                  *)

\* The requests between the two inserts for an award.
Owed(a) ==
  {q \in Requests : request[q].pc = "receipt" /\ << request[q].task, request[q].node >> = a}

\* Each of them has its event already; this is inductive.
EventsAhead == \A a \in Award : receipts[a] + Cardinality(Owed(a)) <= events[a]

LEMMA OwedIsFinite ==
  \A a \in Award : IsFiniteSet(Owed(a)) /\ Cardinality(Owed(a)) \in Nat
<1> SUFFICES ASSUME NEW a \in Award
             PROVE  IsFiniteSet(Owed(a)) /\ Cardinality(Owed(a)) \in Nat
  OBVIOUS
<1>1. IsFiniteSet(Owed(a))
  BY FS_Subset, BoardAssumption DEF Owed
<1> QED BY <1>1, FS_CardinalityType

\* A request that leaves the place between the inserts, or stays out of it,
\* owes no more than before.
LEMMA OwesNoMore ==
  ASSUME BoardTypeOK, EventsAhead, NEW q \in Requests,
         request' = [request EXCEPT ![q] = request'[q]], request'[q].pc # "receipt",
         UNCHANGED << receipts, events >>
  PROVE  EventsAhead'
<1> SUFFICES ASSUME NEW a \in Award
             PROVE  receipts[a] + Cardinality(Owed(a)') <= events[a]
  BY DEF EventsAhead
<1>1. Owed(a)' \subseteq Owed(a)
  BY DEF Owed, BoardTypeOK
<1>2. Cardinality(Owed(a)') <= Cardinality(Owed(a)) /\ Cardinality(Owed(a)') \in Nat
  BY <1>1, OwedIsFinite, FS_Subset, FS_CardinalityType
<1> QED BY <1>2, OwedIsFinite DEF EventsAhead, BoardTypeOK

LEMMA EventsAheadStep ==
  BoardTypeOK /\ EventsAhead /\ [BoardNext]_boardVars => EventsAhead'
<1> SUFFICES ASSUME BoardTypeOK, EventsAhead, [BoardNext]_boardVars PROVE EventsAhead'
  OBVIOUS
<1> USE DEF jobVars, resultVars, streamVars
<1>1. ASSUME NEW q \in Requests, RecordReputation(q) PROVE EventsAhead'
  <2> SUFFICES ASSUME NEW a \in Award
               PROVE  receipts'[a] + Cardinality(Owed(a)') <= events'[a]
    BY DEF EventsAhead
  <2>1. /\ request[q].pc = "reputation" /\ Goto(q, "receipt") /\ receipts' = receipts
        /\ request[q] \in ActiveRequest /\ << request[q].task, request[q].node >> \in Award
    BY <1>1, ActiveShape DEF RecordReputation
  <2>2. /\ request'[q].pc = "receipt" /\ request'[q].task = request[q].task
        /\ request'[q].node = request[q].node
        /\ \A p \in Requests \ {q} : request'[p] = request[p]
    BY <2>1 DEF Goto, BoardTypeOK, ActiveRequest
  <2>3. CASE a = << request[q].task, request[q].node >>
    <3>1. Owed(a)' = Owed(a) \cup {q} /\ q \notin Owed(a)
      BY <2>1, <2>2, <2>3 DEF Owed
    <3>2. Cardinality(Owed(a)') = Cardinality(Owed(a)) + 1
      BY <3>1, OwedIsFinite, FS_AddElement
    <3>3. events'[a] = events[a] + 1
      BY <1>1, <2>3 DEF RecordReputation, BoardTypeOK
    <3> QED BY <2>1, <3>2, <3>3, OwedIsFinite DEF EventsAhead, BoardTypeOK
  <2>4. CASE a # << request[q].task, request[q].node >>
    <3>1. Owed(a)' = Owed(a)
      BY <2>1, <2>2, <2>4 DEF Owed
    <3>2. events'[a] = events[a]
      BY <1>1, <2>4 DEF RecordReputation, BoardTypeOK
    <3> QED BY <2>1, <3>1, <3>2 DEF EventsAhead
  <2> QED BY <2>3, <2>4
<1>2. ASSUME NEW q \in Requests, PersistReceipt(q) PROVE EventsAhead'
  <2> SUFFICES ASSUME NEW a \in Award
               PROVE  receipts'[a] + Cardinality(Owed(a)') <= events'[a]
    BY DEF EventsAhead
  <2>1. /\ request[q].pc = "receipt" /\ Goto(q, "count") /\ events' = events
        /\ request[q] \in ActiveRequest /\ << request[q].task, request[q].node >> \in Award
    BY <1>2, ActiveShape DEF PersistReceipt
  <2>2. /\ request'[q].pc = "count"
        /\ \A p \in Requests \ {q} : request'[p] = request[p]
    BY <2>1 DEF Goto, BoardTypeOK, ActiveRequest
  <2>3. CASE a = << request[q].task, request[q].node >>
    <3>1. Owed(a)' = Owed(a) \ {q} /\ q \in Owed(a)
      BY <2>1, <2>2, <2>3 DEF Owed
    <3>2. Cardinality(Owed(a)') = Cardinality(Owed(a)) - 1
      BY <3>1, OwedIsFinite, FS_RemoveElement
    <3>3. receipts'[a] = receipts[a] + 1
      BY <1>2, <2>3 DEF PersistReceipt, BoardTypeOK
    <3> QED BY <2>1, <3>2, <3>3, OwedIsFinite DEF EventsAhead, BoardTypeOK
  <2>4. CASE a # << request[q].task, request[q].node >>
    <3>1. Owed(a)' = Owed(a)
      BY <2>1, <2>2, <2>4 DEF Owed
    <3>2. receipts'[a] = receipts[a]
      BY <1>2, <2>4 DEF PersistReceipt, BoardTypeOK
    <3> QED BY <2>1, <3>1, <3>2 DEF EventsAhead
  <2> QED BY <2>3, <2>4
<1>3. ASSUME NEW q \in Requests, Answer(q) PROVE EventsAhead'
  <2>1. CASE RecordReputation(q) \/ PersistReceipt(q)
    BY <1>1, <1>2, <2>1
  <2>2. CASE ~ (RecordReputation(q) \/ PersistReceipt(q))
    <3>1. /\ UNCHANGED << receipts, events >>
          /\ \/ Reply(q) \/ Goto(q, "mark") \/ Goto(q, "reputation") \/ Goto(q, "sum")
             \/ SumCredits(q)
      BY <1>3, <2>2
      DEF Answer, AcceptResult, RefuseDouble, RefuseOutput, MarkComplete, CountOpenTasks,
          StartBilling, SumCredits, CompleteJob
    <3>2. request[q] \in ActiveRequest
      BY <1>3, <2>2, ActiveShape
      DEF Answer, AcceptResult, RefuseDouble, RefuseOutput, MarkComplete, CountOpenTasks,
          StartBilling, SumCredits, CompleteJob
    <3>3. /\ request' = [request EXCEPT ![q] = request'[q]] /\ request'[q].pc # "receipt"
      BY <3>1, <3>2 DEF Reply, Goto, SumCredits, Idle, BoardTypeOK, ActiveRequest
    <3> QED BY <3>1, <3>3, OwesNoMore
  <2> QED BY <2>1, <2>2
<1>4. ASSUME NEW q \in Requests, SumCreditsFails(q) \/ AbortResult(q) PROVE EventsAhead'
  <2>1. request[q] \in ActiveRequest
    BY <1>4, ActiveShape DEF SumCreditsFails, AbortResult
  <2>2. /\ UNCHANGED << receipts, events >>
        /\ request' = [request EXCEPT ![q] = request'[q]] /\ request'[q].pc # "receipt"
    BY <1>4, <2>1
    DEF SumCreditsFails, AbortResult, Reply, Goto, Idle, BoardTypeOK, ActiveRequest
  <2> QED BY <2>2, OwesNoMore
<1>5. ASSUME NEW q \in Requests, NEW t \in Tasks, NEW n \in Nodes, BeginResult(q, t, n)
      PROVE  EventsAhead'
  BY <1>5, OwesNoMore DEF BeginResult, BoardTypeOK
<1>6. CASE UNCHANGED << receipts, events, request >>
  BY <1>6 DEF EventsAhead, Owed
<1>7. ASSUME NEW j \in Jobs, SubmitStep(j) \/ AbandonSubmission(j)
      PROVE  UNCHANGED << receipts, events, request >>
  BY <1>7 DEF SubmitStep, SubmitJob, InsertSubTask, JobCreated, AbandonSubmission
<1>8. ASSUME NEW r \in Replicas
      PROVE  /\ \A batch \in SUBSET Tasks :
                  ClaimReady(r, batch) => UNCHANGED << receipts, events, request >>
             /\ \A t \in Tasks : PushToStream(r, t) => UNCHANGED << receipts, events, request >>
             /\ DropClaims(r) => UNCHANGED << receipts, events, request >>
  BY DEF ClaimReady, PushToStream, DropClaims
<1>9. UNCHANGED boardVars => UNCHANGED << receipts, events, request >>
  BY DEF boardVars
<1> QED
  BY <1>3, <1>4, <1>5, <1>6, <1>7, <1>8, <1>9 DEF BoardNext, BoardFault

\* Nobody is paid without the reputation event that comes before, wherever a
\* request dies between the two inserts and however results race.
THEOREM ReputationComesFirst == BoardSpec => []ReputationBeforeCredit
<1>1. BoardInit => EventsAhead
  <2> SUFFICES ASSUME BoardInit, NEW a \in Award
               PROVE  receipts[a] + Cardinality(Owed(a)) <= events[a]
    BY DEF EventsAhead
  <2>1. Owed(a) = {}
    BY DEF Owed, BoardInit, Idle
  <2> QED BY <2>1, FS_EmptySet DEF BoardInit, NoAward
<1>2. BoardTypeOK /\ EventsAhead => ReputationBeforeCredit
  BY OwedIsFinite DEF EventsAhead, ReputationBeforeCredit, BoardTypeOK
<1> QED BY <1>1, <1>2, EventsAheadStep, TypeCorrect, PTL DEF BoardSpec

-----------------------------------------------------------------------------
(* How often a task is paid                                                *)

\* The receipts of a task and the requests about to issue one together are no
\* more than the requests, and a task that is not complete has no receipt: this
\* is inductive, for a complete task gets no new payers.
PaymentsBounded ==
  \A t \in Tasks :
    /\ Payments(t) + Cardinality(Payers(t)) <= Cardinality(Requests)
    /\ status[t] # "complete" => Payments(t) = 0

LEMMA PayersFinite ==
  \A t \in Tasks : /\ IsFiniteSet(Payers(t)) /\ Cardinality(Payers(t)) \in Nat
                   /\ Cardinality(Payers(t)) <= Cardinality(Requests)
<1> SUFFICES ASSUME NEW t \in Tasks
             PROVE  /\ IsFiniteSet(Payers(t)) /\ Cardinality(Payers(t)) \in Nat
                    /\ Cardinality(Payers(t)) <= Cardinality(Requests)
  OBVIOUS
<1>1. Payers(t) \subseteq Requests
  BY DEF Payers
<1> QED BY <1>1, FS_Subset, FS_CardinalityType, BoardAssumption

\* Payments is the sum of a row of receipts.
LEMMA PaymentsShape ==
  ASSUME BoardTypeOK, NEW t \in Tasks
  PROVE  LET row == [n \in Nodes |-> receipts[<< t, n >>]] IN
         /\ row \in [Nodes -> Nat]
         /\ Payments(t) = Sum(row, Nodes)
         /\ Payments(t) \in Nat
<1> DEFINE row == [n \in Nodes |-> receipts[<< t, n >>]]
<1>1. row \in [Nodes -> Nat]
  BY DEF BoardTypeOK, Award
<1>2. Payments(t) = Sum(row, Nodes)
  BY DEF Payments, SumFunction, Sum
<1> HIDE DEF row
<1>3. Sum(row, Nodes) \in Nat
  BY <1>1, SumIsNat, BoardAssumption
<1> QED BY <1>1, <1>2, <1>3 DEF row

LEMMA PaymentsBoundedStep ==
  ASSUME BoardInv, PaymentsBounded, [BoardNext]_boardVars
  PROVE  PaymentsBounded'
<1> DEFINE R == Cardinality(Requests)
<1> SUFFICES ASSUME NEW t \in Tasks
             PROVE  /\ Payments(t)' + Cardinality(Payers(t)') <= R
                    /\ status'[t] # "complete" => Payments(t)' = 0
  BY DEF PaymentsBounded
<1>1. /\ BoardTypeOK /\ BoardTypeOK'
      /\ RowsBehindWork
  BY TypeStep DEF BoardInv
<1>2. R \in Nat
  BY FS_CardinalityType, BoardAssumption
<1> HIDE DEF R
<1>3. /\ Payments(t) + Cardinality(Payers(t)) <= R
      /\ status[t] # "complete" => Payments(t) = 0
  BY DEF PaymentsBounded, R
<1>4. /\ Payments(t) \in Nat
      /\ IsFiniteSet(Payers(t)) /\ Cardinality(Payers(t)) \in Nat
  BY <1>1, PaymentsShape, PayersFinite
<1>5. /\ IsFiniteSet(Payers(t)') /\ Cardinality(Payers(t)') \in Nat
      /\ Cardinality(Payers(t)') <= R
  <2>1. Payers(t)' \subseteq Requests
    BY DEF Payers
  <2> QED BY <2>1, FS_Subset, FS_CardinalityType, BoardAssumption DEF R
<1>6. status[t] = "complete" => Payers(t)' \subseteq Payers(t) /\ status'[t] = "complete"
  BY PayersStep, CompleteStays
<1>7. CASE \A n \in Nodes : receipts'[<< t, n >>] = receipts[<< t, n >>]
  <2>1. Payments(t)' = Payments(t)
    BY <1>7 DEF Payments
  <2>2. CASE status[t] # "complete"
    BY <1>2, <1>3, <1>5, <2>1, <2>2
  <2>3. CASE status[t] = "complete"
    <3>1. Cardinality(Payers(t)') <= Cardinality(Payers(t))
      BY <1>4, <1>6, <2>3, FS_Subset
    <3> QED BY <1>2, <1>3, <1>4, <1>5, <1>6, <2>1, <2>3, <3>1
  <2> QED BY <2>2, <2>3
<1>8. ASSUME NEW m \in Nodes, receipts'[<< t, m >>] # receipts[<< t, m >>]
      PROVE  /\ Payments(t)' + Cardinality(Payers(t)') <= R
             /\ status'[t] = "complete"
  <2>1. PICK q \in Requests : PersistReceipt(q)
    BY <1>8, PaidByReceipt
  <2>2. request[q] \in ActiveRequest /\ request[q].pc = "receipt"
    BY <1>1, <2>1, ActiveShape DEF PersistReceipt
  <2>3. request[q].task = t /\ request[q].node = m
    <3>1. << t, m >> \in Award
      BY DEF Award
    <3> QED BY <1>1, <1>8, <2>1, <2>2, <3>1 DEF PersistReceipt, BoardTypeOK, ActiveRequest
  <2>4. status[t] = "complete"
    BY <1>1, <2>2, <2>3 DEF RowsBehindWork
  <2>5. Payments(t)' = Payments(t) + 1
    <3> DEFINE row == [n \in Nodes |-> receipts[<< t, n >>]]
               new == [n \in Nodes |-> receipts'[<< t, n >>]]
    <3>1. row \in [Nodes -> Nat] /\ new \in [Nodes -> Nat]
      BY <1>1 DEF BoardTypeOK, Award
    <3>2. Payments(t) = Sum(row, Nodes) /\ Payments(t)' = Sum(new, Nodes)
      BY DEF Payments, SumFunction, Sum
    <3>3. /\ receipts'[<< t, m >>] = receipts[<< t, m >>] + 1
          /\ \A n \in Nodes \ {m} : receipts'[<< t, n >>] = receipts[<< t, n >>]
      BY <1>1, <2>1, <2>3 DEF PersistReceipt, BoardTypeOK, Award
    <3>4. new[m] = row[m] + 1 /\ \A n \in Nodes \ {m} : new[n] = row[n]
      BY <3>3
    <3> HIDE DEF row, new
    <3>5. Sum(new, Nodes) = Sum(row, Nodes) + 1
      BY <3>1, <3>4, SumOfOneMore, BoardAssumption
    <3> QED BY <3>2, <3>5
  <2>6. Payers(t)' \subseteq Payers(t) \ {q} /\ q \in Payers(t)
    <3>1. request'[q].pc = "count"
      BY <1>1, <2>1, <2>2, GotoEffect DEF PersistReceipt, Steps
    <3> QED BY <1>6, <2>2, <2>3, <2>4, <3>1 DEF Payers
  <2>7. Cardinality(Payers(t)') <= Cardinality(Payers(t)) - 1
    <3>1. IsFiniteSet(Payers(t) \ {q}) /\ Cardinality(Payers(t) \ {q}) = Cardinality(Payers(t)) - 1
      BY <1>4, <2>6, FS_RemoveElement
    <3>2. Cardinality(Payers(t)') <= Cardinality(Payers(t) \ {q})
      BY <2>6, <3>1, FS_Subset
    <3> QED BY <3>1, <3>2
  <2> QED BY <1>2, <1>3, <1>4, <1>5, <1>6, <2>4, <2>5, <2>7
<1> QED BY <1>7, <1>8

\* A task is paid at most as often as requests can be served at a time,
\* whatever is redelivered, aborted and raced (submit_task_result).
THEOREM DoublePayIsBounded == BoardSpec => []PaidOncePerRequest
<1>1. BoardInit => PaymentsBounded
  <2> SUFFICES ASSUME BoardInit, NEW t \in Tasks
               PROVE  Payments(t) = 0 /\ Payments(t) + Cardinality(Payers(t)) <= Cardinality(Requests)
    BY DEF PaymentsBounded
  <2> DEFINE row == [n \in Nodes |-> receipts[<< t, n >>]]
  <2>1. row \in [Nodes -> Nat] /\ (\A n \in Nodes : row[n] <= 0) /\ Payments(t) = Sum(row, Nodes)
    BY DEF BoardInit, NoAward, Award, Payments, SumFunction, Sum
  <2> HIDE DEF row
  <2>2. Sum(row, Nodes) <= 0 * Cardinality(Nodes) /\ Sum(row, Nodes) \in Nat
    BY <2>1, SumAtMost, SumIsNat, BoardAssumption
  <2>3. Cardinality(Nodes) \in Nat /\ Cardinality(Requests) \in Nat
    BY FS_CardinalityType, BoardAssumption
  <2>4. Payments(t) = 0
    BY <2>1, <2>2, <2>3
  <2> QED BY <2>3, <2>4, PayersFinite
<1>2. BoardInv /\ PaymentsBounded => PaidOncePerRequest
  <2> SUFFICES ASSUME BoardInv, PaymentsBounded, NEW t \in Tasks
               PROVE  Payments(t) <= Cardinality(Requests)
    BY DEF PaidOncePerRequest
  <2>1. Payments(t) \in Nat /\ Cardinality(Payers(t)) \in Nat /\ Cardinality(Requests) \in Nat
    BY PaymentsShape, PayersFinite, FS_CardinalityType, BoardAssumption DEF BoardInv
  <2> QED BY <2>1 DEF PaymentsBounded
<1>3. BoardInv /\ PaymentsBounded /\ [BoardNext]_boardVars => PaymentsBounded'
  BY PaymentsBoundedStep
<1> QED BY <1>1, <1>2, <1>3, BoardInvariant, PTL DEF BoardSpec

\* Served one at a time, results are paid once: what double_pay shows needs a
\* second request between the guard and the mark.
THEOREM OneAtATimePaysOnce ==
  Cardinality(Requests) = 1 => (BoardSpec => []OneReceiptPerTask)
<1>1. ASSUME Cardinality(Requests) = 1, BoardTypeOK, PaidOncePerRequest
      PROVE  OneReceiptPerTask
  <2> SUFFICES ASSUME NEW t \in Tasks, NEW n \in Nodes, NEW m \in Nodes
               PROVE  receipts[<< t, n >>]
                        + (IF n = m THEN 0 ELSE receipts[<< t, m >>]) <= 1
    BY DEF OneReceiptPerTask
  <2> DEFINE row == [k \in Nodes |-> receipts[<< t, k >>]]
  <2>1. row \in [Nodes -> Nat] /\ Payments(t) = Sum(row, Nodes)
    BY <1>1, PaymentsShape
  <2>2. Sum(row, Nodes) <= 1
    BY <1>1, <2>1 DEF PaidOncePerRequest
  <2>3. row[n] = receipts[<< t, n >>] /\ row[m] = receipts[<< t, m >>]
    OBVIOUS
  <2> HIDE DEF row
  <2>4. row[n] \in Nat /\ row[m] \in Nat /\ Sum(row, Nodes) \in Nat
    BY <2>1, SumIsNat, BoardAssumption
  <2>5. row[n] <= Sum(row, Nodes)
    BY <2>1, TermOfSum, BoardAssumption
  <2>6. n # m => row[n] + row[m] <= Sum(row, Nodes)
    BY <2>1, TwoTermsOfSum, BoardAssumption
  <2> QED BY <2>2, <2>3, <2>4, <2>5, <2>6
<1>2. CASE Cardinality(Requests) = 1
  <2>1. BoardTypeOK /\ PaidOncePerRequest => OneReceiptPerTask
    BY <1>1, <1>2
  <2> QED BY <2>1, TypeCorrect, DoublePayIsBounded, PTL
<1> QED BY <1>2

-----------------------------------------------------------------------------
(* When a complete job has done its plan                                   *)

PlanDone(j) ==
  /\ submission[j] = "created"
  /\ \A t \in TasksOf(j) : Exists(t) /\ status[t] = "complete"

\* No request counts the open rows of a job whose plan is not all inserted.
CountedAfterSeeding ==
  \A q \in Requests :
    request[q].pc = "count" => submission[request[q].task[1]] = "created"

\* The count carries the plan from the seeding loop to the job's status.
PlanCounted ==
  /\ \A j \in Jobs : submission[j] = "created" => rows[j] = Len(PlanOf(j))
  /\ \A q \in Requests :
       request[q].pc \in {"sum", "finish"} => PlanDone(request[q].task[1])
  /\ \A j \in Jobs : jobStatus[j] = "complete" => PlanDone(j)

\* What is done stays done.
LEMMA PlanStaysDone ==
  ASSUME BoardInv, [BoardNext]_boardVars, NEW j \in Jobs, PlanDone(j)
  PROVE  PlanDone(j)'
<1>1. submission'[j] = "created" /\ rows'[j] = rows[j]
  BY DEF PlanDone, BoardNext, SubmitStep, SubmitJob, InsertSubTask, JobCreated,
         ClaimReady, PushToStream, BeginResult, Answer, AcceptResult, RefuseDouble,
         RefuseOutput, MarkComplete, RecordReputation, PersistReceipt, CountOpenTasks,
         SumCredits, CompleteJob, BoardFault, AbandonSubmission, DropClaims,
         SumCreditsFails, AbortResult, boardVars, jobVars, BoardInv, BoardTypeOK
<1>2. \A t \in TasksOf(j) : status'[t] = "complete"
  BY CompleteStays DEF PlanDone, TasksOf
<1> QED
  BY <1>1, <1>2 DEF PlanDone, TasksOf, Exists

\* The plan is all inserted when 201 is answered, and stays so.
LEMMA CreatedIsSeeded ==
  ASSUME BoardInv, [BoardNext]_boardVars,
         \A j \in Jobs : submission[j] = "created" => rows[j] = Len(PlanOf(j)),
         NEW j \in Jobs, submission'[j] = "created"
  PROVE  rows'[j] = Len(PlanOf(j))
<1>1. CASE \E k \in Jobs : SubmitStep(k) \/ AbandonSubmission(k)
  BY <1>1 DEF SubmitStep, SubmitJob, InsertSubTask, JobCreated, AbandonSubmission,
              BoardInv, BoardTypeOK
<1>2. CASE UNCHANGED << submission, rows >>
  BY <1>2
<1>3. \/ \E k \in Jobs : SubmitStep(k) \/ AbandonSubmission(k)
      \/ UNCHANGED << submission, rows >>
  BY DEF BoardNext, ClaimReady, PushToStream, BeginResult, Answer, AcceptResult,
         RefuseDouble, RefuseOutput, MarkComplete, RecordReputation, PersistReceipt,
         CountOpenTasks, SumCredits, CompleteJob, BoardFault, DropClaims,
         SumCreditsFails, AbortResult, boardVars, jobVars
<1> QED
  BY <1>1, <1>2, <1>3

\* A request gets past the count only when every row of the job is complete,
\* and its task does not change.
LEMMA PastTheCount ==
  ASSUME BoardInv, [BoardNext]_boardVars, NEW q \in Requests,
         request'[q].pc \in {"sum", "finish"}
  PROVE  /\ request'[q].task = request[q].task
         /\ \/ request[q].pc \in {"sum", "finish"}
            \/ request[q].pc = "count" /\ AllComplete(request[q].task[1])
<1>1. CASE request'[q] = request[q]
  BY <1>1
<1>2. ASSUME NEW p \in Requests, p # q,
             request' = [request EXCEPT ![p] = request'[p]]
      PROVE  request'[q] = request[q]
  BY <1>2 DEF BoardInv, BoardTypeOK
<1>3. ASSUME NEW p \in Requests, NEW t \in Tasks, NEW n \in Nodes, BeginResult(p, t, n)
      PROVE  request'[q] = request[q]
  BY <1>3 DEF BeginResult, BoardInv, BoardTypeOK
<1>4. ASSUME NEW p \in Requests, Reply(p)
      PROVE  request'[q] = request[q]
  BY <1>4 DEF Reply, Idle, BoardInv, BoardTypeOK
<1>5. ASSUME NEW p \in Requests, NEW pc \in Steps, Goto(p, pc), request[p].pc # "idle"
      PROVE  /\ p # q => request'[q] = request[q]
             /\ p = q => request'[q].pc = pc /\ request'[q].task = request[q].task
  <2>1. request[p] \in ActiveRequest
    BY <1>5, ActiveShape DEF BoardInv
  <2> QED
    BY <1>5, <2>1 DEF Goto, ActiveRequest, BoardInv, BoardTypeOK
<1>6. ASSUME NEW p \in Requests,
             AcceptResult(p) \/ MarkComplete(p) \/ RecordReputation(p) \/ PersistReceipt(p)
      PROVE  request'[q] = request[q]
  BY <1>5, <1>6 DEF AcceptResult, MarkComplete, RecordReputation, PersistReceipt, Steps
<1>7. ASSUME NEW p \in Requests,
             RefuseDouble(p) \/ RefuseOutput(p) \/ CompleteJob(p) \/ AbortResult(p)
      PROVE  request'[q] = request[q]
  BY <1>4, <1>7 DEF RefuseDouble, RefuseOutput, CompleteJob, AbortResult
<1>8. ASSUME NEW p \in Requests,
             CountOpenTasks(p) \/ SumCredits(p) \/ SumCreditsFails(p)
      PROVE  /\ request'[q].task = request[q].task
             /\ \/ request[q].pc \in {"sum", "finish"}
                \/ request[q].pc = "count" /\ AllComplete(request[q].task[1])
                \/ request'[q] = request[q]
  <2>1. CASE CountOpenTasks(p)
    BY <2>1, <1>4, <1>5 DEF CountOpenTasks, StartBilling, Steps
  <2>2. CASE SumCredits(p)
    <3>1. request[p] \in ActiveRequest
      BY <2>2, ActiveShape DEF SumCredits, BoardInv
    <3> QED
      BY <2>2, <3>1 DEF SumCredits, ActiveRequest, BoardInv, BoardTypeOK
  <2>3. CASE SumCreditsFails(p)
    BY <2>3, <1>5 DEF SumCreditsFails, Steps
  <2> QED
    BY <1>8, <2>1, <2>2, <2>3
<1>9. UNCHANGED request => request'[q] = request[q]
  OBVIOUS
<1>10. \/ UNCHANGED request
       \/ \E p \in Requests, t \in Tasks, n \in Nodes : BeginResult(p, t, n)
       \/ \E p \in Requests : Answer(p) \/ SumCreditsFails(p) \/ AbortResult(p)
  BY DEF BoardNext, SubmitStep, SubmitJob, InsertSubTask, JobCreated, ClaimReady,
         PushToStream, BoardFault, AbandonSubmission, DropClaims, boardVars
<1> QED
  BY <1>1, <1>3, <1>6, <1>7, <1>8, <1>9, <1>10 DEF Answer

\* Only the request at the end of its handler completes a job.
LEMMA CompletedByRequest ==
  ASSUME BoardInv, [BoardNext]_boardVars, NEW j \in Jobs,
         jobStatus'[j] = "complete"
  PROVE  \/ jobStatus[j] = "complete"
         \/ \E q \in Requests : request[q].pc = "finish" /\ request[q].task[1] = j
<1>1. CASE UNCHANGED jobStatus
  BY <1>1
<1>2. CASE \E k \in Jobs : SubmitJob(k)
  BY <1>2 DEF SubmitJob, BoardInv, BoardTypeOK
<1>3. CASE \E q \in Requests : CompleteJob(q)
  BY <1>3 DEF CompleteJob, BoardInv, BoardTypeOK
<1>4. \/ UNCHANGED jobStatus
      \/ \E k \in Jobs : SubmitJob(k)
      \/ \E q \in Requests : CompleteJob(q)
  BY DEF BoardNext, SubmitStep, InsertSubTask, JobCreated, ClaimReady, PushToStream,
         BeginResult, Answer, AcceptResult, RefuseDouble, RefuseOutput, MarkComplete,
         RecordReputation, PersistReceipt, CountOpenTasks, SumCredits, BoardFault,
         AbandonSubmission, DropClaims, SumCreditsFails, AbortResult, boardVars, resultVars
<1> QED
  BY <1>1, <1>2, <1>3, <1>4

LEMMA PlanCountedStep ==
  ASSUME BoardInv, CountedAfterSeeding, PlanCounted, [BoardNext]_boardVars
  PROVE  PlanCounted'
<1>1. \A j \in Jobs : PlanDone(j) => PlanDone(j)'
  BY PlanStaysDone
<1>2. \A j \in Jobs : submission'[j] = "created" => rows'[j] = Len(PlanOf(j))
  BY CreatedIsSeeded DEF PlanCounted
<1>3. ASSUME NEW q \in Requests, request'[q].pc \in {"sum", "finish"}
      PROVE  \E k \in Jobs : request'[q].task[1] = k /\ PlanDone(k)'
  <2>1. /\ request'[q].task = request[q].task
        /\ \/ request[q].pc \in {"sum", "finish"}
           \/ request[q].pc = "count" /\ AllComplete(request[q].task[1])
    BY <1>3, PastTheCount
  <2>2. request[q].task[1] \in Jobs
    BY <2>1, ActiveShape DEF BoardInv
  <2>3. PlanDone(request[q].task[1])
    <3>1. CASE request[q].pc \in {"sum", "finish"}
      BY <3>1 DEF PlanCounted
    <3>2. CASE request[q].pc = "count" /\ AllComplete(request[q].task[1])
      <4> DEFINE k == request[q].task[1]
      <4>1. submission[k] = "created" /\ rows[k] = Len(PlanOf(k))
        BY <2>2, <3>2 DEF CountedAfterSeeding, PlanCounted
      <4>2. \A t \in TasksOf(k) : Exists(t)
        BY <4>1, TaskShape DEF TasksOf, Exists
      <4> QED
        BY <3>2, <4>1, <4>2 DEF PlanDone, AllComplete
    <3> QED
      BY <2>1, <3>1, <3>2
  <2> QED
    BY <1>1, <2>1, <2>2, <2>3
<1>4. ASSUME NEW j \in Jobs, jobStatus'[j] = "complete"
      PROVE  PlanDone(j)
  BY <1>4, CompletedByRequest DEF PlanCounted
<1>5. \A q \in Requests :
        request'[q].pc \in {"sum", "finish"} => PlanDone(request[q].task[1])'
  BY <1>3 DEF PlanDone, TasksOf
<1> QED
  BY <1>1, <1>2, <1>4, <1>5 DEF PlanCounted

\* The claims of routes/jobs.rs:124 and task_manager.rs:240 fail in one way
\* only, a count taken while the plan is being inserted: in a behaviour where
\* no request counts the rows of a job before its submission is answered, a
\* complete job has done its whole plan, whatever races, crashes or is
\* cancelled besides.
THEOREM PlanDoneWhenSeededFirst ==
  BoardSpec /\ []CountedAfterSeeding => []CompleteJobDidItsPlan
<1>1. BoardInit => PlanCounted
  BY DEF BoardInit, PlanCounted, Idle
<1>2. BoardInv /\ CountedAfterSeeding /\ PlanCounted /\ [BoardNext]_boardVars => PlanCounted'
  BY PlanCountedStep
<1>3. PlanCounted => CompleteJobDidItsPlan
  BY DEF PlanCounted, PlanDone, CompleteJobDidItsPlan
<1> QED
  BY <1>1, <1>2, <1>3, BoardInvariant, PTL DEF BoardSpec

=============================================================================
