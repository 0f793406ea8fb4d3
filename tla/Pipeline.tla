------------------------------- MODULE Pipeline -------------------------------
(***************************************************************************)
(* The whole work pipeline: the orchestrator's board (TaskBoard) and the   *)
(* workers at the Redis stream (WorkerStream).  They meet in two places:   *)
(* an XADD of the dispatcher appends to the stream the workers read, and a *)
(* worker's POST is a result request of the board whose answer decides     *)
(* whether the worker acknowledges the entry.                              *)
(*                                                                         *)
(* Failures are of two kinds, with a bound each.  faults (MaxFaults) are   *)
(* the orchestrator's: a replica or a statement that fails, a handler that *)
(* is dropped.  mishaps (MaxMishaps) are on the worker's side: crashes,    *)
(* failed inference, refused output, a lost Redis connection, HTTP         *)
(* timeouts.                                                               *)
(***************************************************************************)
EXTENDS TaskBoard, WorkerStream

CONSTANT MaxMishaps    \* bound: failures on the worker's side

ASSUME PipelineAssumption ==
  /\ Workers \subseteq Nodes
  /\ MaxMishaps \in Nat
  /\ None \notin Requests

VARIABLES
  serving,     \* the request that serves each worker's POST
  mishaps      \* mishaps so far

pipelineVars == << boardVars, workerVars, serving, mishaps >>

Mishap == /\ mishaps < MaxMishaps
          /\ mishaps' = mishaps + 1

\* A step of the board alone, and one of the workers alone.
BoardOnly  == UNCHANGED << workerVars, serving >>
WorkerOnly == UNCHANGED << boardVars, serving >>

-----------------------------------------------------------------------------
(* Where the two meet                                                      *)

\* XADD: the row leaves the dispatcher's claim and enters the stream.
Push(r, t) ==
  /\ PushToStream(r, t)
  /\ Xadd(t)
  /\ UNCHANGED << serving, mishaps >>

\* A worker's result reaches the orchestrator.
Post(w, q) ==
  /\ PostResult(w)
  /\ \E e \in worker[w].batch : IsCurrent(w, e) /\ BeginResult(q, stream[e], w)
  /\ serving' = [serving EXCEPT ![w] = q]
  /\ UNCHANGED mishaps

\* The request q is answered; outcome is what its worker makes of it, if the
\* worker still waits for it.
Tell(q, outcome) ==
  IF \E w \in Workers : serving[w] = q
    THEN \E w \in Workers :
           /\ serving[w] = q
           /\ \E e \in worker[w].batch :
                IF outcome = "ok" THEN AnswerOk(w, e) ELSE AnswerError(w, e)
           /\ serving' = [serving EXCEPT ![w] = None]
    ELSE UNCHANGED << workerVars, serving >>

\* 200 with the receipt: no task of the job is open, or the job is completed.
Respond(q) ==
  /\ \/ CountOpenTasks(q) /\ ~ AllComplete(request[q].task[1])
     \/ CompleteJob(q)
  /\ Tell(q, "ok")
  /\ UNCHANGED mishaps

\* The steps of the handler between its request and its answer.
Progress(q) ==
  /\ \/ AcceptResult(q) \/ MarkComplete(q) \/ RecordReputation(q)
     \/ PersistReceipt(q) \/ SumCredits(q)
     \/ CountOpenTasks(q) /\ AllComplete(request[q].task[1])
  /\ BoardOnly
  /\ UNCHANGED mishaps

\* 400 "task already completed".
RespondDouble(q) ==
  /\ RefuseDouble(q)
  /\ Tell(q, "error")
  /\ UNCHANGED mishaps

\* 400 from the validation pipeline.
RespondInvalid(q) ==
  /\ RefuseOutput(q)
  /\ Tell(q, "error")
  /\ Mishap

\* 500, or the handler dies: with its replica, or because its client has hung
\* up and axum drops what the handler has not done yet.
RespondAbort(q) ==
  /\ AbortResult(q)
  /\ Tell(q, "error")
  /\ UNCHANGED mishaps

\* Slip: the late answer is still waited for.
HttpTimeoutStillServed(w) ==
  /\ serving[w] # None
  /\ \E e \in worker[w].batch : AnswerError(w, e)
  /\ Mishap
  /\ UNCHANGED << boardVars, serving >>

\* The worker's HTTP timeout passes and it hangs up; the handler goes on for as
\* long as it is not dropped.
HttpTimeout(w) ==
  /\ serving[w] # None
  /\ \E e \in worker[w].batch : AnswerError(w, e)
  /\ serving' = [serving EXCEPT ![w] = None]
  /\ Mishap
  /\ UNCHANGED boardVars

\* A worker dies with its batch; a request of its goes on until it is dropped.
Crash(w) ==
  /\ CrashWorker(w)
  /\ serving' = [serving EXCEPT ![w] = None]
  /\ Mishap
  /\ UNCHANGED boardVars

-----------------------------------------------------------------------------

Submit(j) ==
  /\ SubmitStep(j)
  /\ BoardOnly
  /\ UNCHANGED mishaps

Claim(r) ==
  /\ \E batch \in SUBSET Tasks : ClaimReady(r, batch)
  /\ BoardOnly
  /\ UNCHANGED mishaps

Idling(e) ==
  /\ GrowStale(e)
  /\ WorkerOnly
  /\ UNCHANGED mishaps

\* The loop's own steps: start, claim, read, acknowledge, or go on without a
\* connection.
Loop(w) ==
  /\ \/ StartWorker(w)
     \/ Autoclaim(w)
     \/ ReadNew(w)
     \/ \E e \in worker[w].batch : Ack(w, e)
     \/ CommandFails(w)
  /\ WorkerOnly
  /\ UNCHANGED mishaps

LoopMishap(w) ==
  /\ \/ StartWithoutGroup(w)
     \/ LoseConnection(w) \/ AutoclaimReplyLost(w) \/ ReadReplyLost(w)
     \/ \E e \in worker[w].batch : InferenceFails(w, e)
  /\ Mishap
  /\ WorkerOnly

\* A failure of the orchestrator that no worker waits for.
QuietFault ==
  /\ \/ \E j \in Jobs : AbandonSubmission(j)
     \/ \E r \in Replicas : DropClaims(r)
     \/ \E q \in Requests : SumCreditsFails(q)
  /\ BoardOnly
  /\ UNCHANGED mishaps

PipelineInit ==
  /\ BoardInit
  /\ StreamInit
  /\ serving = [w \in Workers |-> None]
  /\ mishaps = 0

Handle(q) == Progress(q) \/ Respond(q) \/ RespondDouble(q)

PipelineNext ==
  \/ \E j \in Jobs : Submit(j)
  \/ \E r \in Replicas : Claim(r) \/ \E t \in Tasks : Push(r, t)
  \/ \E w \in Workers : Loop(w) \/ \E q \in Requests : Post(w, q)
  \/ \E e \in pel : Idling(e)
  \/ \E q \in Requests : Handle(q) \/ RespondInvalid(q) \/ RespondAbort(q)
  \/ \E w \in Workers : LoopMishap(w) \/ HttpTimeout(w) \/ Crash(w)
  \/ QuietFault

PipelineSpec == PipelineInit /\ [][PipelineNext]_pipelineVars

\* Is the client of q still there?
Attended(q) == \E w \in Workers : serving[w] = q

\* What the processes' schedulers give while everything is up: a submission,
\* the dispatch loops and a worker that can move do move, a stopped worker is
\* started, and idle time passes.  That a worker can post assumes inference
\* ends.  A handler runs on while its client waits; once the client has hung
\* up it runs on or is dropped where it stands, but does not stay for ever.
Fairness ==
  /\ \A j \in Jobs : WF_pipelineVars(Submit(j))
  /\ \A r \in Replicas : WF_pipelineVars(Claim(r) \/ \E t \in Tasks : Push(r, t))
  /\ \A q \in Requests : /\ WF_pipelineVars(Attended(q) /\ Handle(q))
                         /\ WF_pipelineVars(~ Attended(q) /\ (Handle(q) \/ RespondAbort(q)))
  /\ \A w \in Workers : WF_pipelineVars(Loop(w) \/ \E q \in Requests : Post(w, q))
  /\ \A e \in 1 .. Cardinality(Tasks) : WF_pipelineVars(Idling(e))

\* The workers are up, and Redis keeps the group from an earlier start of one:
\* nothing pushed is skipped.
ReadyInit ==
  /\ BoardInit
  /\ stream = << >>
  /\ group = "created"
  /\ groupStart = 0 /\ cursor = 0
  /\ pel = {} /\ stale = {}
  /\ worker = [w \in Workers |-> Started]
  /\ serving = [w \in Workers |-> None]
  /\ mishaps = 0

FairPipelineSpec == ReadyInit /\ [][PipelineNext]_pipelineVars /\ Fairness

-----------------------------------------------------------------------------
(* Properties                                                              *)

\* The stream, the group and the workers' loops have their types.
PipelineTypeOK ==
  /\ BoardTypeOK
  /\ stream \in Seq(Tasks)
  /\ group \in {"none", "created"}
  /\ groupStart \in Nat /\ cursor \in Nat
  /\ groupStart <= cursor /\ cursor <= Len(stream)
  /\ pel \subseteq (groupStart + 1) .. cursor
  /\ stale \subseteq pel
  /\ worker \in [Workers -> WorkerState]
  /\ \A w \in Workers : worker[w].batch \subseteq (groupStart + 1) .. cursor
  /\ serving \in [Workers -> Requests \cup {None}]
  /\ mishaps \in 0 .. MaxMishaps

\* The stream holds each task the board has pushed exactly once.
StreamIsPublished ==
  /\ published = {stream[e] : e \in 1 .. Len(stream)}
  /\ \A d, e \in 1 .. Len(stream) : stream[d] = stream[e] => d = e

\* A worker that waits for an answer waits for a request about its current
\* entry, in its own name; no two wait for the same request.
AnswersReachTheirWorker ==
  \A w \in Workers :
    IF worker[w].pc = "post"
      THEN LET q == serving[w] IN
           /\ q # None
           /\ request[q].pc # "idle"
           /\ request[q].node = w
           /\ \E e \in worker[w].batch : IsCurrent(w, e) /\ stream[e] = request[q].task
           /\ \A v \in Workers \ {w} : serving[v] # q
      ELSE serving[w] = None

\* No delivered task is forgotten: an entry leaves the pending list only when
\* its task is complete, whatever crashes, is claimed over or answered late
\* ("message stays for retry / redelivery", runner.rs:127).
AckedIsComplete ==
  \A e \in (groupStart + 1) .. cursor :
    e \notin pel => status[stream[e]] = "complete"

JobDone(j) ==
  /\ jobStatus[j] = "complete"
  /\ \A t \in TasksOf(j) : Exists(t) /\ status[t] = "complete"

\* All of a job's rows are complete, and no request will complete the job.
Orphaned(j) == AllComplete(j) /\ jobStatus[j] # "complete" /\ ~ Finalizing(j)

\* A row was claimed and will not be pushed.
Stranded(j) ==
  \E t \in TasksOf(j) : /\ status[t] = "dispatched"
                        /\ t \notin published
                        /\ \A r \in Replicas : t \notin claims[r]

\* A job that was accepted is finished in the end, with its whole plan,
\* although workers crash, lose their connection, time out or send refused
\* output while another goes on; a fault can keep it open for ever in two ways
\* only: a handler that ends after its mark and before the job's update leaves
\* the job orphaned, a claim that is dropped leaves a row stranded.
JobsFinish ==
  \A j \in Jobs :
    <>[](submission[j] = "created" =>
           JobDone(j) \/ (faults > 0 /\ (Orphaned(j) \/ Stranded(j))))

\* Until a first failure the pending list drains: every delivered entry is
\* acknowledged in the end, although slow workers lose entries to others and
\* get 400 for a task that is finished.
EntriesSettle ==
  []<>(pel = {} \/ mishaps > 0 \/ faults > 0)

-----------------------------------------------------------------------------
(* What the documentation says, and the pipeline does not guarantee        *)

\* "push them onto the Redis stream for node-client workers to pick up"
\* (task_manager.rs:54): every entry is delivered or still ahead of the group.
EveryEntryPickedUp ==
  group = "created" =>
    \A e \in 1 .. Len(stream) : e > cursor \/ e \in pel \/ status[stream[e]] = "complete"

=============================================================================
