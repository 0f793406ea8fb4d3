---------------------------- MODULE Pipeline_proofs ----------------------------
(***************************************************************************)
(* For every set of jobs, replicas, workers and requests and any number of *)
(* faults and mishaps: no delivered task is forgotten.  What is proved of   *)
(* the board carries over, as each step is one of its steps or leaves it    *)
(* alone.                                                                   *)
(***************************************************************************)
EXTENDS Pipeline, TaskBoard_proofs

-----------------------------------------------------------------------------
(* The pipeline runs the board                                             *)

\* Each step is one of the board's or leaves the board alone.
LEMMA PipelineStepIsBoardStep ==
  ASSUME BoardTypeOK, [PipelineNext]_pipelineVars
  PROVE  [BoardNext]_boardVars
<1> SUFFICES ASSUME PipelineNext PROVE BoardNext \/ UNCHANGED boardVars
  BY DEF pipelineVars
<1>1. ASSUME NEW j \in Jobs, Submit(j) PROVE BoardNext
  BY <1>1 DEF Submit, BoardNext
<1>2. ASSUME NEW r \in Replicas, Claim(r) PROVE BoardNext
  BY <1>2 DEF Claim, BoardNext
<1>3. ASSUME NEW r \in Replicas, NEW t \in Tasks, Push(r, t) PROVE BoardNext
  BY <1>3 DEF Push, BoardNext
<1>4. ASSUME NEW w \in Workers, NEW q \in Requests, Post(w, q) PROVE BoardNext
  <2>1. PICK e \in worker[w].batch : BeginResult(q, stream[e], w)
    BY <1>4 DEF Post
  <2>2. stream[e] \in Tasks /\ w \in Nodes
    BY <2>1, PipelineAssumption DEF BeginResult, BoardTypeOK
  <2> QED BY <2>1, <2>2 DEF BoardNext
<1>5. ASSUME NEW q \in Requests, Handle(q) \/ RespondInvalid(q) PROVE BoardNext
  <2>1. Answer(q)
    BY <1>5 DEF Handle, Progress, Respond, RespondDouble, RespondInvalid, Answer
  <2> QED BY <2>1 DEF BoardNext
<1>6. ASSUME NEW q \in Requests, RespondAbort(q) PROVE BoardNext
  BY <1>6 DEF RespondAbort, BoardNext, BoardFault
<1>7. CASE QuietFault
  BY <1>7 DEF QuietFault, BoardNext, BoardFault
<1>8. ASSUME NEW w \in Workers,
             Loop(w) \/ LoopMishap(w) \/ HttpTimeout(w) \/ Crash(w)
      PROVE  UNCHANGED boardVars
  BY <1>8 DEF Loop, LoopMishap, HttpTimeout, Crash, WorkerOnly
<1>9. ASSUME NEW e \in pel, Idling(e) PROVE UNCHANGED boardVars
  BY <1>9 DEF Idling, WorkerOnly
<1> QED
  BY <1>1, <1>2, <1>3, <1>4, <1>5, <1>6, <1>7, <1>8, <1>9 DEF PipelineNext

-----------------------------------------------------------------------------
(* The stream and the loops                                                *)

Delivered == (groupStart + 1) .. cursor

\* The types of the stream and the loops; before there is a group nothing is
\* delivered.
StreamTypeOK ==
  /\ stream \in Seq(Tasks)
  /\ group \in {"none", "created"}
  /\ groupStart \in Nat /\ cursor \in Nat
  /\ groupStart <= cursor /\ cursor <= Len(stream)
  /\ pel \subseteq Delivered
  /\ stale \subseteq pel
  /\ worker \in [Workers -> WorkerState]
  /\ \A w \in Workers : worker[w].batch \subseteq Delivered
  /\ group = "none" => groupStart = cursor

\* Only w's loop has moved.
OnlyMoves(w) == \A v \in Workers \ {w} : worker'[v] = worker[v]

\* A batch has one current entry.
LEMMA OneCurrent ==
  ASSUME StreamTypeOK, NEW w \in Workers, NEW d, NEW e, IsCurrent(w, d), IsCurrent(w, e)
  PROVE  d = e
<1>1. d \in Nat /\ e \in Nat /\ d <= e /\ e <= d
  BY DEF IsCurrent, StreamTypeOK, WorkerState
<1> QED BY <1>1

\* A loop that goes on to its next entry posts nothing and acknowledges nothing
\* by that.
LEMMA AdvanceEffect ==
  ASSUME StreamTypeOK, NEW w \in Workers, NEW e, Advance(w, e)
  PROVE  /\ worker' \in [Workers -> WorkerState]
         /\ OnlyMoves(w)
         /\ worker'[w].pc \in {"claim", "infer"}
         /\ worker'[w].batch \subseteq worker[w].batch
<1> DEFINE rest == worker[w].batch \ {e}
           next == [worker[w] EXCEPT !.pc = IF rest = {} THEN "claim" ELSE "infer",
                                     !.batch = rest]
<1>1. /\ next \in WorkerState
      /\ next.pc \in {"claim", "infer"} /\ next.batch = rest
  BY DEF StreamTypeOK, WorkerState
<1>2. worker' = [worker EXCEPT ![w] = next]
  BY DEF Advance
<1> HIDE DEF next
<1>3. worker' \in [Workers -> WorkerState] /\ OnlyMoves(w) /\ worker'[w] = next
  BY <1>1, <1>2 DEF StreamTypeOK, OnlyMoves
<1> QED BY <1>1, <1>3

\* What is read is delivered: the cursor moves over entries that exist.
LEMMA FreshDelivered ==
  ASSUME StreamTypeOK, DeliverFresh, UNCHANGED << stream, group, groupStart >>
  PROVE  /\ cursor' \in Nat /\ cursor <= cursor' /\ cursor' <= Len(stream)
         /\ group = "none" => cursor' = cursor
         /\ Delivered' = Delivered \cup Fresh
         /\ pel' = pel \cup Fresh
<1>1. Len(stream) \in Nat /\ BatchSize \in Nat
  BY StreamAssumption DEF StreamTypeOK
<1>2. cursor' = LastFresh /\ pel' = pel \cup Fresh
  BY DEF DeliverFresh
<1>3. /\ LastFresh \in Nat /\ cursor <= LastFresh /\ LastFresh <= Len(stream)
      /\ group = "none" => LastFresh = cursor
  BY <1>1 DEF LastFresh, StreamTypeOK
<1>4. (groupStart + 1) .. LastFresh = ((groupStart + 1) .. cursor) \cup ((cursor + 1) .. LastFresh)
  BY <1>3 DEF StreamTypeOK
<1> QED BY <1>2, <1>3, <1>4 DEF Delivered, Fresh

\* The steps of a loop that neither post nor take an answer.
LoopStep(w) ==
  \/ StartWorker(w) \/ StartWithoutGroup(w)
  \/ Autoclaim(w) \/ AutoclaimReplyLost(w)
  \/ ReadNew(w) \/ ReadReplyLost(w)
  \/ \E e \in worker[w].batch : Ack(w, e) \/ InferenceFails(w, e)
  \/ CommandFails(w)

\* They keep the types; what they deliver is pending, and only the current
\* entry of an acknowledging worker leaves the pending list.
LEMMA LoopEffect ==
  ASSUME StreamTypeOK, NEW w \in Workers, LoopStep(w)
  PROVE  /\ StreamTypeOK'
         /\ OnlyMoves(w)
         /\ stream' = stream
         /\ worker[w].pc # "post" /\ worker'[w].pc \notin {"post", "ack"}
         /\ \A e \in Delivered' : e \in Delivered \/ e \in pel'
         /\ \A e \in pel : e \in pel' \/ (worker[w].pc = "ack" /\ IsCurrent(w, e))
<1> DEFINE Goal == /\ StreamTypeOK'
                   /\ OnlyMoves(w)
                   /\ stream' = stream
                   /\ worker[w].pc # "post" /\ worker'[w].pc \notin {"post", "ack"}
                   /\ \A e \in Delivered' : e \in Delivered \/ e \in pel'
                   /\ \A e \in pel : e \in pel' \/ (worker[w].pc = "ack" /\ IsCurrent(w, e))
<1>0. \A v \in Workers : worker[v].batch \subseteq Nat \ {0}
  BY DEF StreamTypeOK, WorkerState
<1>1. CASE StartWorker(w)
  <2>1. Started \in WorkerState /\ Started.pc = "claim" /\ Started.batch = {}
    BY DEF Started, WorkerState
  <2>2. /\ worker' \in [Workers -> WorkerState] /\ OnlyMoves(w)
        /\ worker'[w].pc = "claim" /\ worker'[w].batch = {}
    BY <1>1, <2>1 DEF StartWorker, StreamTypeOK, OnlyMoves
  <2>3. CASE group = "none"
    <3>1. Delivered = {} /\ Len(stream) \in Nat
      BY <2>3 DEF StreamTypeOK, Delivered
    <3>2. Delivered' = {} /\ UNCHANGED << stream, pel, stale >>
      BY <1>1, <2>3, <3>1 DEF StartWorker, Delivered
    <3>3. StreamTypeOK'
      BY <1>1, <2>2, <2>3, <3>1, <3>2 DEF StartWorker, StreamTypeOK, OnlyMoves
    <3> QED BY <1>1, <2>2, <3>2, <3>3 DEF StartWorker
  <2>4. CASE group # "none"
    <3>1. UNCHANGED redisVars /\ Delivered' = Delivered
      BY <1>1, <2>4 DEF StartWorker, redisVars, Delivered
    <3>2. StreamTypeOK'
      BY <2>2, <3>1 DEF redisVars, StreamTypeOK, OnlyMoves
    <3> QED BY <1>1, <2>2, <3>1, <3>2 DEF StartWorker, redisVars
  <2> QED BY <2>3, <2>4
<1>2. CASE StartWithoutGroup(w)
  <2>1. Started \in WorkerState /\ Started.pc = "claim" /\ Started.batch = {}
    BY DEF Started, WorkerState
  <2>2. /\ worker' \in [Workers -> WorkerState] /\ OnlyMoves(w)
        /\ worker'[w].pc = "claim" /\ worker'[w].batch = {}
    BY <1>2, <2>1 DEF StartWithoutGroup, StreamTypeOK, OnlyMoves
  <2>3. UNCHANGED redisVars /\ Delivered' = Delivered
    BY <1>2 DEF StartWithoutGroup, redisVars, Delivered
  <2>4. StreamTypeOK'
    BY <2>2, <2>3 DEF redisVars, StreamTypeOK, OnlyMoves
  <2> QED BY <1>2, <2>2, <2>3, <2>4 DEF StartWithoutGroup, redisVars
<1>3. CASE Autoclaim(w)
  <2>1. OldestStale \subseteq stale
    BY DEF OldestStale
  <2> DEFINE next == [worker[w] EXCEPT !.pc = "read", !.batch = OldestStale]
  <2>2. /\ OldestStale \subseteq Delivered
        /\ next \in WorkerState /\ next.pc = "read" /\ next.batch = OldestStale
    <3>1. OldestStale \subseteq Delivered /\ OldestStale \subseteq Nat \ {0}
      BY <2>1 DEF StreamTypeOK, Delivered
    <3> HIDE DEF OldestStale
    <3> QED BY <3>1 DEF WorkerState, StreamTypeOK
  <2>3. worker' = [worker EXCEPT ![w] = next]
    BY <1>3 DEF Autoclaim
  <2> HIDE DEF next
  <2>4. /\ worker' \in [Workers -> WorkerState] /\ OnlyMoves(w)
        /\ worker'[w].pc = "read" /\ worker'[w].batch = OldestStale
    BY <2>2, <2>3 DEF StreamTypeOK, OnlyMoves
  <2>5. /\ UNCHANGED << stream, group, groupStart, cursor, pel >> /\ Delivered' = Delivered
        /\ stale' \subseteq stale
    BY <1>3 DEF Autoclaim, Delivered
  <2>6. StreamTypeOK'
    BY <2>2, <2>4, <2>5 DEF StreamTypeOK, OnlyMoves
  <2> QED BY <1>3, <2>4, <2>5, <2>6 DEF Autoclaim
<1>4. CASE AutoclaimReplyLost(w)
  <2>1. [worker[w] EXCEPT !.pc = "read", !.link = FALSE] \in WorkerState
    BY DEF StreamTypeOK, WorkerState
  <2>2. /\ worker' \in [Workers -> WorkerState] /\ OnlyMoves(w)
        /\ worker'[w].pc = "read" /\ worker'[w].batch = worker[w].batch
    BY <1>4, <2>1 DEF AutoclaimReplyLost, StreamTypeOK, OnlyMoves, WorkerState
  <2>3. /\ UNCHANGED << stream, group, groupStart, cursor, pel >> /\ Delivered' = Delivered
        /\ stale' \subseteq stale
    BY <1>4 DEF AutoclaimReplyLost, Delivered
  <2>4. StreamTypeOK'
    BY <2>2, <2>3 DEF StreamTypeOK, OnlyMoves
  <2> QED BY <1>4, <2>2, <2>3, <2>4 DEF AutoclaimReplyLost
<1>5. CASE ReadNew(w) \/ ReadReplyLost(w)
  <2>1. /\ DeliverFresh /\ UNCHANGED << stream, group, groupStart, stale >>
        /\ worker[w].pc = "read"
    BY <1>5 DEF ReadNew, ReadReplyLost
  <2>2. /\ cursor' \in Nat /\ cursor <= cursor' /\ cursor' <= Len(stream)
        /\ group = "none" => cursor' = cursor
        /\ Delivered' = Delivered \cup Fresh
        /\ pel' = pel \cup Fresh
    BY <2>1, FreshDelivered
  <2>3. Fresh \subseteq Nat \ {0}
    BY DEF Fresh, StreamTypeOK
  <2>4. PICK s \in WorkerState :
          /\ worker' = [worker EXCEPT ![w] = s]
          /\ s.pc \in {"claim", "infer"} /\ s.batch \subseteq worker[w].batch \cup Fresh
    <3>1. CASE ReadNew(w)
      <4> DEFINE all == worker[w].batch \cup Fresh
                 s == [worker[w] EXCEPT !.pc = IF all = {} THEN "claim" ELSE "infer",
                                        !.batch = all]
      <4>1. s \in WorkerState /\ s.pc \in {"claim", "infer"} /\ s.batch = all
        BY <1>0, <2>3 DEF StreamTypeOK, WorkerState
      <4>2. worker' = [worker EXCEPT ![w] = s]
        BY <3>1 DEF ReadNew
      <4> QED BY <4>1, <4>2
    <3>2. CASE ReadReplyLost(w)
      <4> DEFINE s == [worker[w] EXCEPT !.pc = IF worker[w].batch = {} THEN "claim" ELSE "infer",
                                        !.link = FALSE]
      <4>1. s \in WorkerState /\ s.pc \in {"claim", "infer"} /\ s.batch = worker[w].batch
        BY DEF StreamTypeOK, WorkerState
      <4>2. worker' = [worker EXCEPT ![w] = s]
        BY <3>2 DEF ReadReplyLost
      <4> QED BY <4>1, <4>2
    <3> QED BY <1>5, <3>1, <3>2
  <2>5. worker' \in [Workers -> WorkerState] /\ OnlyMoves(w) /\ worker'[w] = s
    BY <2>4 DEF StreamTypeOK, OnlyMoves
  <2>6. StreamTypeOK'
    BY <2>1, <2>2, <2>4, <2>5 DEF StreamTypeOK, OnlyMoves
  <2> QED BY <2>1, <2>2, <2>4, <2>5, <2>6
<1>6. ASSUME NEW e \in worker[w].batch, Ack(w, e) PROVE Goal
  <2>1. /\ worker' \in [Workers -> WorkerState] /\ OnlyMoves(w)
        /\ worker'[w].pc \in {"claim", "infer"} /\ worker'[w].batch \subseteq worker[w].batch
    BY <1>6, AdvanceEffect DEF Ack
  <2>2. /\ UNCHANGED << stream, group, groupStart, cursor >> /\ Delivered' = Delivered
        /\ pel' = pel \ {e} /\ stale' = stale \ {e}
        /\ worker[w].pc = "ack" /\ IsCurrent(w, e)
    BY <1>6 DEF Ack, Delivered
  <2>3. StreamTypeOK'
    BY <2>1, <2>2 DEF StreamTypeOK, OnlyMoves
  <2> QED BY <2>1, <2>2, <2>3
<1>7. ASSUME NEW e \in worker[w].batch, Advance(w, e), UNCHANGED redisVars,
             worker[w].pc \in {"ack", "infer"}
      PROVE  Goal
  <2>1. /\ worker' \in [Workers -> WorkerState] /\ OnlyMoves(w)
        /\ worker'[w].pc \in {"claim", "infer"} /\ worker'[w].batch \subseteq worker[w].batch
    BY <1>7, AdvanceEffect
  <2>2. Delivered' = Delivered
    BY <1>7 DEF redisVars, Delivered
  <2>3. StreamTypeOK'
    BY <1>7, <2>1, <2>2 DEF redisVars, StreamTypeOK, OnlyMoves
  <2> QED BY <1>7, <2>1, <2>2, <2>3 DEF redisVars
<1>8. ASSUME NEW pc \in {"claim", "infer"}, worker' = [worker EXCEPT ![w].pc = pc],
             UNCHANGED redisVars, worker[w].pc = "read"
      PROVE  Goal
  <2>1. [worker[w] EXCEPT !.pc = pc] \in WorkerState
    BY DEF StreamTypeOK, WorkerState
  <2>2. /\ worker' \in [Workers -> WorkerState] /\ OnlyMoves(w)
        /\ worker'[w].pc = pc /\ worker'[w].batch = worker[w].batch
    BY <1>8, <2>1 DEF StreamTypeOK, OnlyMoves, WorkerState
  <2>3. Delivered' = Delivered
    BY <1>8 DEF redisVars, Delivered
  <2>4. StreamTypeOK'
    BY <1>8, <2>2, <2>3 DEF redisVars, StreamTypeOK, OnlyMoves
  <2> QED BY <1>8, <2>2, <2>3, <2>4 DEF redisVars
<1>9. ASSUME NEW e \in worker[w].batch, InferenceFails(w, e) PROVE Goal
  BY <1>7, <1>9 DEF InferenceFails
<1>10. CASE CommandFails(w)
  <2>1. UNCHANGED redisVars
    BY <1>10 DEF CommandFails
  <2>2. CASE worker[w].pc = "read"
    <3> DEFINE pc == IF worker[w].batch = {} THEN "claim" ELSE "infer"
    <3>1. worker' = [worker EXCEPT ![w].pc = pc]
      BY <1>10, <2>2 DEF CommandFails
    <3> QED BY <1>8, <2>1, <2>2, <3>1
  <2>3. CASE worker[w].pc # "read"
    <3>1. PICK e \in worker[w].batch : Advance(w, e) /\ worker[w].pc = "ack"
      BY <1>10, <2>3 DEF CommandFails
    <3> QED BY <1>7, <2>1, <3>1
  <2> QED BY <2>2, <2>3
<1> QED BY <1>1, <1>2, <1>3, <1>4, <1>5, <1>6, <1>9, <1>10 DEF LoopStep

-----------------------------------------------------------------------------
(* The answers                                                             *)

\* What a worker is about to acknowledge is done.
AckedWhenComplete ==
  \A w \in Workers : \A e \in worker[w].batch :
    worker[w].pc = "ack" /\ IsCurrent(w, e) => status[stream[e]] = "complete"

\* What the invariant says of the workers and the stream.
DeliveryInv ==
  /\ StreamTypeOK
  /\ StreamIsPublished
  /\ serving \in [Workers -> Requests \cup {None}]
  /\ AnswersReachTheirWorker
  /\ AckedIsComplete
  /\ AckedWhenComplete

\* The request q, if somebody serves it, goes on with its task and its node.
GoesOn(q) == /\ request'[q].pc # "idle"
             /\ request'[q].task = request[q].task
             /\ request'[q].node = request[q].node

\* A step that leaves stream and workers alone.
LEMMA QuietStep ==
  ASSUME DeliveryInv, UNCHANGED << workerVars, serving, published >>,
         \A t \in Tasks : status[t] = "complete" => status'[t] = "complete",
         \A q \in Requests : (\E w \in Workers : serving[w] = q) => GoesOn(q)
  PROVE  DeliveryInv'
<1> USE DEF workerVars
<1>1. StreamTypeOK' /\ StreamIsPublished' /\ (serving \in [Workers -> Requests \cup {None}])'
  BY DEF DeliveryInv, StreamTypeOK, StreamIsPublished, Delivered
<1>2. AnswersReachTheirWorker'
  <2>1. ASSUME NEW w \in Workers, worker[w].pc = "post" PROVE GoesOn(serving[w])
    BY <2>1 DEF DeliveryInv, AnswersReachTheirWorker
  <2>2. \A w \in Workers : \A e \in worker[w].batch : IsCurrent(w, e)' <=> IsCurrent(w, e)
    BY DEF IsCurrent
  <2> QED BY <2>1, <2>2 DEF DeliveryInv, AnswersReachTheirWorker, GoesOn
<1>3. \A e \in Delivered : stream[e] \in Tasks
  BY DEF DeliveryInv, StreamTypeOK, Delivered
<1>4. AckedIsComplete'
  BY <1>3 DEF DeliveryInv, AckedIsComplete, Delivered
<1>5. AckedWhenComplete'
  BY <1>3 DEF DeliveryInv, AckedWhenComplete, StreamTypeOK, IsCurrent
<1> QED BY <1>1, <1>2, <1>4, <1>5 DEF DeliveryInv

\* A step after which w no longer waits for an answer.
LEMMA StopWaiting ==
  ASSUME DeliveryInv, NEW w \in Workers, UNCHANGED << redisVars, published >>,
         serving' = [serving EXCEPT ![w] = None],
         worker' \in [Workers -> WorkerState], OnlyMoves(w),
         worker'[w].batch \subseteq worker[w].batch, worker'[w].pc # "post",
         worker'[w].pc = "ack" =>
           \A e \in worker'[w].batch : IsCurrent(w, e)' => status'[stream[e]] = "complete",
         \A t \in Tasks : status[t] = "complete" => status'[t] = "complete",
         \A q \in Requests : (\E v \in Workers \ {w} : serving[v] = q) => GoesOn(q)
  PROVE  DeliveryInv'
<1> USE DEF redisVars
<1>1. StreamTypeOK' /\ StreamIsPublished' /\ (serving \in [Workers -> Requests \cup {None}])'
  <2>1. Delivered' = Delivered
    BY DEF Delivered
  <2>2. \A v \in Workers : worker'[v].batch \subseteq Delivered
    BY DEF DeliveryInv, StreamTypeOK, OnlyMoves
  <2>3. StreamTypeOK'
    BY <2>1, <2>2 DEF DeliveryInv, StreamTypeOK
  <2>4. StreamIsPublished'
    BY DEF DeliveryInv, StreamIsPublished
  <2>5. (serving \in [Workers -> Requests \cup {None}])'
    BY DEF DeliveryInv
  <2> QED BY <2>3, <2>4, <2>5
<1>2. \A v \in Workers \ {w} : /\ serving'[v] = serving[v] /\ worker'[v] = worker[v]
                               /\ \A e : IsCurrent(v, e)' <=> IsCurrent(v, e)
  <2> SUFFICES ASSUME NEW v \in Workers \ {w}
               PROVE  /\ serving'[v] = serving[v] /\ worker'[v] = worker[v]
                      /\ \A e : IsCurrent(v, e)' <=> IsCurrent(v, e)
    OBVIOUS
  <2>1. serving'[v] = serving[v] /\ worker'[v] = worker[v]
    BY DEF DeliveryInv, OnlyMoves
  <2> QED BY <2>1 DEF IsCurrent
<1>3. serving'[w] = None
  BY DEF DeliveryInv
<1>4. AnswersReachTheirWorker'
  <2> SUFFICES ASSUME NEW v \in Workers
               PROVE  IF worker'[v].pc = "post"
                        THEN /\ serving'[v] # None
                             /\ request'[serving'[v]].pc # "idle"
                             /\ request'[serving'[v]].node = v
                             /\ \E e \in worker'[v].batch :
                                  IsCurrent(v, e)' /\ stream'[e] = request'[serving'[v]].task
                             /\ \A u \in Workers \ {v} : serving'[u] # serving'[v]
                        ELSE serving'[v] = None
    BY DEF AnswersReachTheirWorker
  <2>1. CASE v = w
    BY <1>3, <2>1
  <2>2. CASE v # w /\ worker[v].pc = "post"
    <3>1. /\ serving[v] \in Requests
          /\ request[serving[v]].node = v
          /\ \E e \in worker[v].batch :
               IsCurrent(v, e) /\ stream[e] = request[serving[v]].task
          /\ \A u \in Workers \ {v} : serving[u] # serving[v]
      BY <2>2 DEF DeliveryInv, AnswersReachTheirWorker
    <3>2. GoesOn(serving[v])
      BY <2>2, <3>1
    <3> QED BY <1>2, <1>3, <2>2, <3>1, <3>2, PipelineAssumption DEF GoesOn
  <2>3. CASE v # w /\ worker[v].pc # "post"
    BY <1>2, <2>3 DEF DeliveryInv, AnswersReachTheirWorker
  <2> QED BY <2>1, <2>2, <2>3
<1>5. \A e \in Delivered : stream[e] \in Tasks
  BY DEF DeliveryInv, StreamTypeOK, Delivered
<1>6. AckedIsComplete'
  BY <1>5 DEF DeliveryInv, AckedIsComplete, Delivered
<1>7. AckedWhenComplete'
  BY <1>2, <1>5 DEF DeliveryInv, AckedWhenComplete, StreamTypeOK
<1> QED BY <1>1, <1>4, <1>6, <1>7 DEF DeliveryInv

\* A push: the claimed row is on no stream yet, and what is delivered stays.
LEMMA PushKeeps ==
  ASSUME BoardInv, DeliveryInv, NEW r \in Replicas, NEW t \in Tasks, Push(r, t)
  PROVE  DeliveryInv'
<1>1. /\ stream' = Append(stream, t) /\ published' = published \cup {t}
      /\ UNCHANGED << group, groupStart, cursor, pel, stale, worker, serving, request, status >>
  BY DEF Push, PushToStream, Xadd
<1>2. t \notin published
  BY DEF Push, PushToStream, BoardInv, ClaimedOnce
<1>3. /\ stream \in Seq(Tasks) /\ Len(stream) \in Nat
      /\ stream' \in Seq(Tasks) /\ Len(stream') = Len(stream) + 1
      /\ stream'[Len(stream) + 1] = t
      /\ \A e \in 1 .. Len(stream) : stream'[e] = stream[e]
  BY <1>1 DEF DeliveryInv, StreamTypeOK
<1>4. Delivered' = Delivered /\ Delivered \subseteq 1 .. Len(stream)
  BY <1>1, <1>3 DEF Delivered, DeliveryInv, StreamTypeOK
<1>5. StreamTypeOK'
  BY <1>1, <1>3, <1>4 DEF DeliveryInv, StreamTypeOK
<1>6. StreamIsPublished'
  <2>1. 1 .. Len(stream') = (1 .. Len(stream)) \cup {Len(stream) + 1}
    BY <1>3
  <2>2. \A e \in 1 .. Len(stream) : stream[e] # t
    BY <1>2 DEF DeliveryInv, StreamIsPublished
  <2>3. published' = {stream'[e] : e \in 1 .. Len(stream')}
    BY <1>1, <1>3, <2>1 DEF DeliveryInv, StreamIsPublished
  <2>4. \A d, e \in 1 .. Len(stream') : stream'[d] = stream'[e] => d = e
    BY <1>3, <2>1, <2>2 DEF DeliveryInv, StreamIsPublished
  <2> QED BY <2>3, <2>4 DEF StreamIsPublished
<1>7. \A w \in Workers : \A e \in worker[w].batch :
        /\ IsCurrent(w, e)' <=> IsCurrent(w, e)
        /\ stream'[e] = stream[e]
  BY <1>1, <1>3, <1>4 DEF DeliveryInv, StreamTypeOK, IsCurrent
<1>8. AnswersReachTheirWorker'
  BY <1>1, <1>7 DEF DeliveryInv, AnswersReachTheirWorker
<1>9. AckedIsComplete' /\ AckedWhenComplete'
  BY <1>1, <1>3, <1>4, <1>7 DEF DeliveryInv, AckedIsComplete, AckedWhenComplete, Delivered
<1>10. (serving \in [Workers -> Requests \cup {None}])'
  BY <1>1 DEF DeliveryInv
<1> QED BY <1>5, <1>6, <1>8, <1>9, <1>10 DEF DeliveryInv

\* A POST: the request was idle, so nobody waited for it.
LEMMA PostKeeps ==
  ASSUME BoardInv, DeliveryInv, NEW w \in Workers, NEW q \in Requests, Post(w, q)
  PROVE  DeliveryInv'
<1> PICK e \in worker[w].batch : IsCurrent(w, e) /\ BeginResult(q, stream[e], w)
  BY DEF Post
<1>1. /\ UNCHANGED << redisVars, published, status >>
      /\ worker[w].pc = "infer"
      /\ serving' = [serving EXCEPT ![w] = q]
      /\ request[q].pc = "idle"
      /\ request' = [request EXCEPT ![q] =
                       [pc |-> "load", task |-> stream[e], node |-> w, sum |-> NoAward]]
  BY DEF Post, PostResult, BeginResult, streamVars
<1>2. /\ worker' \in [Workers -> WorkerState] /\ OnlyMoves(w)
      /\ worker'[w].pc = "post" /\ worker'[w].batch = worker[w].batch
  <2>1. [worker[w] EXCEPT !.pc = "post"] \in WorkerState
    BY DEF DeliveryInv, StreamTypeOK, WorkerState
  <2> QED
    BY <2>1 DEF Post, PostResult, DeliveryInv, StreamTypeOK, OnlyMoves, WorkerState
<1>3. \A v \in Workers : /\ worker'[v].batch = worker[v].batch
                         /\ \A d : IsCurrent(v, d)' <=> IsCurrent(v, d)
  BY <1>2 DEF OnlyMoves, IsCurrent
<1>4. StreamTypeOK' /\ StreamIsPublished' /\ (serving \in [Workers -> Requests \cup {None}])'
  BY <1>1, <1>2, <1>3 DEF redisVars, DeliveryInv, StreamTypeOK, StreamIsPublished, Delivered
<1>5. \A v \in Workers : serving[v] # q
  BY <1>1, PipelineAssumption DEF DeliveryInv, AnswersReachTheirWorker
<1>6. AnswersReachTheirWorker'
  <2>1. /\ serving'[w] = q /\ request'[q].pc # "idle" /\ request'[q].node = w
        /\ request'[q].task = stream[e]
    BY <1>1 DEF DeliveryInv, BoardInv, BoardTypeOK
  <2>2. \A v \in Workers \ {w} :
          /\ serving'[v] = serving[v] /\ worker'[v] = worker[v]
          /\ serving[v] \in Requests => request'[serving[v]] = request[serving[v]]
    BY <1>1, <1>2, <1>5 DEF DeliveryInv, OnlyMoves, BoardInv, BoardTypeOK
  <2>3. stream' = stream /\ q # None
    BY <1>1, PipelineAssumption DEF redisVars
  <2> SUFFICES ASSUME NEW v \in Workers
               PROVE  IF worker'[v].pc = "post"
                        THEN /\ serving'[v] # None
                             /\ request'[serving'[v]].pc # "idle"
                             /\ request'[serving'[v]].node = v
                             /\ \E d \in worker'[v].batch :
                                  IsCurrent(v, d)' /\ stream'[d] = request'[serving'[v]].task
                             /\ \A u \in Workers \ {v} : serving'[u] # serving'[v]
                        ELSE serving'[v] = None
    BY DEF AnswersReachTheirWorker
  <2>4. CASE v = w
    BY <1>2, <1>3, <1>5, <2>1, <2>2, <2>3, <2>4
  <2>5. CASE v # w /\ worker[v].pc = "post"
    <3>1. /\ serving[v] \in Requests /\ serving[v] # None
          /\ request[serving[v]].pc # "idle"
          /\ request[serving[v]].node = v
          /\ \E d \in worker[v].batch :
               IsCurrent(v, d) /\ stream[d] = request[serving[v]].task
          /\ \A u \in Workers \ {v} : serving[u] # serving[v]
      BY <2>5 DEF DeliveryInv, AnswersReachTheirWorker
    <3> QED BY <1>3, <1>5, <2>1, <2>2, <2>3, <2>5, <3>1
  <2>6. CASE v # w /\ worker[v].pc # "post"
    BY <2>2, <2>6 DEF DeliveryInv, AnswersReachTheirWorker
  <2> QED BY <2>4, <2>5, <2>6
<1>7. AckedIsComplete'
  BY <1>1 DEF redisVars, DeliveryInv, AckedIsComplete
<1>8. AckedWhenComplete'
  BY <1>1, <1>2, <1>3 DEF redisVars, DeliveryInv, AckedWhenComplete, OnlyMoves
<1> QED BY <1>4, <1>6, <1>7, <1>8 DEF DeliveryInv

\* A step of a loop on its own.
LEMMA LoopKeeps ==
  ASSUME DeliveryInv, NEW w \in Workers, LoopStep(w),
         UNCHANGED << serving, published, status, request >>
  PROVE  DeliveryInv'
<1>1. /\ StreamTypeOK'
      /\ OnlyMoves(w)
      /\ stream' = stream
      /\ worker[w].pc # "post" /\ worker'[w].pc \notin {"post", "ack"}
      /\ \A e \in Delivered' : e \in Delivered \/ e \in pel'
      /\ \A e \in pel : e \in pel' \/ (worker[w].pc = "ack" /\ IsCurrent(w, e))
  BY LoopEffect DEF DeliveryInv
<1>2. \A v \in Workers \ {w} : /\ worker'[v] = worker[v]
                               /\ \A e : IsCurrent(v, e)' <=> IsCurrent(v, e)
  BY <1>1 DEF OnlyMoves, IsCurrent
<1>3. StreamIsPublished' /\ (serving \in [Workers -> Requests \cup {None}])'
  BY <1>1 DEF DeliveryInv, StreamIsPublished
<1>4. AnswersReachTheirWorker'
  BY <1>1, <1>2 DEF DeliveryInv, AnswersReachTheirWorker
<1>5. AckedIsComplete'
  <2> SUFFICES ASSUME NEW e \in Delivered', e \notin pel'
               PROVE  status[stream[e]] = "complete"
    BY <1>1 DEF AckedIsComplete, Delivered
  <2>1. e \in Delivered
    BY <1>1
  <2>2. CASE e \in pel
    <3>1. worker[w].pc = "ack" /\ IsCurrent(w, e) /\ e \in worker[w].batch
      BY <1>1, <2>2 DEF IsCurrent
    <3> QED BY <3>1 DEF DeliveryInv, AckedWhenComplete
  <2>3. CASE e \notin pel
    BY <2>1, <2>3 DEF DeliveryInv, AckedIsComplete, Delivered
  <2> QED BY <2>2, <2>3
<1>6. AckedWhenComplete'
  BY <1>1, <1>2 DEF DeliveryInv, AckedWhenComplete
<1> QED BY <1>1, <1>3, <1>4, <1>5, <1>6 DEF DeliveryInv

\* A worker loses its connection, wherever its loop stands.
LEMMA LinkKeeps ==
  ASSUME DeliveryInv, NEW w \in Workers, LoseConnection(w),
         UNCHANGED << serving, published, status, request >>
  PROVE  DeliveryInv'
<1>1. UNCHANGED redisVars /\ worker' = [worker EXCEPT ![w].link = FALSE]
  BY DEF LoseConnection
<1>2. [worker[w] EXCEPT !.link = FALSE] \in WorkerState
  BY DEF DeliveryInv, StreamTypeOK, WorkerState
<1>3. /\ worker' \in [Workers -> WorkerState]
      /\ \A v \in Workers : worker'[v].pc = worker[v].pc /\ worker'[v].batch = worker[v].batch
  BY <1>1, <1>2 DEF DeliveryInv, StreamTypeOK, WorkerState
<1>4. \A v \in Workers : \A e : IsCurrent(v, e)' <=> IsCurrent(v, e)
  BY <1>3 DEF IsCurrent
<1>5. StreamTypeOK'
  BY <1>1, <1>3 DEF redisVars, DeliveryInv, StreamTypeOK, Delivered
<1>6. StreamIsPublished' /\ (serving \in [Workers -> Requests \cup {None}])' /\ AckedIsComplete'
  BY <1>1 DEF redisVars, DeliveryInv, StreamIsPublished, AckedIsComplete
<1>7. AnswersReachTheirWorker'
  BY <1>1, <1>3, <1>4 DEF redisVars, DeliveryInv, AnswersReachTheirWorker
<1>8. AckedWhenComplete'
  BY <1>1, <1>3, <1>4 DEF redisVars, DeliveryInv, AckedWhenComplete
<1> QED BY <1>5, <1>6, <1>7, <1>8 DEF DeliveryInv

\* An answer: the worker that waits for it has asked about its current entry,
\* and 200 comes only for a complete task.
LEMMA TellKeeps ==
  ASSUME BoardInv, DeliveryInv, NEW q \in Requests, NEW outcome,
         Reply(q), Tell(q, outcome), UNCHANGED << status, published >>,
         outcome = "ok" => status[request[q].task] = "complete"
  PROVE  DeliveryInv'
<1>1. \A p \in Requests \ {q} : request'[p] = request[p]
  BY DEF Reply, BoardInv, BoardTypeOK
<1>2. \A p \in Requests \ {q} : (\E v \in Workers : serving[v] = p) => GoesOn(p)
  <2> SUFFICES ASSUME NEW p \in Requests \ {q}, NEW v \in Workers, serving[v] = p
               PROVE  GoesOn(p)
    OBVIOUS
  <2>1. request[p].pc # "idle"
    BY PipelineAssumption DEF DeliveryInv, AnswersReachTheirWorker
  <2> QED BY <1>1, <2>1 DEF GoesOn
<1>3. CASE \A w \in Workers : serving[w] # q
  <2>1. UNCHANGED << workerVars, serving >>
    BY <1>3 DEF Tell
  <2> QED BY <1>2, <1>3, <2>1, QuietStep
<1>4. CASE \E w \in Workers : serving[w] = q
  <2> PICK w \in Workers :
        /\ serving[w] = q
        /\ \E e \in worker[w].batch :
             IF outcome = "ok" THEN AnswerOk(w, e) ELSE AnswerError(w, e)
        /\ serving' = [serving EXCEPT ![w] = None]
    BY <1>4 DEF Tell
  <2> PICK e \in worker[w].batch :
        IF outcome = "ok" THEN AnswerOk(w, e) ELSE AnswerError(w, e)
    OBVIOUS
  <2>1. /\ worker[w].pc = "post" /\ IsCurrent(w, e) /\ UNCHANGED redisVars
    BY DEF AnswerOk, AnswerError
  <2>2. stream[e] = request[q].task
    <3>1. PICK d \in worker[w].batch : IsCurrent(w, d) /\ stream[d] = request[q].task
      BY <2>1 DEF DeliveryInv, AnswersReachTheirWorker
    <3>2. d = e
      BY <2>1, <3>1, OneCurrent DEF DeliveryInv
    <3> QED BY <3>1, <3>2
  <2>3. \A v \in Workers \ {w} : serving[v] # q
    BY <2>1 DEF DeliveryInv, AnswersReachTheirWorker
  <2>4. CASE outcome = "ok"
    <3>1. [worker[w] EXCEPT !.pc = "ack"] \in WorkerState
      BY DEF DeliveryInv, StreamTypeOK, WorkerState
    <3>2. /\ worker' \in [Workers -> WorkerState] /\ OnlyMoves(w)
          /\ worker'[w].pc = "ack" /\ worker'[w].batch = worker[w].batch
      BY <2>4, <3>1 DEF AnswerOk, DeliveryInv, StreamTypeOK, OnlyMoves, WorkerState
    <3>3. \A d \in worker'[w].batch : IsCurrent(w, d)' => d = e
      BY <2>1, <3>2, OneCurrent DEF DeliveryInv, IsCurrent
    <3>4. \A d \in worker'[w].batch : IsCurrent(w, d)' => status'[stream[d]] = "complete"
      BY <2>2, <2>4, <3>3
    <3> QED BY <1>2, <2>1, <2>3, <3>2, <3>4, StopWaiting
  <2>5. CASE outcome # "ok"
    <3>1. AnswerError(w, e)
      BY <2>5
    <3>2. /\ worker' \in [Workers -> WorkerState] /\ OnlyMoves(w)
          /\ worker'[w].pc \in {"claim", "infer"} /\ worker'[w].batch \subseteq worker[w].batch
      BY <3>1, AdvanceEffect DEF AnswerError, DeliveryInv
    <3> QED BY <1>2, <2>1, <2>3, <3>2, StopWaiting
  <2> QED BY <2>4, <2>5
<1> QED BY <1>3, <1>4

LEMMA DeliveryStep ==
  ASSUME BoardInv, DeliveryInv, [PipelineNext]_pipelineVars
  PROVE  DeliveryInv'
<1>0. \A t \in Tasks : status[t] = "complete" => status'[t] = "complete"
  BY CompleteStays, PipelineStepIsBoardStep DEF BoardInv
<1>1. \A w \in Workers, q \in Requests : serving[w] = q => request[q].pc # "idle"
  BY PipelineAssumption DEF DeliveryInv, AnswersReachTheirWorker
<1>2. ASSUME NEW j \in Jobs, Submit(j) \/ (AbandonSubmission(j) /\ BoardOnly) PROVE DeliveryInv'
  <2>1. UNCHANGED << workerVars, serving, published, request >>
    BY <1>2
    DEF Submit, SubmitStep, SubmitJob, InsertSubTask, JobCreated, AbandonSubmission, BoardOnly,
        streamVars
  <2> QED BY <1>0, <1>1, <2>1, QuietStep DEF GoesOn
<1>3. ASSUME NEW r \in Replicas, Claim(r) \/ (DropClaims(r) /\ BoardOnly) PROVE DeliveryInv'
  <2>1. UNCHANGED << workerVars, serving, published, request >>
    BY <1>3 DEF Claim, ClaimReady, DropClaims, BoardOnly
  <2> QED BY <1>0, <1>1, <2>1, QuietStep DEF GoesOn
<1>4. ASSUME NEW q \in Requests, Progress(q) \/ (SumCreditsFails(q) /\ BoardOnly) PROVE DeliveryInv'
  <2>1. UNCHANGED << workerVars, serving, published >>
    BY <1>4
    DEF Progress, AcceptResult, MarkComplete, RecordReputation, PersistReceipt, SumCredits,
        CountOpenTasks, SumCreditsFails, BoardOnly, streamVars
  <2>2. request[q].pc # "idle" => request[q] \in ActiveRequest
    BY ActiveShape DEF BoardInv
  <2>3. GoesOn(q) /\ \A p \in Requests \ {q} : request'[p] = request[p]
    BY <1>4, <2>2
    DEF Progress, AcceptResult, MarkComplete, RecordReputation, PersistReceipt, SumCredits,
        CountOpenTasks, StartBilling, SumCreditsFails, Goto, GoesOn, BoardInv, BoardTypeOK, ActiveRequest
  <2>4. \A p \in Requests : (\E w \in Workers : serving[w] = p) => GoesOn(p)
    BY <1>1, <2>3 DEF GoesOn
  <2> QED BY <1>0, <2>1, <2>4, QuietStep
<1>5. ASSUME NEW q \in Requests,
             Respond(q) \/ RespondDouble(q) \/ RespondInvalid(q) \/ RespondAbort(q)
      PROVE  DeliveryInv'
  <2>1. CASE Respond(q)
    <3>1. /\ Reply(q) /\ Tell(q, "ok") /\ UNCHANGED << status, published >>
          /\ request[q].pc \in {"count", "finish"}
      BY <2>1 DEF Respond, CountOpenTasks, CompleteJob, streamVars
    <3>2. status[request[q].task] = "complete"
      BY <3>1 DEF BoardInv, RowsBehindWork
    <3> QED BY <3>1, <3>2, TellKeeps
  <2>2. CASE RespondDouble(q) \/ RespondInvalid(q) \/ RespondAbort(q)
    <3>1. Reply(q) /\ Tell(q, "error") /\ UNCHANGED << status, published >>
      BY <2>2
      DEF RespondDouble, RespondInvalid, RespondAbort, RefuseDouble, RefuseOutput, AbortResult,
          streamVars
    <3>2. "error" # "ok"
      OBVIOUS
    <3> QED BY <3>1, <3>2, TellKeeps
  <2> QED BY <1>5, <2>1, <2>2
<1>6. ASSUME NEW w \in Workers, HttpTimeout(w) PROVE DeliveryInv'
  <2>1. PICK e \in worker[w].batch : AnswerError(w, e)
    BY <1>6 DEF HttpTimeout
  <2>2. /\ worker' \in [Workers -> WorkerState] /\ OnlyMoves(w)
        /\ worker'[w].pc \in {"claim", "infer"} /\ worker'[w].batch \subseteq worker[w].batch
    BY <2>1, AdvanceEffect DEF AnswerError, DeliveryInv
  <2>3. /\ UNCHANGED << redisVars, published, request >>
        /\ serving' = [serving EXCEPT ![w] = None]
    BY <1>6, <2>1 DEF HttpTimeout, AnswerError, boardVars
  <2>4. \A q \in Requests : (\E v \in Workers \ {w} : serving[v] = q) => GoesOn(q)
    BY <1>1, <2>3 DEF GoesOn
  <2> QED BY <1>0, <2>2, <2>3, <2>4, StopWaiting
<1>7. ASSUME NEW w \in Workers, Crash(w) PROVE DeliveryInv'
  <2>1. /\ UNCHANGED << redisVars, published, request >>
        /\ serving' = [serving EXCEPT ![w] = None]
        /\ worker' = [worker EXCEPT ![w] = Down]
    BY <1>7 DEF Crash, CrashWorker, boardVars
  <2>2. Down \in WorkerState /\ Down.pc = "down" /\ Down.batch = {}
    BY DEF Down, WorkerState
  <2>3. /\ worker' \in [Workers -> WorkerState] /\ OnlyMoves(w)
        /\ worker'[w].pc = "down" /\ worker'[w].batch \subseteq worker[w].batch
    BY <2>1, <2>2 DEF DeliveryInv, StreamTypeOK, OnlyMoves
  <2>4. \A q \in Requests : (\E v \in Workers \ {w} : serving[v] = q) => GoesOn(q)
    BY <1>1, <2>1 DEF GoesOn
  <2> QED BY <1>0, <2>1, <2>3, <2>4, StopWaiting
<1>8. ASSUME NEW e \in pel, Idling(e) PROVE DeliveryInv'
  <2>1. /\ stale' = stale \cup {e}
        /\ UNCHANGED << stream, group, groupStart, cursor, pel, worker, boardVars, serving >>
    BY <1>8 DEF Idling, GrowStale, WorkerOnly
  <2>2. UNCHANGED << published, status, request >>
    BY <2>1 DEF boardVars
  <2>3. StreamTypeOK'
    BY <1>8, <2>1 DEF DeliveryInv, StreamTypeOK, Delivered
  <2>4. AnswersReachTheirWorker' /\ AckedWhenComplete'
    BY <2>1, <2>2 DEF DeliveryInv, AnswersReachTheirWorker, AckedWhenComplete, IsCurrent
  <2> QED
    BY <2>1, <2>2, <2>3, <2>4 DEF DeliveryInv, StreamIsPublished, AckedIsComplete
<1>9. ASSUME NEW w \in Workers, Loop(w) \/ LoopMishap(w) PROVE DeliveryInv'
  <2>1. LoopStep(w) \/ LoseConnection(w)
    BY <1>9 DEF Loop, LoopMishap, LoopStep
  <2>2. UNCHANGED << serving, published, status, request >>
    BY <1>9 DEF Loop, LoopMishap, WorkerOnly, boardVars
  <2> QED BY <2>1, <2>2, LoopKeeps, LinkKeeps
<1>10. CASE UNCHANGED pipelineVars
  <2>1. UNCHANGED << workerVars, serving, published, request >>
    BY <1>10 DEF pipelineVars, boardVars
  <2> QED BY <1>0, <1>1, <2>1, QuietStep DEF GoesOn
<1>11. CASE QuietFault
  BY <1>2, <1>3, <1>4, <1>11 DEF QuietFault
<1>12. ASSUME NEW q \in Requests, Handle(q) \/ RespondInvalid(q) \/ RespondAbort(q)
       PROVE  DeliveryInv'
  BY <1>4, <1>5, <1>12 DEF Handle
<1> QED
  BY <1>2, <1>3, <1>6, <1>7, <1>8, <1>9, <1>10, <1>11, <1>12, PushKeeps, PostKeeps
  DEF PipelineNext

LEMMA DeliveryInit == PipelineInit => DeliveryInv
<1> SUFFICES ASSUME PipelineInit PROVE DeliveryInv
  OBVIOUS
<1> USE DEF PipelineInit, StreamInit, BoardInit
<1>1. Down \in WorkerState /\ Down.pc = "down" /\ Down.batch = {}
  BY DEF Down, WorkerState
<1>2. StreamTypeOK
  BY <1>1 DEF StreamTypeOK, Delivered
<1>3. StreamIsPublished
  BY DEF StreamIsPublished
<1>4. AnswersReachTheirWorker /\ AckedWhenComplete
  BY <1>1 DEF AnswersReachTheirWorker, AckedWhenComplete
<1>5. AckedIsComplete
  BY DEF AckedIsComplete
<1> QED BY <1>2, <1>3, <1>4, <1>5 DEF DeliveryInv

LEMMA PipelineInvariant == PipelineSpec => [](BoardInv /\ DeliveryInv)
<1>1. PipelineInit => BoardInv /\ DeliveryInv
  BY SafetyInit, DeliveryInit DEF PipelineInit
<1>2. BoardInv /\ DeliveryInv /\ [PipelineNext]_pipelineVars => (BoardInv /\ DeliveryInv)'
  BY PipelineStepIsBoardStep, TypeStep, SafetyStep, DeliveryStep DEF BoardInv
<1> QED BY <1>1, <1>2, PTL DEF PipelineSpec

-----------------------------------------------------------------------------
(* Theorems                                                                *)

\* The stream, the group, the loops and the connections keep their types, the
\* group's cursor and its pending list within the stream.
THEOREM PipelineTypeCorrect == PipelineSpec => []PipelineTypeOK
<1> DEFINE Bounded == mishaps \in 0 .. MaxMishaps
<1>1. PipelineInit => Bounded
  BY PipelineAssumption DEF PipelineInit
<1>2. Bounded /\ [PipelineNext]_pipelineVars => Bounded'
  BY PipelineAssumption
  DEF PipelineNext, Submit, Claim, Push, Loop, Post, Idling, Handle, Progress, Respond,
      RespondDouble, RespondInvalid, RespondAbort, LoopMishap, HttpTimeout, Crash, QuietFault,
      Mishap, pipelineVars
<1>3. BoardInv /\ DeliveryInv /\ Bounded => PipelineTypeOK
  BY DEF BoardInv, DeliveryInv, StreamTypeOK, PipelineTypeOK, Delivered
<1> QED BY <1>1, <1>2, <1>3, PipelineInvariant, PTL DEF PipelineSpec

\* Every pushed task is on the stream exactly once, whatever replicas crash or
\* lose.
THEOREM StreamHoldsPublished == PipelineSpec => []StreamIsPublished
BY PipelineInvariant, PTL DEF DeliveryInv

\* Late, lost and refused answers are never taken for another entry's, with
\* any number of workers, batches of any size and any number of mishaps.
THEOREM AnswersFindTheirWorker == PipelineSpec => []AnswersReachTheirWorker
BY PipelineInvariant, PTL DEF DeliveryInv

\* Delivery is at least once: an entry leaves the pending list only when its
\* task is complete, whatever crashes, goes stale or times out.
THEOREM NothingDeliveredIsForgotten == PipelineSpec => []AckedIsComplete
BY PipelineInvariant, PTL DEF DeliveryInv

\* The claim of task_manager.rs:54 fails through "$" only: when the group was
\* created before the first push, every entry is picked up or still ahead,
\* whatever crashes, goes stale or times out.
THEOREM EarlyGroupMissesNothing ==
  PipelineSpec => [](groupStart = 0 => EveryEntryPickedUp)
<1>1. DeliveryInv => (groupStart = 0 => EveryEntryPickedUp)
  BY DEF DeliveryInv, StreamTypeOK, AckedIsComplete, EveryEntryPickedUp
<1> QED
  BY <1>1, PipelineInvariant, PTL

=============================================================================
