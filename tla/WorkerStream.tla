----------------------------- MODULE WorkerStream -----------------------------
(***************************************************************************)
(* The Redis stream `subtasks`, its consumer group `node-workers`, and the *)
(* loop of node-client/src/runner.rs that every worker runs against them.  *)
(*                                                                         *)
(* An entry is its index in the stream.  The group keeps how far it has    *)
(* delivered (cursor) and its pending entries list: delivered, not yet     *)
(* acknowledged.  An entry whose idle time has passed MAX_IDLE_MS is       *)
(* stale, and XAUTOCLAIM hands it to whoever asks: which consumer holds an *)
(* entry decides nothing in this loop, so it is not kept.                  *)
(*                                                                         *)
(* A worker has one Redis connection (MultiplexedConnection), opened when   *)
(* it starts and never again.  Once it is lost every command of the loop   *)
(* fails, the errors are swallowed (unwrap_or_default), and the worker     *)
(* works off the batch it has and then turns round with nothing, until it  *)
(* is restarted.                                                           *)
(*                                                                         *)
(* The orchestrator is the environment here: it appends entries and        *)
(* answers a posted result with 2xx or not.  Definitions headed "Slip:"    *)
(* are mistakes the properties must notice, as in TaskBoard.               *)
(***************************************************************************)
EXTENDS Naturals, Sequences, FiniteSets

CONSTANTS
  Workers,      \* node-client processes, one consumer each
  BatchSize     \* COUNT of XAUTOCLAIM and XREADGROUP (5)

ASSUME StreamAssumption == BatchSize \in Nat \ {0}

VARIABLES
  stream,       \* payloads in the order they were added
  group,        \* is the consumer group there?
  groupStart,   \* last entry before the group began ("$")
  cursor,       \* last entry delivered to the group
  pel,          \* entries delivered and not acknowledged
  stale,        \* those idle for longer than MAX_IDLE_MS
  worker        \* where each worker's loop stands

redisVars  == << stream, group, groupStart, cursor, pel, stale >>
workerVars == << stream, group, groupStart, cursor, pel, stale, worker >>

Down == [pc |-> "down", batch |-> {}, link |-> FALSE]
Started == [pc |-> "claim", batch |-> {}, link |-> TRUE]

\* link: is the worker's connection to Redis alive?
WorkerState ==
  [pc : {"down", "claim", "read", "infer", "post", "ack"},
   batch : SUBSET (Nat \ {0}),
   link : BOOLEAN]

\* claimed.chain(fresh): both in stream order, and what is fresh follows what
\* was ever delivered, so the loop takes the smallest entry of the batch.
IsCurrent(w, e) ==
  e \in worker[w].batch /\ \A d \in worker[w].batch : e <= d

\* The next entry of the batch, or a new turn of the loop.
Advance(w, e) ==
  LET rest == worker[w].batch \ {e} IN
  worker' = [worker EXCEPT ![w].pc = IF rest = {} THEN "claim" ELSE "infer",
                           ![w].batch = rest]

-----------------------------------------------------------------------------
(* Redis                                                                   *)

Xadd(payload) ==
  /\ stream' = Append(stream, payload)
  /\ UNCHANGED << group, groupStart, cursor, pel, stale, worker >>

\* Time passes: an entry becomes idle enough to be claimed.
GrowStale(e) ==
  /\ e \in pel \ stale
  /\ stale' = stale \cup {e}
  /\ UNCHANGED << stream, group, groupStart, cursor, pel, worker >>

\* Slip: the claimed entries are never read out of the reply.
NothingClaimed == {}

\* XAUTOCLAIM from 0-0 with COUNT: the first stale entries, idle no more.
OldestStale ==
  {e \in stale : Cardinality({d \in stale : d <= e}) <= BatchSize}

\* Slip: the cursor advances by the whole batch size.
LastFreshUnclipped == IF group = "none" THEN cursor ELSE cursor + BatchSize

\* XREADGROUP > with COUNT: the next entries after the cursor; without the
\* group it is an error, read as no entries.
LastFresh ==
  IF group = "none" THEN cursor
  ELSE IF cursor + BatchSize <= Len(stream) THEN cursor + BatchSize
  ELSE Len(stream)

Fresh == (cursor + 1) .. LastFresh

\* Slip: entries are read with NOACK.
DeliverFreshNoAck ==
  /\ cursor' = LastFresh
  /\ pel' = pel

DeliverFresh ==
  /\ cursor' = LastFresh
  /\ pel' = pel \cup Fresh

-----------------------------------------------------------------------------
(* run_worker_loop                                                         *)

\* XGROUP CREATE subtasks node-workers $ MKSTREAM; BUSYGROUP is ignored.
StartWorker(w) ==
  /\ worker[w].pc = "down"
  /\ worker' = [worker EXCEPT ![w] = Started]
  /\ IF group = "none"
       THEN /\ group' = "created"
            /\ groupStart' = Len(stream)
            /\ cursor' = Len(stream)
       ELSE UNCHANGED << group, groupStart, cursor >>
  /\ UNCHANGED << stream, pel, stale >>

\* Every other error reply to XGROUP CREATE is ignored as well.
StartWithoutGroup(w) ==
  /\ worker[w].pc = "down"
  /\ worker' = [worker EXCEPT ![w] = Started]
  /\ UNCHANGED redisVars

\* Claim what others (or this worker itself) have left.
Autoclaim(w) ==
  /\ worker[w].pc = "claim"
  /\ worker[w].link
  /\ stale' = stale \ OldestStale
  /\ worker' = [worker EXCEPT ![w].pc = "read", ![w].batch = OldestStale]
  /\ UNCHANGED << stream, group, groupStart, cursor, pel >>

\* Read new entries; after BLOCK_MS there may be none.
ReadNew(w) ==
  LET batch == worker[w].batch \cup Fresh IN
  /\ worker[w].pc = "read"
  /\ worker[w].link
  /\ DeliverFresh
  /\ worker' = [worker EXCEPT ![w].pc = IF batch = {} THEN "claim" ELSE "infer",
                              ![w].batch = batch]
  /\ UNCHANGED << stream, group, groupStart, stale >>

\* The connection is lost, between two commands or before one is sent.
LoseConnection(w) ==
  /\ worker[w].link
  /\ worker' = [worker EXCEPT ![w].link = FALSE]
  /\ UNCHANGED redisVars

\* It is lost with the reply: the entries are claimed, and nobody has them.
AutoclaimReplyLost(w) ==
  /\ worker[w].pc = "claim"
  /\ worker[w].link
  /\ stale' = stale \ OldestStale
  /\ worker' = [worker EXCEPT ![w].pc = "read", ![w].link = FALSE]
  /\ UNCHANGED << stream, group, groupStart, cursor, pel >>

\* The same of XREADGROUP: what was claimed before is worked off.
ReadReplyLost(w) ==
  /\ worker[w].pc = "read"
  /\ worker[w].link
  /\ Fresh # {}
  /\ DeliverFresh
  /\ worker' = [worker EXCEPT ![w].pc = IF worker[w].batch = {} THEN "claim"
                                       ELSE "infer",
                              ![w].link = FALSE]
  /\ UNCHANGED << stream, group, groupStart, stale >>

\* Without a connection XREADGROUP gives no entries and XACK is ignored: the
\* loop works off its batch.  With none left it turns round at XAUTOCLAIM,
\* which fails as well, and changes nothing any more.
CommandFails(w) ==
  /\ ~ worker[w].link
  /\ \/ /\ worker[w].pc = "read"
        /\ worker' = [worker EXCEPT ![w].pc =
                        IF worker[w].batch = {} THEN "claim" ELSE "infer"]
     \/ /\ worker[w].pc = "ack"
        /\ \E e \in worker[w].batch : IsCurrent(w, e) /\ Advance(w, e)
  /\ UNCHANGED redisVars

\* process_task: the inference succeeds and the result is posted.
PostResult(w) ==
  /\ worker[w].pc = "infer"
  /\ worker' = [worker EXCEPT ![w].pc = "post"]
  /\ UNCHANGED redisVars

\* The inference fails: the entry is left unacknowledged.
InferenceFails(w, e) ==
  /\ worker[w].pc = "infer"
  /\ IsCurrent(w, e)
  /\ Advance(w, e)
  /\ UNCHANGED redisVars

\* The orchestrator answers 2xx.
AnswerOk(w, e) ==
  /\ worker[w].pc = "post"
  /\ IsCurrent(w, e)
  /\ worker' = [worker EXCEPT ![w].pc = "ack"]
  /\ UNCHANGED redisVars

\* Slip: every answer is acknowledged.
AnswerErrorAcked(w, e) ==
  /\ worker[w].pc = "post"
  /\ IsCurrent(w, e)
  /\ worker' = [worker EXCEPT ![w].pc = "ack"]
  /\ UNCHANGED redisVars

\* Any other answer, a timeout or a broken connection: left unacknowledged.
AnswerError(w, e) ==
  /\ worker[w].pc = "post"
  /\ IsCurrent(w, e)
  /\ Advance(w, e)
  /\ UNCHANGED redisVars

\* XACK removes the entry, whoever has claimed it meanwhile.
Ack(w, e) ==
  /\ worker[w].pc = "ack"
  /\ worker[w].link
  /\ IsCurrent(w, e)
  /\ pel' = pel \ {e}
  /\ stale' = stale \ {e}
  /\ Advance(w, e)
  /\ UNCHANGED << stream, group, groupStart, cursor >>

CrashWorker(w) ==
  /\ worker[w].pc # "down"
  /\ worker' = [worker EXCEPT ![w] = Down]
  /\ UNCHANGED redisVars

-----------------------------------------------------------------------------

StreamInit ==
  /\ stream = << >>
  /\ group = "none"
  /\ groupStart = 0
  /\ cursor = 0
  /\ pel = {}
  /\ stale = {}
  /\ worker = [w \in Workers |-> Down]

=============================================================================
