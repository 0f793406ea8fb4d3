----------------------------- MODULE NodeRegistry -----------------------------
(***************************************************************************)
(* The nodes table and the reputation events, and the code that writes     *)
(* them: registration and heartbeats (routes/nodes.rs), the administrator  *)
(* (routes/admin.rs), the recomputation of the scores (task_manager.rs)    *)
(* and, of the result requests that TaskBoard models, the two statements   *)
(* that touch a node: the lookup and the reputation event.                 *)
(*                                                                         *)
(* Scores and deltas are counted in hundredths.  Only the events of the    *)
(* last 30 days count for a score: they are kept apart from the table, in  *)
(* the order in which they were inserted, and the oldest leaves first.     *)
(* Definitions headed "Slip:" are mistakes the properties must notice, as  *)
(* in TaskBoard.                                                           *)
(***************************************************************************)
EXTENDS Integers, Sequences, FiniteSets

CONSTANTS
  Nodes,        \* the public keys that may register
  TierChoices,  \* what the operators of the nodes set NODE_TIER to
  Admins,       \* ban requests the orchestrator can serve at a time
  Requests,     \* result requests it can serve at a time
  MaxGains,     \* bound: results of a node in 30 days
  MaxBans,      \* bound: bans of a node
  MaxFaults,    \* bound: failed statements, cancelled requests, crashes
  None          \* no node

ASSUME RegistryAssumption ==
  /\ MaxGains \in Nat /\ MaxBans \in Nat /\ MaxFaults \in Nat
  /\ None \notin Nodes
  /\ IsFiniteSet(Admins) /\ IsFiniteSet(Requests)

VARIABLES
  registered,   \* nodes that have a row
  tier,         \* nodes.tier
  banned,       \* nodes.is_banned
  recent,       \* last_seen_at is at most five minutes ago
  score,        \* nodes.reputation_score
  window,       \* reputation events of each node in the last 30 days
  banEvents,    \* ban events of each node, of any age
  bans,         \* history: how often each node was banned
  banCall,      \* where each ban request stands: the node to record, or None
  earning,      \* where each result request stands: the node it found
  faults        \* faults so far

registryVars == << registered, tier, banned, recent, score, window, banEvents,
                   bans, banCall, earning, faults >>

Fault == /\ faults < MaxFaults
         /\ faults' = faults + 1

NodeTier == {"Nano", "Edge", "Pro", "Cluster"}

\* The tier a node announces: NODE_TIER with a capital (cmd_register).
Capitalised == [nano |-> "Nano", edge |-> "Edge", pro |-> "Pro", cluster |-> "Cluster"]

Baseline == 50
CompleteDelta == 1
BanDelta == 100

\* Slip: GREATEST is left out.
CapOnly(x) == IF x > 100 THEN 100 ELSE x

\* LEAST(1.0, GREATEST(0.0, x))
Clamp(x) == IF x < 0 THEN 0 ELSE IF x > 100 THEN 100 ELSE x

EventType == {"task_complete", "ban"}

\* How many events of a type the window of n holds.
InWindow(n, type) == Cardinality({i \in DOMAIN window[n] : window[n][i] = type})

\* Baseline plus the sum of the deltas in the window.
EarnedScore(n) ==
  Clamp(Baseline + CompleteDelta * InWindow(n, "task_complete")
                 - BanDelta * InWindow(n, "ban"))

\* An event of n is inserted.
Record(n, type) == window' = [window EXCEPT ![n] = Append(@, type)]

\* A result request that serves nobody.
Free == [node |-> None, bans |-> 0]

-----------------------------------------------------------------------------

\* INSERT ... ON CONFLICT (pubkey_hex) DO UPDATE: a known node, banned or not,
\* keeps its ban and its score and takes the tier it announces.  One that is
\* no NodeTier is refused (422).
Register(n, configured) ==
  /\ configured \in DOMAIN Capitalised
  /\ registered' = registered \cup {n}
  /\ tier' = [tier EXCEPT ![n] = Capitalised[configured]]
  /\ recent' = [recent EXCEPT ![n] = TRUE]
  /\ UNCHANGED << banned, score, window, banEvents, bans, banCall, earning, faults >>

\* Any other heartbeat is a 404.
Heartbeat(n) ==
  /\ n \in registered
  /\ ~ banned[n]
  /\ recent' = [recent EXCEPT ![n] = TRUE]
  /\ UNCHANGED << registered, tier, banned, score, window, banEvents, bans, banCall, earning, faults >>

\* Five minutes pass without a word from n.
FallSilent(n) ==
  /\ recent[n]
  /\ recent' = [recent EXCEPT ![n] = FALSE]
  /\ UNCHANGED << registered, tier, banned, score, window, banEvents, bans, banCall, earning, faults >>

\* ban_node, first statement: the row, whether it is banned already or not.
BanNode(a, n) ==
  /\ banCall[a] = None
  /\ n \in registered
  /\ bans[n] < MaxBans
  /\ banned' = [banned EXCEPT ![n] = TRUE]
  /\ bans' = [bans EXCEPT ![n] = @ + 1]
  /\ banCall' = [banCall EXCEPT ![a] = n]
  /\ UNCHANGED << registered, tier, recent, score, window, banEvents, earning, faults >>

\* Slip: a ban that was lifted meanwhile is not recorded.
RecordBanInForce(a) ==
  /\ banCall[a] # None
  /\ banEvents' = IF banned[banCall[a]]
                    THEN [banEvents EXCEPT ![banCall[a]] = @ + 1] ELSE banEvents
  /\ IF banned[banCall[a]] THEN Record(banCall[a], "ban") ELSE UNCHANGED window
  /\ banCall' = [banCall EXCEPT ![a] = None]
  /\ UNCHANGED << registered, tier, banned, recent, score, bans, earning, faults >>

\* ban_node, second statement: the event.
RecordBan(a) ==
  /\ banCall[a] # None
  /\ banEvents' = [banEvents EXCEPT ![banCall[a]] = @ + 1]
  /\ Record(banCall[a], "ban")
  /\ banCall' = [banCall EXCEPT ![a] = None]
  /\ UNCHANGED << registered, tier, banned, recent, score, bans, earning, faults >>

\* The second statement fails, or the replica stops before it.
AbandonBan(a) ==
  /\ banCall[a] # None
  /\ Fault
  /\ banCall' = [banCall EXCEPT ![a] = None]
  /\ UNCHANGED << registered, tier, banned, recent, score, window, banEvents, bans, earning >>

UnbanNode(n) ==
  /\ n \in registered
  /\ banned' = [banned EXCEPT ![n] = FALSE]
  /\ UNCHANGED << registered, tier, recent, score, window, banEvents, bans, banCall, earning, faults >>

\* Slip: a banned node is found as well.
LookUpAnyNode(q, n) ==
  /\ earning[q] = Free
  /\ n \in registered
  /\ InWindow(n, "task_complete") + Cardinality({r \in Requests : earning[r].node = n}) < MaxGains
  /\ earning' = [earning EXCEPT ![q] = [node |-> n, bans |-> bans[n]]]
  /\ UNCHANGED << registered, tier, banned, recent, score, window, banEvents, bans, banCall, faults >>

\* submit_task_result finds the reporting node: registered and not banned.
LookUpNode(q, n) ==
  /\ earning[q] = Free
  /\ n \in registered
  /\ ~ banned[n]
  /\ InWindow(n, "task_complete") + Cardinality({r \in Requests : earning[r].node = n}) < MaxGains
  /\ earning' = [earning EXCEPT ![q] = [node |-> n, bans |-> bans[n]]]
  /\ UNCHANGED << registered, tier, banned, recent, score, window, banEvents, bans, banCall, faults >>

\* Some statements later it records the result; the ban is not looked at again.
RecordReputation(q) ==
  /\ earning[q] # Free
  /\ Record(earning[q].node, "task_complete")
  /\ earning' = [earning EXCEPT ![q] = Free]
  /\ UNCHANGED << registered, tier, banned, recent, score, banEvents, bans, banCall, faults >>

\* The result is refused or its request dies.
LeaveResult(q) ==
  /\ earning[q] # Free
  /\ earning' = [earning EXCEPT ![q] = Free]
  /\ UNCHANGED << registered, tier, banned, recent, score, window, banEvents, bans, banCall, faults >>

\* 30 days have passed since the oldest event in the window of n.
AgeEvent(n) ==
  /\ window[n] # << >>
  /\ window' = [window EXCEPT ![n] = Tail(@)]
  /\ UNCHANGED << registered, tier, banned, recent, score, banEvents, bans, banCall, earning, faults >>

\* Slip: the banned nodes are updated and nobody else.
RecomputeBanned ==
  /\ score' = [n \in Nodes |->
                 IF n \in registered /\ banned[n] THEN EarnedScore(n) ELSE score[n]]
  /\ UNCHANGED << registered, tier, banned, recent, window, banEvents, bans, banCall, earning, faults >>

\* One UPDATE over every node that is not banned.
RecomputeScores ==
  /\ score' = [n \in Nodes |->
                 IF n \in registered /\ ~ banned[n] THEN EarnedScore(n) ELSE score[n]]
  /\ UNCHANGED << registered, tier, banned, recent, window, banEvents, bans, banCall, earning, faults >>

-----------------------------------------------------------------------------

RegistryInit ==
  /\ registered = {}
  /\ tier = [n \in Nodes |-> "Nano"]
  /\ banned = [n \in Nodes |-> FALSE]
  /\ recent = [n \in Nodes |-> FALSE]
  /\ score = [n \in Nodes |-> Baseline]
  /\ window = [n \in Nodes |-> << >>]
  /\ banEvents = [n \in Nodes |-> 0]
  /\ bans = [n \in Nodes |-> 0]
  /\ banCall = [a \in Admins |-> None]
  /\ earning = [q \in Requests |-> Free]
  /\ faults = 0

RegistryNext ==
  \/ \E n \in Nodes : \/ \E t \in TierChoices : Register(n, t)
                      \/ Heartbeat(n) \/ FallSilent(n) \/ UnbanNode(n)
                      \/ AgeEvent(n)
  \/ \E a \in Admins : \/ \E n \in Nodes : BanNode(a, n)
                       \/ RecordBan(a) \/ AbandonBan(a)
  \/ \E q \in Requests : \/ \E n \in Nodes : LookUpNode(q, n)
                         \/ RecordReputation(q) \/ LeaveResult(q)
  \/ RecomputeScores

\* Housekeeping recomputes the scores once a minute (spawn_task_manager).
RegistrySpec ==
  /\ RegistryInit
  /\ [][RegistryNext]_registryVars
  /\ WF_registryVars(RecomputeScores)

-----------------------------------------------------------------------------
(* Properties                                                              *)

\* The tables and the requests have their types.
RegistryTypeOK ==
  /\ registered \subseteq Nodes
  /\ tier \in [Nodes -> NodeTier]
  /\ banned \in [Nodes -> BOOLEAN]
  /\ recent \in [Nodes -> BOOLEAN]
  /\ score \in [Nodes -> 0 .. 100]
  /\ window \in [Nodes -> Seq(EventType)]
  /\ banEvents \in [Nodes -> Nat]
  /\ bans \in [Nodes -> 0 .. MaxBans]
  /\ banCall \in [Admins -> registered \cup {None}]
  /\ earning \in [Requests -> [node : registered, bans : Nat] \cup {Free}]
  /\ faults \in 0 .. MaxFaults

\* A ban stops new work: a request that is being served for a banned node
\* found it before its latest ban, though the ban is not looked at again and
\* the node may register, send heartbeats and be unbanned in between
\* ("must be registered + not banned", routes/tasks.rs:56).
BannedEarnsOnlyEarlier ==
  \A q \in Requests :
    earning[q] # Free /\ banned[earning[q].node] => earning[q].bans < bans[earning[q].node]

\* Every ban has its event, or a request that is about to insert it, whoever
\* lifts the ban or bans the node again in between, as long as nothing failed
\* ("append an immutable reputation event", routes/admin.rs:56).
BanIsRecorded ==
  faults = 0 =>
    \A n \in Nodes : bans[n] = banEvents[n] + Cardinality({a \in Admins : banCall[a] = n})

NotBanned(n) == n \in registered /\ ~ banned[n]

\* The bans of the last 30 days weigh more than the results: the node belongs
\* on the administrator's list of scores below 0.3 (20 = Baseline - 30).
Marked(n) ==
  BanDelta * InWindow(n, "ban") > 20 + InWindow(n, "task_complete")

\* An unban does not clear a ban: while it is in the window and outweighs the
\* results, the score of a node that is not banned comes down below 0.3 and
\* stays there, although it was frozen for as long as the node was banned;
\* and the mark goes once the ban is 30 days old or 80 results outweigh it.
MarkFollowsWindow ==
  \A n \in Nodes :
    /\ <>[](NotBanned(n) /\ Marked(n)) => <>[](score[n] < 30)
    /\ <>[](NotBanned(n) /\ ~ Marked(n)) => <>[](score[n] >= 30)

=============================================================================
