--------------------------- MODULE NodeClient_proofs ---------------------------
(***************************************************************************)
(* For any nodes, administrators, requests, commands and crashes.  The     *)
(* registry: a ban bites every request that comes later, and leaves its    *)
(* event.  The client: its commands drive the registry as NodeRegistry     *)
(* specifies it, a settled key file is settled for good, and one machine   *)
(* is one node unless two first runs overlapped.                           *)
(***************************************************************************)
EXTENDS NodeClient, FiniteSetTheorems, TLAPS

-----------------------------------------------------------------------------
(* The registry                                                            *)

\* No request has seen more bans than there were: with it, a new ban is later
\* than every request that is being served.
SeenBansHappened ==
  \A q \in Requests : earning[q] # Free => earning[q].bans <= bans[earning[q].node]

RegistryInv == RegistryTypeOK /\ SeenBansHappened /\ BannedEarnsOnlyEarlier

LEMMA FreeIsNoNode == \A rec \in [node : registered, bans : Nat] :
                        registered \subseteq Nodes => rec # Free
BY RegistryAssumption DEF Free

LEMMA InWindowType ==
  ASSUME RegistryTypeOK, NEW n \in Nodes, NEW type
  PROVE  InWindow(n, type) \in Nat
<1> DEFINE found == {i \in DOMAIN window[n] : window[n][i] = type}
<1>1. window[n] \in Seq(EventType)
  BY DEF RegistryTypeOK
<1>2. DOMAIN window[n] = 1 .. Len(window[n]) /\ Len(window[n]) \in Nat
  BY <1>1
<1>3. IsFiniteSet(1 .. Len(window[n]))
  BY <1>2, FS_Interval
<1>4. found \subseteq 1 .. Len(window[n])
  BY <1>2
<1>5. IsFiniteSet(found)
  BY <1>3, <1>4, FS_Subset
<1>6. Cardinality(found) \in Nat
  BY <1>5, FS_CardinalityType
<1> QED BY <1>6 DEF InWindow

\* Clamp keeps a score between 0 and 100.
LEMMA ClampInRange == ASSUME NEW x \in Int PROVE Clamp(x) \in 0 .. 100
BY DEF Clamp

\* What a node announces is a tier of the orchestrator.
LEMMA AnnouncesTier ==
  ASSUME NEW c \in DOMAIN Capitalised PROVE Capitalised[c] \in NodeTier
BY DEF Capitalised, NodeTier

\* The registry starts in the invariant.
LEMMA InitEstablishes == RegistryInit => RegistryInv
BY RegistryAssumption
   DEF RegistryInit, RegistryInv, RegistryTypeOK, SeenBansHappened,
       BannedEarnsOnlyEarlier, Free, Baseline, NodeTier

\* Every step keeps it.
LEMMA StepPreserves == RegistryInv /\ [RegistryNext]_registryVars => RegistryInv'
<1> SUFFICES ASSUME RegistryInv, [RegistryNext]_registryVars PROVE RegistryInv'
  OBVIOUS
<1> USE RegistryAssumption
<1>1. ASSUME NEW n \in Nodes, NEW t \in TierChoices, Register(n, t) PROVE RegistryInv'
  <2>1. Capitalised[t] \in NodeTier
    BY <1>1, AnnouncesTier DEF Register
  <2> QED
    BY <1>1, <2>1, FreeIsNoNode
    DEF Register, RegistryInv, RegistryTypeOK, SeenBansHappened, BannedEarnsOnlyEarlier, Free
<1>2. ASSUME NEW n \in Nodes, Heartbeat(n) PROVE RegistryInv'
  BY <1>2
  DEF Heartbeat, RegistryInv, RegistryTypeOK, SeenBansHappened, BannedEarnsOnlyEarlier
<1>3. ASSUME NEW n \in Nodes, FallSilent(n) PROVE RegistryInv'
  BY <1>3
  DEF FallSilent, RegistryInv, RegistryTypeOK, SeenBansHappened, BannedEarnsOnlyEarlier
<1>4. ASSUME NEW n \in Nodes, UnbanNode(n) PROVE RegistryInv'
  BY <1>4
  DEF UnbanNode, RegistryInv, RegistryTypeOK, SeenBansHappened, BannedEarnsOnlyEarlier
<1>5. ASSUME NEW a \in Admins, NEW n \in Nodes, BanNode(a, n) PROVE RegistryInv'
  <2>1. RegistryTypeOK'
    BY <1>5 DEF BanNode, RegistryInv, RegistryTypeOK
  <2>2. ASSUME NEW q \in Requests, earning[q] # Free
        PROVE  /\ earning[q].node \in Nodes
               /\ earning[q].bans \in Nat
               /\ bans[earning[q].node] \in Nat
               /\ bans'[earning[q].node] =
                    IF earning[q].node = n THEN bans[n] + 1 ELSE bans[earning[q].node]
    BY <1>5, <2>2 DEF BanNode, RegistryInv, RegistryTypeOK
  <2>3. SeenBansHappened'
    BY <1>5, <2>2 DEF BanNode, RegistryInv, SeenBansHappened
  <2>4. BannedEarnsOnlyEarlier'
    <3> SUFFICES ASSUME NEW q \in Requests, earning[q] # Free, banned'[earning[q].node]
                 PROVE  earning[q].bans < bans'[earning[q].node]
      BY <1>5 DEF BanNode, BannedEarnsOnlyEarlier
    <3>1. CASE earning[q].node = n
      BY <2>2, <3>1 DEF RegistryInv, SeenBansHappened
    <3>2. CASE earning[q].node # n
      <4>1. banned[earning[q].node]
        BY <1>5, <2>2, <3>2 DEF BanNode, RegistryInv, RegistryTypeOK
      <4> QED BY <2>2, <3>2, <4>1 DEF RegistryInv, BannedEarnsOnlyEarlier
    <3> QED BY <3>1, <3>2
  <2> QED BY <2>1, <2>3, <2>4 DEF RegistryInv
<1>0. ASSUME NEW n \in Nodes, NEW type \in EventType, Record(n, type)
      PROVE  window' \in [Nodes -> Seq(EventType)]
  <2>1. Append(window[n], type) \in Seq(EventType)
    BY DEF RegistryInv, RegistryTypeOK
  <2> QED BY <1>0, <2>1 DEF Record, RegistryInv, RegistryTypeOK
<1>6. ASSUME NEW a \in Admins, RecordBan(a) PROVE RegistryInv'
  <2>1. window' \in [Nodes -> Seq(EventType)]
    BY <1>0, <1>6 DEF RecordBan, EventType, RegistryInv, RegistryTypeOK
  <2>2. RegistryTypeOK'
    <3>1. banEvents' \in [Nodes -> Nat]
      BY <1>6 DEF RecordBan, RegistryInv, RegistryTypeOK
    <3>2. banCall' \in [Admins -> registered \cup {None}]
      BY <1>6 DEF RecordBan, RegistryInv, RegistryTypeOK
    <3>3. UNCHANGED << registered, tier, banned, recent, score, bans, earning, faults >>
      BY <1>6 DEF RecordBan
    <3> QED BY <2>1, <3>1, <3>2, <3>3 DEF RegistryInv, RegistryTypeOK
  <2>3. SeenBansHappened' /\ BannedEarnsOnlyEarlier'
    BY <1>6 DEF RecordBan, RegistryInv, SeenBansHappened, BannedEarnsOnlyEarlier
  <2> QED BY <2>2, <2>3 DEF RegistryInv
<1>7. ASSUME NEW a \in Admins, AbandonBan(a) PROVE RegistryInv'
  BY <1>7
  DEF AbandonBan, Fault, RegistryInv, RegistryTypeOK, SeenBansHappened,
      BannedEarnsOnlyEarlier
<1>8. ASSUME NEW q \in Requests, NEW n \in Nodes, LookUpNode(q, n) PROVE RegistryInv'
  <2>1. RegistryTypeOK'
    BY <1>8 DEF LookUpNode, RegistryInv, RegistryTypeOK
  <2>2. \A r \in Requests : earning'[r] =
          IF r = q THEN [node |-> n, bans |-> bans[n]] ELSE earning[r]
    BY <1>8 DEF LookUpNode, RegistryInv, RegistryTypeOK
  <2>3. bans' = bans /\ banned' = banned /\ ~ banned[n] /\ bans[n] \in Nat
    BY <1>8 DEF LookUpNode, RegistryInv, RegistryTypeOK
  <2>4. SeenBansHappened'
    BY <2>2, <2>3 DEF RegistryInv, SeenBansHappened
  <2>5. BannedEarnsOnlyEarlier'
    BY <2>2, <2>3 DEF RegistryInv, BannedEarnsOnlyEarlier
  <2> QED BY <2>1, <2>4, <2>5 DEF RegistryInv
<1>9. ASSUME NEW q \in Requests, RecordReputation(q) PROVE RegistryInv'
  <2>1. window' \in [Nodes -> Seq(EventType)]
    BY <1>0, <1>9, FreeIsNoNode DEF RecordReputation, EventType, RegistryInv, RegistryTypeOK
  <2> QED BY <1>9, <2>1
  DEF RecordReputation, RegistryInv, RegistryTypeOK, SeenBansHappened,
      BannedEarnsOnlyEarlier
<1>10. ASSUME NEW q \in Requests, LeaveResult(q) PROVE RegistryInv'
  BY <1>10
  DEF LeaveResult, RegistryInv, RegistryTypeOK, SeenBansHappened, BannedEarnsOnlyEarlier
<1>11. CASE RecomputeScores
  <2>1. \A n \in Nodes : EarnedScore(n) \in 0 .. 100
    BY ClampInRange, InWindowType
    DEF EarnedScore, Baseline, CompleteDelta, BanDelta, RegistryInv
  <2> QED
    BY <1>11, <2>1
    DEF RecomputeScores, RegistryInv, RegistryTypeOK, SeenBansHappened,
        BannedEarnsOnlyEarlier
<1>12. CASE UNCHANGED registryVars
  BY <1>12
  DEF registryVars, RegistryInv, RegistryTypeOK, SeenBansHappened, BannedEarnsOnlyEarlier
<1>13. ASSUME NEW n \in Nodes, AgeEvent(n) PROVE RegistryInv'
  <2>1. Tail(window[n]) \in Seq(EventType)
    BY <1>13 DEF AgeEvent, RegistryInv, RegistryTypeOK
  <2> QED
    BY <1>13, <2>1
    DEF AgeEvent, RegistryInv, RegistryTypeOK, SeenBansHappened, BannedEarnsOnlyEarlier
<1> QED
  BY <1>1, <1>2, <1>3, <1>4, <1>5, <1>6, <1>7, <1>8, <1>9, <1>10, <1>11, <1>12, <1>13
  DEF RegistryNext

LEMMA RegistryInvariant == RegistrySpec => []RegistryInv
BY InitEstablishes, StepPreserves, PTL DEF RegistrySpec

\* The nodes table, the events and the requests keep their types, and a score
\* stays between 0 and 1 whatever bans and results pile up.
THEOREM RegistryTypeCorrect == RegistrySpec => []RegistryTypeOK
BY RegistryInvariant, PTL DEF RegistryInv

\* A ban stops new work, for any number of nodes, administrators, requests and
\* bans, and however registrations, unbans and results interleave.
THEOREM BanStopsNewWork == RegistrySpec => []BannedEarnsOnlyEarlier
BY RegistryInvariant, PTL DEF RegistryInv

-----------------------------------------------------------------------------
(* Every ban has its event                                                 *)

\* The ban requests that still have to record a ban of n.
Recording(n) == {a \in Admins : banCall[a] = n}

LEMMA RecordingIsFinite == \A n \in Nodes : IsFiniteSet(Recording(n))
BY FS_Subset, RegistryAssumption DEF Recording

\* A ban and the request that will record it come together, and the event
\* takes the place of the request.
LEMMA BanRecordedStep ==
  RegistryTypeOK /\ BanIsRecorded /\ [RegistryNext]_registryVars => BanIsRecorded'
<1> SUFFICES ASSUME RegistryTypeOK, BanIsRecorded, [RegistryNext]_registryVars,
                    faults' = 0, NEW m \in Nodes
             PROVE  bans'[m] = banEvents'[m] + Cardinality(Recording(m)')
  BY DEF BanIsRecorded, Recording
<1> USE RegistryAssumption
<1>1. /\ bans[m] \in Nat /\ banEvents[m] \in Nat
      /\ IsFiniteSet(Recording(m)) /\ Cardinality(Recording(m)) \in Nat
  BY RecordingIsFinite, FS_CardinalityType DEF RegistryTypeOK
<1>2. faults = 0 => bans[m] = banEvents[m] + Cardinality(Recording(m))
  BY DEF BanIsRecorded, Recording
<1>3. ASSUME NEW a \in Admins, NEW n \in Nodes, BanNode(a, n)
      PROVE  bans'[m] = banEvents'[m] + Cardinality(Recording(m)')
  <2>1. CASE n = m
    <3>1. a \notin Recording(m) /\ Recording(m)' = Recording(m) \cup {a}
      BY <1>3, <2>1 DEF BanNode, Recording, RegistryTypeOK
    <3>2. Cardinality(Recording(m)') = Cardinality(Recording(m)) + 1
      BY <1>1, <3>1, FS_AddElement
    <3>3. faults = 0 /\ bans'[m] = bans[m] + 1 /\ banEvents'[m] = banEvents[m]
      BY <1>3, <2>1 DEF BanNode, RegistryTypeOK
    <3> QED BY <1>1, <1>2, <3>2, <3>3
  <2>2. CASE n # m
    <3>1. Recording(m)' = Recording(m)
      BY <1>3, <2>2 DEF BanNode, Recording, RegistryTypeOK
    <3>2. faults = 0 /\ bans'[m] = bans[m] /\ banEvents'[m] = banEvents[m]
      BY <1>3, <2>2 DEF BanNode, RegistryTypeOK
    <3> QED BY <1>2, <3>1, <3>2
  <2> QED BY <2>1, <2>2
<1>4. ASSUME NEW a \in Admins, RecordBan(a)
      PROVE  bans'[m] = banEvents'[m] + Cardinality(Recording(m)')
  <2>1. CASE banCall[a] = m
    <3>1. a \in Recording(m) /\ Recording(m)' = Recording(m) \ {a}
      BY <1>4, <2>1 DEF RecordBan, Recording, RegistryTypeOK
    <3>2. Cardinality(Recording(m)') = Cardinality(Recording(m)) - 1
      BY <1>1, <3>1, FS_RemoveElement
    <3>3. faults = 0 /\ bans'[m] = bans[m] /\ banEvents'[m] = banEvents[m] + 1
      BY <1>4, <2>1 DEF RecordBan, RegistryTypeOK
    <3> QED BY <1>1, <1>2, <3>2, <3>3
  <2>2. CASE banCall[a] # m
    <3>1. Recording(m)' = Recording(m)
      BY <1>4, <2>2 DEF RecordBan, Recording, RegistryTypeOK
    <3>2. faults = 0 /\ bans'[m] = bans[m] /\ banEvents'[m] = banEvents[m]
      BY <1>4, <2>2 DEF RecordBan, RegistryTypeOK
    <3> QED BY <1>2, <3>1, <3>2
  <2> QED BY <2>1, <2>2
<1>5. ASSUME NEW a \in Admins, AbandonBan(a) PROVE FALSE
  BY <1>5 DEF AbandonBan, Fault, RegistryTypeOK
<1>6. CASE UNCHANGED << bans, banEvents, banCall, faults >>
  BY <1>2, <1>6 DEF Recording
<1>7. UNCHANGED << bans, banEvents, banCall, faults >>
        \/ \E a \in Admins : \/ \E n \in Nodes : BanNode(a, n)
                              \/ RecordBan(a) \/ AbandonBan(a)
  BY DEF RegistryNext, registryVars, Register, Heartbeat, FallSilent, UnbanNode,
         LookUpNode, RecordReputation, LeaveResult, AgeEvent, RecomputeScores
<1> QED BY <1>3, <1>4, <1>5, <1>6, <1>7

LEMMA BanRecordedInit == RegistryInit => BanIsRecorded
<1> SUFFICES ASSUME RegistryInit, NEW n \in Nodes
             PROVE  bans[n] = banEvents[n] + Cardinality(Recording(n))
  BY DEF BanIsRecorded, Recording
<1>1. Recording(n) = {}
  BY RegistryAssumption DEF RegistryInit, Recording
<1> QED BY <1>1, FS_EmptySet DEF RegistryInit

\* As long as nothing fails, every ban has its reputation event or a request
\* that is about to insert it, for any number of administrators who ban and
\* unban the same nodes side by side.
THEOREM BansAreRecorded == RegistrySpec => []BanIsRecorded
BY BanRecordedInit, BanRecordedStep, RegistryTypeCorrect, PTL DEF RegistrySpec

-----------------------------------------------------------------------------
(* What a ban leaves on the score                                          *)

\* The score a window earns is below 0.3 for the marked nodes only.
LEMMA EarnsBelow ==
  ASSUME RegistryTypeOK, NEW n \in Nodes
  PROVE  EarnedScore(n) < 30 <=> Marked(n)
<1>1. InWindow(n, "task_complete") \in Nat /\ InWindow(n, "ban") \in Nat
  BY InWindowType
<1> QED
  BY <1>1 DEF EarnedScore, Clamp, Marked, Baseline, CompleteDelta, BanDelta

\* A recomputation tells exactly the marked nodes from the others, whatever
\* number of results and bans the last 30 days hold: the safety half of
\* MarkFollowsWindow.
RecomputationMarks ==
  [][RecomputeScores =>
       \A n \in Nodes : NotBanned(n) => (score'[n] < 30 <=> Marked(n))]_registryVars

THEOREM ScoresFollowWindow == RegistrySpec => RecomputationMarks
<1> DEFINE Told == \A n \in Nodes : NotBanned(n) => (score'[n] < 30 <=> Marked(n))
<1>1. RegistryTypeOK /\ RecomputeScores => Told
  <2> SUFFICES ASSUME RegistryTypeOK, RecomputeScores, NEW n \in Nodes, NotBanned(n)
               PROVE  score'[n] < 30 <=> Marked(n)
    OBVIOUS
  <2>1. score'[n] = EarnedScore(n)
    BY DEF RecomputeScores, NotBanned
  <2> QED BY <2>1, EarnsBelow
<1> HIDE DEF Told
<1>2. RegistryTypeOK /\ [RegistryNext]_registryVars => [RecomputeScores => Told]_registryVars
  BY <1>1
<1>3. RegistrySpec => [][RecomputeScores => Told]_registryVars
  BY <1>2, RegistryTypeCorrect, PTL DEF RegistrySpec
<1> QED BY <1>3 DEF RecomputationMarks, Told

-----------------------------------------------------------------------------
(* The commands of the client                                              *)

Places == {"ended", "create", "write", "protect", "ready"}

\* The types of the client, and whence its keys come.
CommandTypeOK ==
  /\ keyFile \in Nodes \cup {"absent", "partial"}
  /\ command \in [Commands -> [pc : Places, key : Nodes \cup {None}]]
  /\ generated \subseteq Nodes
  /\ crashes \in Nat
  /\ keyFile \in Nodes => keyFile \in generated
  /\ \A c \in Commands :
       command[c].pc \in {"write", "protect", "ready"} => command[c].key \in generated

Single == \A k, l \in generated : k = l

\* Before the first key there is nothing to find.
NothingBeforeKey ==
  generated = {} => keyFile = "absent" /\ registered = {}

\* While the only key is being written, nobody else has one.
WrittenAlone ==
  Single =>
    \A c \in Commands :
      command[c].pc = "write" =>
        /\ keyFile = "partial"
        /\ registered = {}
        /\ \A d \in Commands \ {c} : command[d].pc \in {"ended", "create"}

\* Once it is written, the file has it.
KeysFromFile ==
  Single =>
    /\ registered \subseteq {keyFile}
    /\ \A c \in Commands : command[c].pc \in {"protect", "ready"} => command[c].key = keyFile

\* Where the file is not whole or not private, somebody is at work on it.
SomebodyFinishes ==
  crashes = 0 =>
    /\ keyFile = "partial" => \E c \in Commands : command[c].pc = "write"
    /\ keyFile # "absent" /\ keyMode # "0600" =>
         \E c \in Commands : command[c].pc \in {"write", "protect"}

ClientInv ==
  /\ CommandTypeOK
  /\ NothingBeforeKey
  /\ WrittenAlone
  /\ KeysFromFile
  /\ SomebodyFinishes

LEMMA ClientInitEstablishes == ClientInit => ClientInv
BY ClientAssumption
   DEF ClientInit, RegistryInit, ClientInv, CommandTypeOK, NothingBeforeKey, WrittenAlone,
       KeysFromFile, SomebodyFinishes, Ended, Places, Single

\* What a step of a command does to its own place and key.
LEMMA StepWrites ==
  ASSUME CommandTypeOK, NEW c \in Commands, NEW pc \in Places,
         NEW key \in Nodes \cup {None}, Step(c, pc, key)
  PROVE  /\ command' \in [Commands -> [pc : Places, key : Nodes \cup {None}]]
         /\ command'[c].pc = pc /\ command'[c].key = key
         /\ \A d \in Commands \ {c} : command'[d] = command[d]
BY DEF CommandTypeOK, Step

\* A command that ends holds nothing.
LEMMA EndWrites ==
  ASSUME CommandTypeOK, NEW c \in Commands, command' = [command EXCEPT ![c] = Ended]
  PROVE  /\ command' \in [Commands -> [pc : Places, key : Nodes \cup {None}]]
         /\ command'[c].pc = "ended"
         /\ \A d \in Commands \ {c} : command'[d] = command[d]
BY DEF CommandTypeOK, Ended, Places

LEMMA ClientStepPreserves ==
  RegistryTypeOK /\ ClientInv /\ [ClientNext]_systemVars => ClientInv'
<1> SUFFICES ASSUME RegistryTypeOK, ClientInv, ClientNext \/ UNCHANGED systemVars
             PROVE  ClientInv'
  OBVIOUS
<1> USE ClientAssumption, RegistryAssumption
<1>1. ASSUME NEW c \in Commands, LoadKey(c) PROVE ClientInv'
  <2>1. /\ command' \in [Commands -> [pc : Places, key : Nodes \cup {None}]]
        /\ command'[c].pc = "ready" /\ command'[c].key = keyFile
        /\ \A d \in Commands \ {c} : command'[d] = command[d]
    BY <1>1, StepWrites DEF LoadKey, ClientInv, Places
  <2>2. /\ command[c].pc = "ended" /\ keyFile \in generated
        /\ UNCHANGED << registered, keyFile, keyMode, generated, crashes >>
    BY <1>1 DEF LoadKey, Ended, ClientInv, CommandTypeOK, registryVars
  <2>3. CommandTypeOK'
    BY <2>1, <2>2 DEF ClientInv, CommandTypeOK
  <2>4. NothingBeforeKey' /\ KeysFromFile'
    BY <2>1, <2>2 DEF ClientInv, NothingBeforeKey, KeysFromFile, Single
  <2>5. WrittenAlone'
    BY <1>1, <2>1, <2>2 DEF LoadKey, ClientInv, WrittenAlone, Single
  <2>6. SomebodyFinishes'
    BY <2>1, <2>2 DEF ClientInv, SomebodyFinishes
  <2> QED BY <2>3, <2>4, <2>5, <2>6 DEF ClientInv
<1>2. ASSUME NEW c \in Commands, FindNoKey(c) PROVE ClientInv'
  <2>1. /\ command' \in [Commands -> [pc : Places, key : Nodes \cup {None}]]
        /\ command'[c].pc = "create"
        /\ \A d \in Commands \ {c} : command'[d] = command[d]
    BY <1>2, StepWrites DEF FindNoKey, ClientInv, Places
  <2>2. /\ command[c].pc = "ended"
        /\ UNCHANGED << registered, keyFile, keyMode, generated, crashes >>
    BY <1>2 DEF FindNoKey, Ended, registryVars
  <2>3. CommandTypeOK'
    BY <2>1, <2>2 DEF ClientInv, CommandTypeOK
  <2>4. NothingBeforeKey' /\ KeysFromFile'
    BY <2>1, <2>2 DEF ClientInv, NothingBeforeKey, KeysFromFile, Single
  <2>5. WrittenAlone'
    BY <2>1, <2>2 DEF ClientInv, WrittenAlone, Single
  <2>6. SomebodyFinishes'
    BY <2>1, <2>2 DEF ClientInv, SomebodyFinishes
  <2> QED BY <2>3, <2>4, <2>5, <2>6 DEF ClientInv
<1>3. ASSUME NEW c \in Commands, CreateKeyFile(c) PROVE ClientInv'
  <2> PICK key \in Nodes \ generated : Step(c, "write", key) /\ generated' = generated \cup {key}
    BY <1>3 DEF CreateKeyFile
  <2>1. /\ command' \in [Commands -> [pc : Places, key : Nodes \cup {None}]]
        /\ command'[c].pc = "write" /\ command'[c].key = key
        /\ \A d \in Commands \ {c} : command'[d] = command[d]
    BY <1>3, StepWrites DEF ClientInv, Places
  <2>2. keyFile' = "partial" /\ UNCHANGED << registered, crashes >>
    BY <1>3 DEF CreateKeyFile, registryVars
  <2>3. CommandTypeOK'
    BY <2>1, <2>2 DEF ClientInv, CommandTypeOK
  <2>4. Single' => /\ generated = {} /\ registered = {}
                   /\ \A d \in Commands : command[d].pc \in {"ended", "create"}
    BY DEF ClientInv, CommandTypeOK, NothingBeforeKey, Single, Places
  <2>5. NothingBeforeKey' /\ KeysFromFile'
    BY <2>1, <2>2, <2>4 DEF NothingBeforeKey, KeysFromFile
  <2>6. WrittenAlone'
    BY <2>1, <2>2, <2>4 DEF WrittenAlone
  <2>7. SomebodyFinishes'
    BY <2>1 DEF SomebodyFinishes
  <2> QED BY <2>3, <2>5, <2>6, <2>7 DEF ClientInv
<1>4. ASSUME NEW c \in Commands, WriteKey(c) PROVE ClientInv'
  <2>1. /\ command[c].pc = "write" /\ command[c].key \in generated
        /\ keyFile' = command[c].key /\ keyFile' \in Nodes
        /\ UNCHANGED << registered, keyMode, generated, crashes >>
    BY <1>4 DEF WriteKey, ClientInv, CommandTypeOK, registryVars
  <2>2. /\ command' \in [Commands -> [pc : Places, key : Nodes \cup {None}]]
        /\ command'[c].pc = "protect" /\ command'[c].key = keyFile'
        /\ \A d \in Commands \ {c} : command'[d] = command[d]
    BY <1>4, <2>1, StepWrites DEF WriteKey, ClientInv, Places
  <2>3. CommandTypeOK'
    BY <2>1, <2>2 DEF ClientInv, CommandTypeOK
  <2>4. NothingBeforeKey'
    BY <2>1 DEF ClientInv, NothingBeforeKey
  <2>5. KeysFromFile' /\ WrittenAlone'
    BY <2>1, <2>2 DEF ClientInv, KeysFromFile, WrittenAlone, Single
  <2>6. SomebodyFinishes'
    BY <2>1, <2>2 DEF ClientInv, SomebodyFinishes
  <2> QED BY <2>3, <2>4, <2>5, <2>6 DEF ClientInv
<1>5. ASSUME NEW c \in Commands, RestrictMode(c) PROVE ClientInv'
  <2>1. /\ command[c].pc = "protect" /\ command[c].key \in generated
        /\ keyMode' = "0600"
        /\ UNCHANGED << registered, keyFile, generated, crashes >>
    BY <1>5 DEF RestrictMode, ClientInv, CommandTypeOK, registryVars
  <2>2. /\ command' \in [Commands -> [pc : Places, key : Nodes \cup {None}]]
        /\ command'[c].pc = "ready" /\ command'[c].key = command[c].key
        /\ \A d \in Commands \ {c} : command'[d] = command[d]
    BY <1>5, <2>1, StepWrites DEF RestrictMode, ClientInv, CommandTypeOK, Places
  <2>3. CommandTypeOK'
    BY <2>1, <2>2 DEF ClientInv, CommandTypeOK
  <2>4. NothingBeforeKey' /\ KeysFromFile'
    BY <2>1, <2>2 DEF ClientInv, NothingBeforeKey, KeysFromFile, Single
  <2>5. WrittenAlone'
    BY <2>1, <2>2 DEF ClientInv, WrittenAlone, Single
  <2>6. SomebodyFinishes'
    BY <2>1, <2>2 DEF ClientInv, SomebodyFinishes
  <2> QED BY <2>3, <2>4, <2>5, <2>6 DEF ClientInv
<1>6. ASSUME NEW c \in Commands, AbandonKey(c) PROVE ClientInv'
  <2>1. /\ crashes' \in Nat /\ crashes' # 0
        /\ UNCHANGED << registered, keyFile, keyMode, generated >>
    BY <1>6 DEF AbandonKey, Crash, ClientInv, CommandTypeOK, registryVars
  <2>2. /\ command' \in [Commands -> [pc : Places, key : Nodes \cup {None}]]
        /\ command'[c].pc = "ended"
        /\ \A d \in Commands \ {c} : command'[d] = command[d]
    BY <1>6, EndWrites DEF AbandonKey, ClientInv
  <2>3. CommandTypeOK'
    BY <2>1, <2>2 DEF ClientInv, CommandTypeOK
  <2>4. NothingBeforeKey' /\ KeysFromFile' /\ SomebodyFinishes'
    BY <2>1, <2>2
    DEF ClientInv, NothingBeforeKey, KeysFromFile, SomebodyFinishes, Single
  <2>5. WrittenAlone'
    BY <2>1, <2>2 DEF ClientInv, WrittenAlone, Single
  <2> QED BY <2>3, <2>4, <2>5 DEF ClientInv
<1>7. ASSUME NEW c \in Commands, command[c].pc = "ready",
             command' = [command EXCEPT ![c] = Ended],
             UNCHANGED << keyFile, keyMode, generated, crashes >>,
             registered' \subseteq registered \cup {command[c].key}
      PROVE  ClientInv'
  <2>1. /\ command' \in [Commands -> [pc : Places, key : Nodes \cup {None}]]
        /\ command'[c].pc = "ended"
        /\ \A d \in Commands \ {c} : command'[d] = command[d]
    BY <1>7, EndWrites DEF ClientInv
  <2>2. /\ command[c].key \in generated
        /\ Single => /\ command[c].key = keyFile
                     /\ \A d \in Commands : command[d].pc # "write"
    BY <1>7 DEF ClientInv, CommandTypeOK, KeysFromFile, WrittenAlone
  <2>3. CommandTypeOK'
    BY <1>7, <2>1 DEF ClientInv, CommandTypeOK
  <2>4. NothingBeforeKey' /\ KeysFromFile' /\ WrittenAlone'
    BY <1>7, <2>1, <2>2
    DEF ClientInv, NothingBeforeKey, KeysFromFile, WrittenAlone, Single
  <2>5. SomebodyFinishes'
    BY <1>7, <2>1 DEF ClientInv, SomebodyFinishes
  <2> QED BY <2>3, <2>4, <2>5 DEF ClientInv
<1>8. ASSUME UNCHANGED << registered, clientVars >> PROVE ClientInv'
  BY <1>8
  DEF clientVars, ClientInv, CommandTypeOK, NothingBeforeKey, KeysFromFile, WrittenAlone,
      SomebodyFinishes, Single
<1>9. ASSUME NEW c \in Commands, NEW t \in TierChoices, RegisterCommand(c, t) PROVE ClientInv'
  BY <1>7, <1>9 DEF RegisterCommand, Register
<1>10. ASSUME NEW c \in Commands, EndCommand(c) PROVE ClientInv'
  BY <1>7, <1>10 DEF EndCommand, registryVars
<1>11. ASSUME NEW c \in Commands, NEW q \in Requests, ReportResult(c, q) PROVE ClientInv'
  BY <1>8, <1>11 DEF ReportResult, LookUpNode
<1>12. CASE RegistryAlone /\ UNCHANGED clientVars
  <2>1. registered' = registered
    BY <1>12
    DEF RegistryAlone, Heartbeat, FallSilent, UnbanNode, AgeEvent, BanNode, RecordBan, AbandonBan,
        RecordReputation, LeaveResult, RecomputeScores
  <2> QED BY <1>8, <1>12, <2>1
<1>13. CASE UNCHANGED systemVars
  BY <1>8, <1>13 DEF systemVars, registryVars
<1> QED
  BY <1>1, <1>2, <1>3, <1>4, <1>5, <1>6, <1>9, <1>10, <1>11, <1>12, <1>13 DEF ClientNext

\* Every step of a command is a step of the registry or leaves it alone.
LEMMA ClientStepIsRegistryStep ==
  ClientInv /\ [ClientNext]_systemVars => [RegistryNext]_registryVars
<1> SUFFICES ASSUME ClientInv, ClientNext \/ UNCHANGED systemVars
             PROVE  RegistryNext \/ UNCHANGED registryVars
  OBVIOUS
<1>1. \A c \in Commands : command[c].pc = "ready" => command[c].key \in Nodes
  BY DEF ClientInv, CommandTypeOK
<1>2. ASSUME NEW c \in Commands, NEW t \in TierChoices, RegisterCommand(c, t) PROVE RegistryNext
  BY <1>1, <1>2 DEF RegisterCommand, RegistryNext
<1>3. ASSUME NEW c \in Commands, NEW q \in Requests, ReportResult(c, q) PROVE RegistryNext
  BY <1>1, <1>3 DEF ReportResult, RegistryNext
<1>4. ASSUME NEW c \in Commands,
             \/ LoadKey(c) \/ FindNoKey(c) \/ CreateKeyFile(c) \/ WriteKey(c)
             \/ RestrictMode(c) \/ AbandonKey(c) \/ EndCommand(c)
      PROVE  UNCHANGED registryVars
  BY <1>4
  DEF LoadKey, FindNoKey, CreateKeyFile, WriteKey, RestrictMode, AbandonKey, EndCommand
<1>5. CASE RegistryAlone
  BY <1>5 DEF RegistryAlone, RegistryNext
<1>6. CASE UNCHANGED systemVars
  BY <1>6 DEF systemVars
<1> QED BY <1>2, <1>3, <1>4, <1>5, <1>6 DEF ClientNext

LEMMA ClientInvariant == ClientSpec => [](RegistryTypeOK /\ ClientInv)
<1> DEFINE Both == RegistryInv /\ ClientInv
<1>1. ClientInit => Both
  BY InitEstablishes, ClientInitEstablishes DEF ClientInit
<1>2. Both /\ [ClientNext]_systemVars => Both'
  BY ClientStepIsRegistryStep, StepPreserves, ClientStepPreserves DEF RegistryInv
<1>3. Both => RegistryTypeOK /\ ClientInv
  BY DEF RegistryInv
<1> QED BY <1>1, <1>2, <1>3, PTL DEF ClientSpec

-----------------------------------------------------------------------------
(* Theorems                                                                *)

\* The commands of node-client, with the keys they create or load, drive the
\* registry as NodeRegistry specifies it: what holds of it holds of them.
THEOREM ClientImplementsRegistry == ClientSpec => RegistrySpec
<1>1. ClientInit => RegistryInit
  BY DEF ClientInit
<1> QED BY <1>1, ClientStepIsRegistryStep, ClientInvariant, PTL DEF ClientSpec, RegistrySpec

\* Whatever key a worker has loaded and however it comes by another one, the
\* requests that are served under a banned key are older than its latest ban.
THEOREM ClientBanStopsWork == ClientSpec => []BannedEarnsOnlyEarlier
BY ClientImplementsRegistry, BanStopsNewWork, PTL

\* Every ban is recorded, with the commands at work too.
THEOREM ClientBansAreRecorded == ClientSpec => []BanIsRecorded
BY ClientImplementsRegistry, BansAreRecorded, PTL

\* Once the key file holds a key and nobody creates one, it holds that key for
\* good, for any number of commands and crashes.
THEOREM KeyFileSettles == ClientSpec => KeyFileKept
<1>1. ASSUME ClientInv, KeySettled, ClientNext
      PROVE  keyFile' = keyFile /\ KeySettled'
  <2>1. ASSUME NEW c \in Commands, LoadKey(c) PROVE keyFile' = keyFile /\ ~ Creating'
    BY <1>1, <2>1, StepWrites DEF LoadKey, KeySettled, Creating, ClientInv, CommandTypeOK, Places
  <2>2. ASSUME NEW c \in Commands, FindNoKey(c) PROVE FALSE
    BY <1>1, <2>2, ClientAssumption DEF FindNoKey, KeySettled
  <2>3. ASSUME NEW c \in Commands,
               CreateKeyFile(c) \/ WriteKey(c) \/ RestrictMode(c) \/ AbandonKey(c)
        PROVE  FALSE
    BY <1>1, <2>3
    DEF CreateKeyFile, WriteKey, RestrictMode, AbandonKey, Crash, KeySettled, Creating
  <2>4. ASSUME NEW c \in Commands, keyFile' = keyFile, command' = [command EXCEPT ![c] = Ended]
        PROVE  ~ Creating'
    BY <1>1, <2>4, EndWrites DEF KeySettled, Creating, ClientInv
  <2>5. CASE UNCHANGED << keyFile, command >>
    BY <1>1, <2>5 DEF KeySettled, Creating
  <2>6. ASSUME NEW c \in Commands
        PROVE  /\ \A t \in TierChoices : RegisterCommand(c, t) =>
                    keyFile' = keyFile /\ command' = [command EXCEPT ![c] = Ended]
               /\ EndCommand(c) =>
                    keyFile' = keyFile /\ command' = [command EXCEPT ![c] = Ended]
               /\ \A q \in Requests : ReportResult(c, q) => UNCHANGED << keyFile, command >>
    BY DEF RegisterCommand, EndCommand, ReportResult, clientVars
  <2> QED
    BY <1>1, <2>1, <2>2, <2>3, <2>4, <2>5, <2>6 DEF ClientNext, clientVars, KeySettled
<1>2. ClientInv /\ [ClientNext]_systemVars =>
        [KeySettled => keyFile' = keyFile /\ KeySettled']_systemVars
  BY <1>1
<1> QED BY <1>2, ClientInvariant, PTL DEF ClientSpec, KeyFileKept

\* Overlapping first runs, however many, leave a whole key file that only its
\* owner may read, unless one of them died.
THEOREM KeyEndsPrivate == ClientSpec => []KeyIsWholeAndPrivate
<1>1. ClientInv => KeyIsWholeAndPrivate
  BY DEF ClientInv, CommandTypeOK, SomebodyFinishes, KeyIsWholeAndPrivate, Creating
<1> QED BY <1>1, ClientInvariant, PTL

\* One machine is one node as long as only one key was ever created.
THEOREM OneMachineOneNode == ClientSpec => []OneIdentity
<1>1. ClientInv => OneIdentity
  BY DEF ClientInv, KeysFromFile, OneIdentity, Single
<1> QED BY <1>1, ClientInvariant, PTL

=============================================================================
