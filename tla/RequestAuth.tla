------------------------------ MODULE RequestAuth ------------------------------
(***************************************************************************)
(* The signed-request middleware (orchestrator/src/middleware/auth.rs) and *)
(* its nonce table, which a housekeeping job prunes (cleanup_expired_nonces*)
(* in task_manager.rs).                                                    *)
(*                                                                         *)
(* A message is a signed request with its timestamp and its nonce; copies  *)
(* of it may arrive at any time, several of them side by side (a client or *)
(* a proxy that retries).  Every route is behind verify_signed_request;    *)
(* those under /admin are behind require_admin_signature as well, and both *)
(* layers run validate_and_consume (main.rs nests the admin router).       *)
(*                                                                         *)
(* One clock stands for the replicas' clocks and the database's; a copy    *)
(* spends at most MaxDelay between the test of its timestamp and the       *)
(* insertion of its nonce.  Time is counted in units of any length: Skew   *)
(* is MAX_CLOCK_SKEW_MS and Ttl the 60 seconds a nonce is stored for.      *)
(***************************************************************************)
EXTENDS Integers

CONSTANTS
  Messages,       \* signed requests, each with a nonce of its own
  TimestampOf,    \* X-Timestamp of each
  Admin,          \* those sent to /admin routes
  AdminSigned,    \* those whose X-Pubkey is the admin key
  Slots,          \* copies in progress at a time
  Skew,           \* MAX_CLOCK_SKEW_MS
  Ttl,            \* INTERVAL '60 seconds'
  MaxDelay,       \* longest time from the timestamp's test to the insertion
  MaxCopies,      \* bound: copies of a message that arrive
  Horizon,        \* bound: when the clock stops
  None            \* no nonce row, no message, never

ASSUME AuthAssumption ==
  /\ TimestampOf \in [Messages -> Nat]
  /\ Admin \subseteq Messages /\ AdminSigned \subseteq Messages
  /\ Skew \in Nat /\ Ttl \in Nat /\ MaxDelay \in Nat
  /\ Ttl >= 2 * Skew
  /\ MaxCopies \in Nat /\ Horizon \in Nat
  /\ None \notin Int

VARIABLES
  now,         \* the clock
  expires,     \* request_nonces: when each stored nonce expires
  copy,        \* the copies in progress
  arrived,     \* copies of each message that have arrived
  firstUse,    \* history: when each message's nonce was first inserted
  served,      \* history: how often each message reached its handler
  replays      \* history: messages refused with "nonce already used"

authVars == << now, expires, copy, arrived, firstUse, served, replays >>

Free == [pc |-> "free", msg |-> None, layer |-> "outer", since |-> 0]

Copy == [pc : {"check", "insert", "run"}, msg : Messages,
         layer : {"outer", "admin"}, since : Nat]

InWindow(m) == now - TimestampOf[m] <= Skew /\ TimestampOf[m] - now <= Skew

\* The copy in slot s is answered, or lost.
Drop(s) == copy' = [copy EXCEPT ![s] = Free]

\* Slip: the layer is mounted twice over every route.
PassTwice(s) ==
  copy' = IF copy[s].layer = "outer"
            THEN [copy EXCEPT ![s].pc = "check", ![s].layer = "admin"]
            ELSE [copy EXCEPT ![s].pc = "run"]

\* It passes a layer: on to require_admin_signature, or to its handler.
Pass(s) ==
  copy' = IF copy[s].msg \in Admin /\ copy[s].layer = "outer"
            THEN [copy EXCEPT ![s].pc = "check", ![s].layer = "admin"]
            ELSE [copy EXCEPT ![s].pc = "run"]

-----------------------------------------------------------------------------

\* A copy arrives, complete and correctly signed.  (One that is not is refused
\* before the nonce table is touched.)
Arrive(s, m) ==
  /\ copy[s].pc = "free"
  /\ arrived[m] < MaxCopies
  /\ arrived' = [arrived EXCEPT ![m] = @ + 1]
  /\ copy' = [copy EXCEPT ![s] = [pc |-> "check", msg |-> m, layer |-> "outer", since |-> 0]]
  /\ UNCHANGED << now, expires, firstUse, served, replays >>

\* require_admin_signature compares the key before it validates again.
KeyMatches(s) == copy[s].layer = "admin" => copy[s].msg \in AdminSigned

\* Slip: a request that is late by any amount passes.
CheckTimestampOneSided(s) ==
  /\ copy[s].pc = "check"
  /\ KeyMatches(s)
  /\ TimestampOf[copy[s].msg] - now <= Skew
  /\ copy' = [copy EXCEPT ![s].pc = "insert", ![s].since = now]
  /\ UNCHANGED << now, expires, arrived, firstUse, served, replays >>

CheckTimestamp(s) ==
  /\ copy[s].pc = "check"
  /\ KeyMatches(s)
  /\ InWindow(copy[s].msg)
  /\ copy' = [copy EXCEPT ![s].pc = "insert", ![s].since = now]
  /\ UNCHANGED << now, expires, arrived, firstUse, served, replays >>

\* 403 "admin key mismatch" or 401 "request expired".
Refuse(s) ==
  /\ copy[s].pc = "check"
  /\ ~ KeyMatches(s) \/ ~ InWindow(copy[s].msg)
  /\ Drop(s)
  /\ UNCHANGED << now, expires, arrived, firstUse, served, replays >>

\* Slip: the interval is taken off the current time.
ConsumeExpiredNonce(s) ==
  LET m == copy[s].msg IN
  /\ copy[s].pc = "insert"
  /\ expires[m] = None
  /\ expires' = [expires EXCEPT ![m] = now - Ttl]
  /\ firstUse' = IF firstUse[m] = None THEN [firstUse EXCEPT ![m] = now] ELSE firstUse
  /\ Pass(s)
  /\ UNCHANGED << now, arrived, served, replays >>

\* INSERT ... ON CONFLICT DO NOTHING: one row.
ConsumeNonce(s) ==
  LET m == copy[s].msg IN
  /\ copy[s].pc = "insert"
  /\ expires[m] = None
  /\ expires' = [expires EXCEPT ![m] = now + Ttl]
  /\ firstUse' = IF firstUse[m] = None THEN [firstUse EXCEPT ![m] = now] ELSE firstUse
  /\ Pass(s)
  /\ UNCHANGED << now, arrived, served, replays >>

\* Zero rows: 401 "nonce already used".
RefuseReplay(s) ==
  /\ copy[s].pc = "insert"
  /\ expires[copy[s].msg] # None
  /\ replays' = replays \cup {copy[s].msg}
  /\ Drop(s)
  /\ UNCHANGED << now, expires, arrived, firstUse, served >>

\* The handler runs.
Serve(s) ==
  /\ copy[s].pc = "run"
  /\ served' = [served EXCEPT ![copy[s].msg] = @ + 1]
  /\ Drop(s)
  /\ UNCHANGED << now, expires, arrived, firstUse, replays >>

\* The nonce store fails (500), the caller hangs up or the replica stops.
Abort(s) ==
  /\ copy[s].pc # "free"
  /\ Drop(s)
  /\ UNCHANGED << now, expires, arrived, firstUse, served, replays >>

\* Slip: a nonce is pruned as it expires.
CleanupTooEarly ==
  /\ \E m \in Messages : expires[m] # None /\ expires[m] <= now
  /\ expires' = [m \in Messages |->
                   IF expires[m] # None /\ expires[m] <= now THEN None ELSE expires[m]]
  /\ UNCHANGED << now, copy, arrived, firstUse, served, replays >>

\* Slip: the comparison is reversed.
CleanupReversed ==
  /\ \E m \in Messages : expires[m] # None /\ expires[m] > now
  /\ expires' = [m \in Messages |->
                   IF expires[m] # None /\ expires[m] > now THEN None ELSE expires[m]]
  /\ UNCHANGED << now, copy, arrived, firstUse, served, replays >>

\* DELETE FROM request_nonces WHERE expires_at < NOW().
CleanupExpiredNonces ==
  /\ \E m \in Messages : expires[m] # None /\ expires[m] < now
  /\ expires' = [m \in Messages |->
                   IF expires[m] # None /\ expires[m] < now THEN None ELSE expires[m]]
  /\ UNCHANGED << now, copy, arrived, firstUse, served, replays >>

\* Time passes, but not beyond what a copy may take for its insertion.
Tick ==
  /\ now < Horizon
  /\ \A s \in Slots : copy[s].pc = "insert" => now < copy[s].since + MaxDelay
  /\ now' = now + 1
  /\ UNCHANGED << expires, copy, arrived, firstUse, served, replays >>

-----------------------------------------------------------------------------

AuthInit ==
  /\ now = 0
  /\ expires = [m \in Messages |-> None]
  /\ copy = [s \in Slots |-> Free]
  /\ arrived = [m \in Messages |-> 0]
  /\ firstUse = [m \in Messages |-> None]
  /\ served = [m \in Messages |-> 0]
  /\ replays = {}

Middleware(s) ==
  CheckTimestamp(s) \/ Refuse(s) \/ ConsumeNonce(s) \/ RefuseReplay(s) \/ Serve(s)

AuthNext ==
  \/ \E s \in Slots, m \in Messages : Arrive(s, m)
  \/ \E s \in Slots : Middleware(s) \/ Abort(s)
  \/ CleanupExpiredNonces
  \/ Tick

AuthSpec == AuthInit /\ [][AuthNext]_authVars

\* The handlers are scheduled, the housekeeping job runs once a minute, and
\* time passes.
FairAuthSpec ==
  /\ AuthSpec
  /\ \A s \in Slots : WF_authVars(Middleware(s))
  /\ WF_authVars(CleanupExpiredNonces)
  /\ WF_authVars(Tick)

-----------------------------------------------------------------------------
(* Properties                                                              *)

\* The nonce table and the copies in progress have their types.
AuthTypeOK ==
  /\ now \in Nat
  /\ expires \in [Messages -> Nat \cup {None}]
  /\ copy \in [Slots -> Copy \cup {Free}]
  /\ arrived \in [Messages -> Nat]
  /\ firstUse \in [Messages -> Nat \cup {None}]
  /\ served \in [Messages -> Nat]
  /\ replays \subseteq Messages

\* A nonce outlives its message: as long as the timestamp of a message that
\* was used is not too old, its nonce is stored, however early the message
\* came and whenever housekeeping runs (60 s is exactly twice 30 s).
RememberedWhileFresh ==
  \A m \in Messages :
    firstUse[m] # None /\ now <= TimestampOf[m] + Skew => expires[m] # None

\* Single use ("single-use, stored for 60 s", auth.rs:7): a message is served
\* once at most, although copies of it are checked and inserted side by side
\* with the pruning, provided that the first copy comes at least MaxDelay after
\* the window opens.  One inserted earlier is pruned early enough for a copy
\* checked as the window closes, and inserted later, to be served as well.
SingleUse ==
  \A m \in Messages :
    /\ firstUse[m] # None => firstUse[m] >= TimestampOf[m] - Skew + MaxDelay
    => served[m] <= 1

\* Only a second copy is a replay: a message is refused with "nonce already
\* used" only if a copy of it arrived before ("attempt atomic insert; 0 rows =
\* already used", auth.rs:83).
ReplayedOnlyAfterUse ==
  \A m \in replays : arrived[m] > 1

\* The table does not grow for ever: housekeeping deletes every nonce in the
\* end ("prevent table bloat", task_manager.rs:283).
NoncesPruned ==
  \A m \in Messages : expires[m] # None ~> expires[m] = None

=============================================================================
