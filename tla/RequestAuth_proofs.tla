-------------------------- MODULE RequestAuth_proofs --------------------------
(***************************************************************************)
(* Proofs about RequestAuth for every set of messages, any timestamps and  *)
(* any number of copies in progress.                                       *)
(***************************************************************************)
EXTENDS RequestAuth, TLAPS

\* A copy that waits for its insertion was in its window, not long ago.
CheckedInTime ==
  \A s \in Slots :
    copy[s].pc = "insert" =>
      /\ copy[s].since <= now
      /\ now <= copy[s].since + MaxDelay
      /\ copy[s].since <= TimestampOf[copy[s].msg] + Skew
      /\ TimestampOf[copy[s].msg] - Skew <= copy[s].since

\* When a nonce was first used, and that it is only forgotten Ttl later.
Remembered ==
  \A m \in Messages :
    /\ expires[m] # None => firstUse[m] # None /\ expires[m] >= firstUse[m] + Ttl
    /\ firstUse[m] # None => TimestampOf[m] - Skew <= firstUse[m]
    /\ firstUse[m] # None /\ expires[m] = None => now > firstUse[m] + Ttl

\* A copy that has passed a layer.
Through(s, m) ==
  /\ copy[s].msg = m
  /\ copy[s].pc = "run" \/ copy[s].layer = "admin"

\* The first copy, if there was one, came after the edge of the window.
OffEdge(m) == firstUse[m] # None => firstUse[m] >= TimestampOf[m] - Skew + MaxDelay

\* What was served, and what is about to be, is one copy of a used message.
ServedOnce ==
  \A m \in Messages :
    OffEdge(m) =>
      /\ served[m] <= 1
      /\ firstUse[m] = None => served[m] = 0
      /\ \A s \in Slots : Through(s, m) => served[m] = 0 /\ firstUse[m] # None
      /\ \A s, r \in Slots : Through(s, m) /\ Through(r, m) => s = r

AuthInv == AuthTypeOK /\ CheckedInTime /\ Remembered /\ ServedOnce

LEMMA ActiveCopy ==
  ASSUME AuthTypeOK, NEW s \in Slots, copy[s].pc # "free"
  PROVE  copy[s] \in Copy /\ copy[s].msg \in Messages
<1>1. copy[s] \in Copy
  BY DEF AuthTypeOK, Free
<1> QED
  BY <1>1 DEF Copy

-----------------------------------------------------------------------------

LEMMA AuthTypeStep ==
  ASSUME AuthTypeOK, [AuthNext]_authVars
  PROVE  AuthTypeOK'
<1> USE AuthAssumption
<1>1. ASSUME NEW s \in Slots, NEW m \in Messages, Arrive(s, m)
      PROVE  AuthTypeOK'
  BY <1>1 DEF Arrive, AuthTypeOK, Copy
<1>2. ASSUME NEW s \in Slots, Drop(s)
      PROVE  copy' \in [Slots -> Copy \cup {Free}]
  BY <1>2 DEF Drop, AuthTypeOK
<1>3. ASSUME NEW s \in Slots, Middleware(s)
      PROVE  AuthTypeOK'
  <2>1. copy[s].pc # "free" /\ copy[s] \in Copy /\ copy[s].msg \in Messages
    BY <1>3, ActiveCopy
       DEF Middleware, CheckTimestamp, Refuse, ConsumeNonce, RefuseReplay, Serve
  <2>2. CASE CheckTimestamp(s)
    BY <2>1, <2>2 DEF CheckTimestamp, AuthTypeOK, Copy
  <2>3. CASE Refuse(s)
    BY <2>3, <1>2 DEF Refuse, AuthTypeOK
  <2>4. CASE ConsumeNonce(s)
    <3>1. copy' \in [Slots -> Copy \cup {Free}]
      BY <2>1, <2>4 DEF ConsumeNonce, Pass, AuthTypeOK, Copy
    <3>2. now + Ttl \in Nat
      BY DEF AuthTypeOK
    <3> QED
      BY <2>1, <2>4, <3>1, <3>2 DEF ConsumeNonce, AuthTypeOK
  <2>5. CASE RefuseReplay(s)
    BY <2>1, <2>5, <1>2 DEF RefuseReplay, AuthTypeOK
  <2>6. CASE Serve(s)
    BY <2>1, <2>6, <1>2 DEF Serve, AuthTypeOK
  <2> QED
    BY <1>3, <2>2, <2>3, <2>4, <2>5, <2>6 DEF Middleware
<1>4. ASSUME NEW s \in Slots, Abort(s)
      PROVE  AuthTypeOK'
  BY <1>4, <1>2 DEF Abort, AuthTypeOK
<1>5. CASE CleanupExpiredNonces
  BY <1>5 DEF CleanupExpiredNonces, AuthTypeOK
<1>6. CASE Tick
  BY <1>6 DEF Tick, AuthTypeOK
<1>7. CASE UNCHANGED authVars
  BY <1>7 DEF authVars, AuthTypeOK
<1> QED
  BY <1>1, <1>3, <1>4, <1>5, <1>6, <1>7 DEF AuthNext

\* While a copy of a used message waits for its insertion, the nonce of the
\* message is stored, unless the message first came at the edge.
LEMMA InsertionFinds ==
  ASSUME AuthInv, NEW s \in Slots, copy[s].pc = "insert",
         firstUse[copy[s].msg] # None, OffEdge(copy[s].msg)
  PROVE  expires[copy[s].msg] # None
<1> DEFINE m == copy[s].msg
<1>1. m \in Messages /\ copy[s].since \in Nat
  BY ActiveCopy DEF AuthInv, Copy
<1>2. /\ TimestampOf[m] \in Nat /\ Skew \in Nat /\ Ttl \in Nat /\ MaxDelay \in Nat
      /\ Ttl >= 2 * Skew
  BY <1>1, AuthAssumption
<1>3. firstUse[m] \in Nat /\ now \in Nat
  BY <1>1 DEF AuthInv, AuthTypeOK
<1>4. now <= TimestampOf[m] + Skew + MaxDelay
  BY <1>1, <1>2, <1>3 DEF AuthInv, CheckedInTime
<1>5. firstUse[m] >= TimestampOf[m] - Skew + MaxDelay
  BY DEF OffEdge
<1>6. now <= firstUse[m] + Ttl
  BY <1>2, <1>3, <1>4, <1>5
<1>7. expires[m] = None => now > firstUse[m] + Ttl
  BY <1>1 DEF AuthInv, Remembered
<1> QED
  BY <1>2, <1>3, <1>6, <1>7

-----------------------------------------------------------------------------
(* The steps                                                               *)

\* Steps that only end a copy, or start one.
LEMMA DropStep ==
  ASSUME AuthInv, NEW s \in Slots,
         UNCHANGED << now, expires, firstUse, served >>,
         \/ Drop(s)
         \/ \E m \in Messages : Arrive(s, m)
  PROVE  (CheckedInTime /\ Remembered /\ ServedOnce)'
<1> USE DEF AuthInv
<1>1. \A r \in Slots : \/ copy'[r] = copy[r]
                       \/ copy'[r].pc \in {"free", "check"} /\ copy'[r].layer = "outer"
  BY DEF Drop, Arrive, Free, AuthTypeOK
<1>2. CheckedInTime'
  BY <1>1 DEF CheckedInTime
<1>3. Remembered'
  BY DEF Remembered
<1>4. \A r \in Slots, m \in Messages : Through(r, m)' => Through(r, m)
  BY <1>1 DEF Through
<1>5. \A m \in Messages : OffEdge(m)' = OffEdge(m)
  BY DEF OffEdge
<1>6. ServedOnce'
  BY <1>4, <1>5 DEF ServedOnce
<1> QED
  BY <1>2, <1>3, <1>6

LEMMA CheckStep ==
  ASSUME AuthInv, NEW s \in Slots, CheckTimestamp(s)
  PROVE  (CheckedInTime /\ Remembered /\ ServedOnce)'
<1> USE AuthAssumption DEF AuthInv
<1>1. copy[s] \in Copy /\ copy[s].msg \in Messages
  BY ActiveCopy DEF CheckTimestamp
<1>2. /\ \A r \in Slots \ {s} : copy'[r] = copy[r]
      /\ copy'[s].pc = "insert" /\ copy'[s].msg = copy[s].msg
      /\ copy'[s].layer = copy[s].layer /\ copy'[s].since = now
      /\ UNCHANGED << now, expires, firstUse, served >>
  BY <1>1 DEF CheckTimestamp, Copy, AuthTypeOK
<1>3. CheckedInTime'
  <2>1. /\ now \in Nat /\ TimestampOf[copy[s].msg] \in Nat
        /\ Skew \in Nat /\ MaxDelay \in Nat
    BY <1>1 DEF AuthTypeOK
  <2>2. /\ now <= TimestampOf[copy[s].msg] + Skew
        /\ TimestampOf[copy[s].msg] - Skew <= now
    BY <2>1 DEF CheckTimestamp, InWindow
  <2> QED
    BY <1>2, <2>1, <2>2 DEF CheckedInTime
<1>4. Remembered'
  BY <1>2 DEF Remembered
<1>5. \A r \in Slots, m \in Messages : Through(r, m)' => Through(r, m)
  BY <1>2 DEF Through
<1>6. \A m \in Messages : OffEdge(m)' = OffEdge(m)
  BY <1>2 DEF OffEdge
<1>7. ServedOnce'
  BY <1>2, <1>5, <1>6 DEF ServedOnce
<1> QED
  BY <1>3, <1>4, <1>7

LEMMA ConsumeStep ==
  ASSUME AuthInv, NEW s \in Slots, ConsumeNonce(s)
  PROVE  (CheckedInTime /\ Remembered /\ ServedOnce)'
<1> USE AuthAssumption DEF AuthInv
<1> DEFINE m == copy[s].msg
<1>1. copy[s] \in Copy /\ m \in Messages /\ copy[s].pc = "insert"
  BY ActiveCopy DEF ConsumeNonce
<1>2. /\ now \in Nat /\ TimestampOf[m] \in Nat /\ copy[s].since \in Nat
      /\ Skew \in Nat /\ Ttl \in Nat /\ MaxDelay \in Nat
      /\ now # None /\ now + Ttl # None
  BY <1>1 DEF AuthTypeOK, Copy
<1>3. /\ \A r \in Slots \ {s} : copy'[r] = copy[r]
      /\ copy'[s].pc # "insert" /\ copy'[s].msg = m
      /\ UNCHANGED << now, served >>
  BY <1>1 DEF ConsumeNonce, Pass, Copy, AuthTypeOK
<1>4. /\ \A n \in Messages \ {m} : expires'[n] = expires[n] /\ firstUse'[n] = firstUse[n]
      /\ expires'[m] = now + Ttl
      /\ firstUse[m] = None => firstUse'[m] = now
      /\ firstUse[m] # None => firstUse'[m] = firstUse[m]
      /\ expires[m] = None
  BY <1>1 DEF ConsumeNonce, AuthTypeOK
<1>5. CheckedInTime'
  BY <1>3 DEF CheckedInTime
<1>6. Remembered'
  <2>1. TimestampOf[m] - Skew <= now
    BY <1>1, <1>2 DEF CheckedInTime
  <2>2. CASE firstUse[m] = None
    BY <1>2, <1>3, <1>4, <2>1, <2>2 DEF Remembered
  <2>3. CASE firstUse[m] # None
    <3>1. firstUse[m] \in Nat /\ now > firstUse[m] + Ttl
      BY <1>1, <1>4, <2>3 DEF Remembered, AuthTypeOK
    <3>2. now + Ttl >= firstUse[m] + Ttl
      BY <1>2, <3>1
    <3> QED
      BY <1>1, <1>2, <1>3, <1>4, <2>3, <3>2 DEF Remembered
  <2> QED
    BY <2>2, <2>3
<1>7. ServedOnce'
  <2> SUFFICES ASSUME NEW n \in Messages, OffEdge(n)'
               PROVE  /\ served'[n] <= 1
                      /\ firstUse'[n] = None => served'[n] = 0
                      /\ \A r \in Slots : Through(r, n)' => served'[n] = 0 /\ firstUse'[n] # None
                      /\ \A q, r \in Slots : Through(q, n)' /\ Through(r, n)' => q = r
    BY DEF ServedOnce
  <2>1. CASE n # m
    <3>1. OffEdge(n)
      BY <1>4, <2>1 DEF OffEdge
    <3>2. \A r \in Slots : Through(r, n)' => Through(r, n)
      BY <1>3, <2>1 DEF Through
    <3> QED
      BY <1>3, <1>4, <2>1, <3>1, <3>2 DEF ServedOnce
  <2>2. CASE n = m
    <3>1. firstUse[m] = None
      <4> SUFFICES ASSUME firstUse[m] # None PROVE FALSE
        OBVIOUS
      <4>1. OffEdge(m)
        BY <1>4, <2>2 DEF OffEdge
      <4> QED
        BY <1>1, <1>4, <4>1, InsertionFinds
    <3>2. OffEdge(m)
      BY <3>1 DEF OffEdge
    <3>3. served[m] = 0 /\ \A r \in Slots : ~ Through(r, m)
      BY <1>1, <3>1, <3>2 DEF ServedOnce
    <3>4. \A r \in Slots : Through(r, m)' => r = s
      BY <1>3, <3>3 DEF Through
    <3> QED
      BY <1>2, <1>3, <1>4, <2>2, <3>1, <3>3, <3>4
  <2> QED
    BY <2>1, <2>2
<1> QED
  BY <1>5, <1>6, <1>7

LEMMA ServeStep ==
  ASSUME AuthInv, NEW s \in Slots, Serve(s)
  PROVE  (CheckedInTime /\ Remembered /\ ServedOnce)'
<1> USE DEF AuthInv
<1>0. PICK m \in Messages : m = copy[s].msg
  BY ActiveCopy DEF Serve
<1>1. copy[s] \in Copy /\ Through(s, m)
  BY <1>0, ActiveCopy DEF Serve, Through
<1>2. /\ \A r \in Slots \ {s} : copy'[r] = copy[r]
      /\ copy'[s].pc = "free" /\ copy'[s].layer = "outer"
      /\ UNCHANGED << now, expires, firstUse >>
      /\ \A n \in Messages \ {m} : served'[n] = served[n]
      /\ served'[m] = served[m] + 1
  BY <1>0, <1>1 DEF Serve, Drop, Free, AuthTypeOK
<1>3. CheckedInTime'
  BY <1>2 DEF CheckedInTime
<1>4. Remembered'
  BY <1>2 DEF Remembered
<1>5. \A r \in Slots, n \in Messages : Through(r, n)' => r # s /\ Through(r, n)
  BY <1>2 DEF Through
<1>6. \A n \in Messages : OffEdge(n)' = OffEdge(n)
  BY <1>2 DEF OffEdge
<1>7. ServedOnce'
  <2>1. OffEdge(m) => served[m] = 0 /\ firstUse[m] # None
    BY <1>1 DEF ServedOnce
  <2>2. OffEdge(m) => \A r \in Slots : ~ Through(r, m)'
    BY <1>1, <1>5 DEF ServedOnce
  <2>3. OffEdge(m) => served'[m] = 1
    BY <1>2, <2>1
  <2>4. ASSUME NEW n \in Messages, n # m, OffEdge(n)
        PROVE  /\ served'[n] <= 1
               /\ firstUse'[n] = None => served'[n] = 0
               /\ \A r \in Slots : Through(r, n)' => served'[n] = 0 /\ firstUse'[n] # None
               /\ \A q, r \in Slots : Through(q, n)' /\ Through(r, n)' => q = r
    BY <1>2, <1>5, <2>4 DEF ServedOnce
  <2>5. ASSUME OffEdge(m)
        PROVE  /\ served'[m] <= 1
               /\ firstUse'[m] = None => served'[m] = 0
               /\ \A r \in Slots : ~ Through(r, m)'
    BY <1>2, <2>1, <2>2, <2>3, <2>5
  <2> QED
    BY <1>6, <2>4, <2>5 DEF ServedOnce
<1> QED
  BY <1>3, <1>4, <1>7

LEMMA CleanupStep ==
  ASSUME AuthInv, CleanupExpiredNonces
  PROVE  (CheckedInTime /\ Remembered /\ ServedOnce)'
<1> USE DEF AuthInv, CleanupExpiredNonces
<1>1. CheckedInTime'
  BY DEF CheckedInTime
<1>2. Remembered'
  <2> SUFFICES ASSUME NEW m \in Messages
               PROVE  /\ expires'[m] # None => /\ firstUse[m] # None
                                               /\ expires'[m] >= firstUse[m] + Ttl
                      /\ firstUse[m] # None => TimestampOf[m] - Skew <= firstUse[m]
                      /\ firstUse[m] # None /\ expires'[m] = None => now > firstUse[m] + Ttl
    BY DEF Remembered
  <2>1. CASE expires'[m] = expires[m]
    BY <2>1 DEF Remembered
  <2>2. CASE expires'[m] # expires[m]
    <3>1. expires'[m] = None /\ expires[m] # None /\ expires[m] < now
      BY <2>2
    <3>2. firstUse[m] # None /\ expires[m] >= firstUse[m] + Ttl
      BY <3>1 DEF Remembered
    <3>3. expires[m] \in Nat /\ firstUse[m] \in Nat /\ now \in Nat /\ Ttl \in Nat
      BY <3>1, <3>2, AuthAssumption DEF AuthTypeOK
    <3> QED
      BY <3>1, <3>2, <3>3 DEF Remembered
  <2> QED
    BY <2>1, <2>2
<1>3. ServedOnce'
  BY DEF ServedOnce, Through, OffEdge
<1> QED
  BY <1>1, <1>2, <1>3

LEMMA TickStep ==
  ASSUME AuthInv, Tick
  PROVE  (CheckedInTime /\ Remembered /\ ServedOnce)'
<1> USE AuthAssumption DEF AuthInv, Tick
<1>1. now \in Nat /\ now' = now + 1 /\ Ttl \in Nat /\ MaxDelay \in Nat
  BY DEF AuthTypeOK
<1>2. CheckedInTime'
  <2> SUFFICES ASSUME NEW s \in Slots, copy[s].pc = "insert"
               PROVE  /\ copy[s].since <= now + 1
                      /\ now + 1 <= copy[s].since + MaxDelay
                      /\ copy[s].since <= TimestampOf[copy[s].msg] + Skew
                      /\ TimestampOf[copy[s].msg] - Skew <= copy[s].since
    BY DEF CheckedInTime
  <2>1. copy[s].since \in Nat
    BY ActiveCopy DEF Copy
  <2>2. copy[s].since <= now /\ now < copy[s].since + MaxDelay
    BY DEF CheckedInTime
  <2> QED
    BY <1>1, <2>1, <2>2 DEF CheckedInTime
<1>3. Remembered'
  <2>1. \A m \in Messages : firstUse[m] # None => firstUse[m] \in Nat
    BY DEF AuthTypeOK
  <2> QED
    BY <1>1, <2>1 DEF Remembered
<1>4. ServedOnce'
  BY DEF ServedOnce, Through, OffEdge
<1> QED
  BY <1>2, <1>3, <1>4

-----------------------------------------------------------------------------

LEMMA AuthInvInit == AuthInit => AuthInv
<1> SUFFICES ASSUME AuthInit PROVE AuthInv
  OBVIOUS
<1>1. AuthTypeOK
  BY DEF AuthInit, AuthTypeOK
<1>2. CheckedInTime /\ Remembered /\ ServedOnce
  BY DEF AuthInit, CheckedInTime, Remembered, ServedOnce, Through, Free
<1> QED
  BY <1>1, <1>2 DEF AuthInv

LEMMA AuthInvStep ==
  ASSUME AuthInv, [AuthNext]_authVars
  PROVE  AuthInv'
<1>1. AuthTypeOK'
  BY AuthTypeStep DEF AuthInv
<1>2. ASSUME NEW s \in Slots, Middleware(s)
      PROVE  (CheckedInTime /\ Remembered /\ ServedOnce)'
  BY <1>2, CheckStep, ConsumeStep, ServeStep, DropStep
     DEF Middleware, Refuse, RefuseReplay
<1>3. ASSUME NEW s \in Slots, Abort(s)
      PROVE  (CheckedInTime /\ Remembered /\ ServedOnce)'
  BY <1>3, DropStep DEF Abort
<1>4. ASSUME NEW s \in Slots, NEW m \in Messages, Arrive(s, m)
      PROVE  (CheckedInTime /\ Remembered /\ ServedOnce)'
  BY <1>4, DropStep DEF Arrive
<1>5. CASE UNCHANGED authVars
  BY <1>1, <1>5
     DEF AuthInv, authVars, CheckedInTime, Remembered, ServedOnce, Through, OffEdge
<1> QED
  BY <1>1, <1>2, <1>3, <1>4, <1>5, CleanupStep, TickStep DEF AuthNext, AuthInv

LEMMA AuthInvariant == AuthSpec => []AuthInv
<1> QED
  BY AuthInvInit, AuthInvStep, PTL DEF AuthSpec

\* The nonce table and the copies keep their types.
THEOREM AuthTypeCorrect == AuthSpec => []AuthTypeOK
<1>1. AuthInv => AuthTypeOK
  BY DEF AuthInv
<1> QED
  BY <1>1, AuthInvariant, PTL

\* A used nonce is stored for as long as its message can pass the timestamp's
\* test, whatever the clock and the housekeeping do.
THEOREM NonceOutlivesMessage == AuthSpec => []RememberedWhileFresh
<1>1. ASSUME AuthInv PROVE RememberedWhileFresh
  <2> SUFFICES ASSUME NEW m \in Messages, firstUse[m] # None, expires[m] = None
               PROVE  ~ now <= TimestampOf[m] + Skew
    BY DEF RememberedWhileFresh
  <2>1. now > firstUse[m] + Ttl /\ TimestampOf[m] - Skew <= firstUse[m]
    BY <1>1 DEF AuthInv, Remembered
  <2>2. firstUse[m] \in Nat /\ now \in Nat
    BY <1>1 DEF AuthInv, AuthTypeOK
  <2> QED
    BY <2>1, <2>2, AuthAssumption
<1> QED
  BY <1>1, AuthInvariant, PTL

\* No message is served twice unless its first copy came within MaxDelay of
\* the window's opening.
THEOREM ServedAtMostOnce == AuthSpec => []SingleUse
<1>1. AuthInv => SingleUse
  BY DEF AuthInv, ServedOnce, SingleUse, OffEdge
<1> QED
  BY <1>1, AuthInvariant, PTL

-----------------------------------------------------------------------------
(* Who is refused as a replay                                              *)

InSlot(s, m) == copy[s].pc # "free" /\ copy[s].msg = m

\* The layer of the admin routes lets nobody through to its insertion.
OneLayer ==
  /\ Admin \cap AdminSigned = {}
  /\ \A s \in Slots :
       /\ copy[s].layer = "admin" => copy[s].msg \in Admin
       /\ copy[s].pc = "insert" => copy[s].layer = "outer"

\* The first copy of a message is alone, and finds no nonce before its own
\* insertion.
FirstCopyIsFirst ==
  \A m \in Messages :
    /\ m \in replays => arrived[m] > 1
    /\ \A s \in Slots : InSlot(s, m) => arrived[m] > 0
    /\ expires[m] # None => arrived[m] > 0
    /\ arrived[m] <= 1 =>
         /\ \A s, r \in Slots : InSlot(s, m) /\ InSlot(r, m) => s = r
         /\ \A s \in Slots :
              InSlot(s, m) /\ copy[s].pc # "run" /\ copy[s].layer = "outer" => expires[m] = None

FirstInv == AuthTypeOK /\ OneLayer /\ FirstCopyIsFirst

\* Steps after which a slot holds what it held, further on, or nothing.
LEMMA FirstCopyStays ==
  ASSUME FirstInv, NEW s \in Slots,
         \A r \in Slots \ {s} : copy'[r] = copy[r],
         copy'[s].pc # "free" =>
           /\ copy[s].pc # "free" /\ copy'[s].msg = copy[s].msg
           /\ copy'[s].layer = "outer" /\ copy'[s].pc # "run" =>
                copy[s].layer = "outer" /\ copy[s].pc # "run",
         UNCHANGED << arrived, expires >>,
         \A m \in replays' : m \in replays \/ arrived[m] > 1
  PROVE  FirstCopyIsFirst'
<1>1. \A r \in Slots, m \in Messages : InSlot(r, m)' => InSlot(r, m)
  BY DEF InSlot
<1>2. \A r \in Slots : copy'[r].pc # "free" /\ copy'[r].layer = "outer" /\ copy'[r].pc # "run" =>
                         copy[r].layer = "outer" /\ copy[r].pc # "run"
  OBVIOUS
<1>3. \A r \in Slots, m \in Messages : InSlot(r, m)' => copy'[r].pc # "free"
  BY DEF InSlot
<1> QED
  BY <1>1, <1>2, <1>3 DEF FirstInv, FirstCopyIsFirst

LEMMA FirstInvStep ==
  ASSUME FirstInv, [AuthNext]_authVars
  PROVE  FirstInv'
<1> USE DEF FirstInv
<1>1. AuthTypeOK'
  BY AuthTypeStep
<1>2. ASSUME NEW s \in Slots, Drop(s), UNCHANGED << arrived, expires >>,
             \A m \in replays' : m \in replays \/ arrived[m] > 1
      PROVE  OneLayer' /\ FirstCopyIsFirst'
  <2>1. (\A r \in Slots \ {s} : copy'[r] = copy[r]) /\ copy'[s] = Free
    BY <1>2 DEF Drop, AuthTypeOK
  <2>2. FirstCopyIsFirst'
    BY <1>2, <2>1, FirstCopyStays DEF Free
  <2>3. OneLayer'
    BY <2>1 DEF OneLayer, Free
  <2> QED BY <2>2, <2>3
<1>3. ASSUME NEW s \in Slots, NEW m \in Messages, Arrive(s, m)
      PROVE  OneLayer' /\ FirstCopyIsFirst'
  <2>1. /\ \A r \in Slots \ {s} : copy'[r] = copy[r]
        /\ copy'[s].pc = "check" /\ copy'[s].msg = m /\ copy'[s].layer = "outer"
        /\ copy[s].pc = "free"
        /\ \A n \in Messages \ {m} : arrived'[n] = arrived[n]
        /\ arrived'[m] = arrived[m] + 1 /\ arrived[m] \in Nat
        /\ UNCHANGED << expires, replays >>
    BY <1>3 DEF Arrive, AuthTypeOK
  <2>2. OneLayer'
    BY <2>1 DEF OneLayer
  <2>3. \A r \in Slots, n \in Messages : n # m /\ InSlot(r, n)' => InSlot(r, n) /\ r # s
    BY <2>1 DEF InSlot
  <2>4. ASSUME arrived'[m] <= 1
        PROVE  expires[m] = None /\ m \notin replays /\ \A r \in Slots : ~ InSlot(r, m)
    BY <2>1, <2>4 DEF FirstCopyIsFirst
  <2>5. ASSUME arrived'[m] <= 1, NEW r \in Slots, InSlot(r, m)'
        PROVE  r = s
    BY <2>1, <2>4, <2>5 DEF InSlot
  <2>6. FirstCopyIsFirst'
    <3> SUFFICES ASSUME NEW n \in Messages
                 PROVE
                   /\ n \in replays' => arrived'[n] > 1
                   /\ \A r \in Slots : InSlot(r, n)' => arrived'[n] > 0
                   /\ expires'[n] # None => arrived'[n] > 0
                   /\ arrived'[n] <= 1 =>
                        /\ \A r, q \in Slots : InSlot(r, n)' /\ InSlot(q, n)' => r = q
                        /\ \A r \in Slots :
                             InSlot(r, n)' /\ copy'[r].pc # "run" /\ copy'[r].layer = "outer" =>
                               expires'[n] = None
      BY DEF FirstCopyIsFirst
    <3>1. CASE n = m
      BY <2>1, <2>4, <2>5, <3>1 DEF FirstCopyIsFirst
    <3>2. CASE n # m
      BY <2>1, <2>3, <3>2 DEF FirstCopyIsFirst
    <3> QED BY <3>1, <3>2
  <2> QED BY <2>2, <2>6
<1>4. ASSUME NEW s \in Slots, CheckTimestamp(s)
      PROVE  OneLayer' /\ FirstCopyIsFirst'
  <2>1. copy[s] \in Copy
    BY <1>4, ActiveCopy DEF CheckTimestamp
  <2>2. /\ \A r \in Slots \ {s} : copy'[r] = copy[r]
        /\ copy[s].pc = "check" /\ copy'[s].pc = "insert" /\ copy'[s].msg = copy[s].msg
        /\ copy'[s].layer = copy[s].layer
        /\ UNCHANGED << arrived, expires, replays >>
    BY <1>4, <2>1 DEF CheckTimestamp, Copy, AuthTypeOK
  <2>3. copy[s].layer = "outer"
    BY <1>4, <2>1 DEF CheckTimestamp, KeyMatches, OneLayer, Copy
  <2>4. OneLayer'
    BY <2>2, <2>3 DEF OneLayer
  <2>5. FirstCopyIsFirst'
    BY <2>2, FirstCopyStays
  <2> QED BY <2>4, <2>5
<1>5. ASSUME NEW s \in Slots, ConsumeNonce(s)
      PROVE  OneLayer' /\ FirstCopyIsFirst'
  <2> DEFINE m == copy[s].msg
  <2>1. copy[s] \in Copy /\ m \in Messages /\ copy[s].pc = "insert" /\ copy[s].layer = "outer"
    BY <1>5, ActiveCopy DEF ConsumeNonce, OneLayer
  <2>2. /\ \A r \in Slots \ {s} : copy'[r] = copy[r]
        /\ copy'[s].msg = m
        /\ \/ copy'[s].pc = "run" /\ copy'[s].layer = "outer"
           \/ copy'[s].pc = "check" /\ copy'[s].layer = "admin" /\ m \in Admin
        /\ \A n \in Messages \ {m} : expires'[n] = expires[n]
        /\ UNCHANGED << arrived, replays >>
    BY <1>5, <2>1 DEF ConsumeNonce, Pass, Copy, AuthTypeOK
  <2>3. OneLayer'
    BY <2>2 DEF OneLayer
  <2>4. /\ InSlot(s, m)
        /\ \A r \in Slots, n \in Messages : InSlot(r, n)' => InSlot(r, n)
        /\ \A r \in Slots, n \in Messages : n # m /\ InSlot(r, n)' => r # s
    BY <2>1, <2>2 DEF InSlot
  <2>5. FirstCopyIsFirst'
    <3> SUFFICES ASSUME NEW n \in Messages
                 PROVE
                   /\ n \in replays' => arrived'[n] > 1
                   /\ \A r \in Slots : InSlot(r, n)' => arrived'[n] > 0
                   /\ expires'[n] # None => arrived'[n] > 0
                   /\ arrived'[n] <= 1 =>
                        /\ \A r, q \in Slots : InSlot(r, n)' /\ InSlot(q, n)' => r = q
                        /\ \A r \in Slots :
                             InSlot(r, n)' /\ copy'[r].pc # "run" /\ copy'[r].layer = "outer" =>
                               expires'[n] = None
      BY DEF FirstCopyIsFirst
    <3>1. CASE n = m
      <4>1. ASSUME arrived[n] <= 1, NEW r \in Slots, InSlot(r, n)' PROVE r = s
        BY <2>4, <3>1, <4>1 DEF FirstCopyIsFirst
      <4> QED BY <2>1, <2>2, <2>4, <3>1, <4>1 DEF FirstCopyIsFirst
    <3>2. CASE n # m
      BY <2>2, <2>4, <3>2 DEF FirstCopyIsFirst
    <3> QED BY <3>1, <3>2
  <2> QED BY <2>3, <2>5
<1>6. ASSUME NEW s \in Slots, RefuseReplay(s)
      PROVE  OneLayer' /\ FirstCopyIsFirst'
  <2>1. copy[s] \in Copy /\ copy[s].msg \in Messages /\ copy[s].layer = "outer"
    BY <1>6, ActiveCopy DEF RefuseReplay, OneLayer
  <2>2. arrived[copy[s].msg] > 1
    BY <1>6, <2>1 DEF RefuseReplay, FirstCopyIsFirst, InSlot, AuthTypeOK
  <2> QED BY <1>2, <1>6, <2>2 DEF RefuseReplay
<1>7. ASSUME NEW s \in Slots, Refuse(s) \/ Serve(s) \/ Abort(s)
      PROVE  OneLayer' /\ FirstCopyIsFirst'
  BY <1>2, <1>7 DEF Refuse, Serve, Abort
<1>8. CASE CleanupExpiredNonces
  <2>1. /\ \A m \in Messages : expires'[m] = expires[m] \/ expires'[m] = None
        /\ UNCHANGED << copy, arrived, replays >>
    BY <1>8 DEF CleanupExpiredNonces
  <2> QED BY <1>1, <2>1 DEF OneLayer, FirstCopyIsFirst, InSlot
<1>9. CASE UNCHANGED << expires, copy, arrived, replays >>
  BY <1>1, <1>9 DEF OneLayer, FirstCopyIsFirst, InSlot
<1> QED
  BY <1>1, <1>3, <1>4, <1>5, <1>6, <1>7, <1>8, <1>9
  DEF AuthNext, Middleware, Tick, authVars

\* Nobody is refused as a replay for the first copy of a message, as long as
\* the admin layer lets nobody through: only a request both layers accept the
\* key of consumes its nonce twice.
THEOREM OnlyCopiesAreReplays ==
  AuthSpec /\ Admin \cap AdminSigned = {} => []ReplayedOnlyAfterUse
<1>1. AuthInit /\ Admin \cap AdminSigned = {} => FirstInv
  BY AuthInvInit DEF AuthInit, AuthInv, FirstInv, OneLayer, FirstCopyIsFirst, InSlot, Free
<1>2. FirstInv => ReplayedOnlyAfterUse
  BY DEF FirstInv, FirstCopyIsFirst, ReplayedOnlyAfterUse, AuthTypeOK
<1> QED
  BY <1>1, <1>2, FirstInvStep, PTL DEF AuthSpec

=============================================================================
