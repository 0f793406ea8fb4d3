------------------------- MODULE PayoutLedger_proofs -------------------------
(***************************************************************************)
(* Proofs about PayoutLedger for every tier, budget, set of results, width *)
(* of a token count, set of requests and number of faults.  A share is a   *)
(* quotient of sums over the complete rows: FiniteSums has what is needed  *)
(* of these.                                                               *)
(***************************************************************************)
EXTENDS PayoutLedger, FiniteSums

-----------------------------------------------------------------------------
(* Shares                                                                  *)

\* A report: the tokens taken in and put out.
Report == (0 .. TokenModulus - 1) \X (0 .. TokenModulus - 1)

\* Division rounds down.
LEMMA Quotient ==
  ASSUME NEW n \in Nat, NEW d \in Nat \ {0}
  PROVE  /\ n \div d \in Nat
         /\ d * (n \div d) <= n
         /\ d <= n => 1 <= n \div d
<1>1. n \div d \in Int
  OBVIOUS
<1>2. n = d * (n \div d) + (n % d) /\ 0 <= n % d /\ n % d < d
  OBVIOUS
<1>3. n \div d \in Nat
  BY <1>1, <1>2
<1> QED BY <1>1, <1>2, <1>3

\* A quotient is at least what fits into it.
LEMMA QuotientAtLeast ==
  ASSUME NEW n \in Nat, NEW d \in Nat \ {0}, NEW k \in Nat, d * k <= n
  PROVE  k <= n \div d
<1> DEFINE x == n \div d
<1>1. x \in Nat /\ n = d * x + (n % d) /\ n % d < d /\ n % d \in Nat
  BY Quotient
<1> HIDE DEF x
<1>2. ASSUME x + 1 <= k
      PROVE  FALSE
  <2>1. d * (x + 1) <= d * k
    BY <1>1, <1>2
  <2>2. d * (x + 1) = d * x + d /\ d * x \in Nat /\ d * k \in Nat
    BY <1>1
  <2> QED BY <1>1, <2>1, <2>2
<1> QED BY <1>1, <1>2 DEF x

\* The executors' part of the budget.
LEMMA PoolShape ==
   ExecutorPool(Budget) \in Nat /\ 10 * ExecutorPool(Budget) <= 7 * Budget
BY LedgerAssumption DEF ExecutorPool

\* A plan has at most five tasks, of weights between those of a Summarizer and
\* of a Planner.
LEMMA PlanShape ==
  /\ Len(Plan) \in 1 .. 5
  /\ \A t \in Tasks : Weight(Plan[t].role) \in 8 .. 20
<1>1. CASE Tier = "Standard"
  BY <1>1 DEF Plan, Tasks, SubtaskPlan, PlanStep, Weight
<1>2. CASE Tier = "Paid"
  BY <1>2 DEF Plan, Tasks, SubtaskPlan, PlanStep, Weight
<1>3. CASE Tier = "Premium"
  BY <1>3 DEF Plan, Tasks, SubtaskPlan, PlanStep, Weight
<1> QED
  BY <1>1, <1>2, <1>3, LedgerAssumption DEF JobTier

\* The multiples of the node tiers, in tenths.
LEMMA MultiplierShape ==
  \A t \in NodeTier : Multiplier(t) \in {1, 10, 30, 80}
BY DEF NodeTier, Multiplier

\* The sum of two counts has their width.
LEMMA TokensRange ==
  \A report \in Report : Tokens(report) \in 0 .. TokenModulus - 1
<1> TAKE report \in Report
<1>1. report[1] + report[2] \in Nat
  BY LedgerAssumption DEF Report
<1> QED BY <1>1, LedgerAssumption DEF Tokens

\* The tasks of a job are at most five.
LEMMA TasksFinite == IsFiniteSet(Tasks) /\ Cardinality(Tasks) <= 5
<1> DEFINE n == Len(Plan)
<1>1. n \in 1 .. 5
  BY PlanShape
<1>2. Tasks = 1 .. n
  BY DEF Tasks
<1> HIDE DEF n
<1>3. n \in Int /\ n <= 5 /\ 1 <= n
  BY <1>1
<1>4. IsFiniteSet(1 .. n) /\ Cardinality(1 .. n) = IF 1 > n THEN 0 ELSE n - 1 + 1
  BY <1>3, FS_Interval
<1> QED BY <1>2, <1>3, <1>4

\* A score: its type and its range, how it grows with the tier of the node.
LEMMA ScoreShape ==
  ASSUME NEW report \in Report, NEW t \in Tasks, NEW tier \in NodeTier
  PROVE  LET role == Plan[t].role
             edge == WeightedScore(report, role, "Edge")
             mine == WeightedScore(report, role, tier)
         IN /\ edge \in Nat /\ mine \in Nat
            /\ edge <= 200 * (TokenModulus - 1)
            /\ 10 * mine = Multiplier(tier) * edge
            /\ tier \in {"Nano", "Edge"} => mine <= edge
            /\ Tokens(report) # 0 => 8 <= mine /\ 0 < edge
<1> DEFINE k == Tokens(report)
           w == Weight(Plan[t].role)
           m == Multiplier(tier)
<1>1. k \in Nat /\ k <= TokenModulus - 1
  BY TokensRange, LedgerAssumption
<1>2. w \in 8 .. 20
  BY PlanShape
<1>3. m \in {1, 10, 30, 80} /\ (tier \in {"Nano", "Edge"} => m <= 10)
  BY DEF NodeTier, Multiplier
<1>4. Multiplier("Edge") = 10
  BY DEF Multiplier
<1>5. TokenModulus \in Nat
  BY LedgerAssumption
<1> HIDE DEF k, w, m
<1> DEFINE u == k * w
<1>6. u \in Nat /\ u <= 20 * (TokenModulus - 1) /\ (k # 0 => 8 <= u)
  <2>1. CASE k = 0
    BY <2>1, <1>1, <1>2, <1>5
  <2>2. CASE k # 0
    <3>1. u \in Nat /\ u <= k * 20 /\ k * 8 <= u
      BY <1>1, <1>2
    <3> QED BY <3>1, <2>2, <1>1, <1>5
  <2> QED BY <2>1, <2>2
<1> HIDE DEF u
<1>7. /\ u * 10 \in Nat /\ u * m \in Nat
      /\ u * 10 <= 200 * (TokenModulus - 1)
      /\ 10 * (u * m) = m * (u * 10)
      /\ m <= 10 => u * m <= u * 10
      /\ k # 0 => 8 <= u * m /\ 0 < u * 10
  BY <1>3, <1>5, <1>6
<1> QED
  BY <1>3, <1>4, <1>7 DEF WeightedScore, k, w, m, u

-----------------------------------------------------------------------------
(* The invariant                                                           *)

\* A request that is not idle.
ActiveRequest ==
  [pc : {"load", "mark", "share", "receipt"}, task : Tasks, tier : NodeTier,
   report : Report, credits : Nat, all : BOOLEAN]

\* What a receipt and a request that is not idle have in common.
IsAward(x) ==
  /\ x.task \in Tasks /\ x.tier \in NodeTier /\ x.report \in Report
  /\ x.credits \in Nat /\ x.all \in BOOLEAN

LedgerTypes ==
  /\ reported \in [Tasks -> {result.report : result \in Results} \cup {None}]
  /\ marks \in [Tasks -> Nat]
  /\ \A t \in Tasks : (marks[t] = 0) <=> (t \notin Complete)
  /\ request \in [Requests -> ActiveRequest \cup {Idle}]
  /\ \A q \in Requests :
       request[q].pc # "idle" =>
         [tier |-> request[q].tier, report |-> request[q].report] \in Results
  /\ IsFiniteSet(receipts)
  /\ \A r \in receipts : IsAward(r)
  /\ faults \in 0 .. MaxFaults

\* The score that the share of x had.
ScoreOf(x) == WeightedScore(x.report, Plan[x.task].role, x.tier)

JobScore == SumFunction([t \in Complete |-> RowScore(t)])

MarkedOnce == \A t \in Tasks : marks[t] <= 1

\* The request has marked its task and has not inserted the receipt.
Owes(q) == request[q].pc \in {"share", "receipt"}

\* A task marked once has one receipt, or one request that owes it.
OneAward ==
  /\ \A q \in Requests :
       Owes(q) =>
         /\ request[q].task \in Complete
         /\ marks[request[q].task] = 1 =>
              /\ \A p \in Requests \ {q} : Owes(p) => request[p].task # request[q].task
              /\ \A r \in receipts : r.task # request[q].task
  /\ \A r \in receipts : r.task \in Complete
  /\ \A r, s \in receipts : r.task = s.task /\ marks[r.task] = 1 => r = s

\* Before the share is computed nothing is owed, and between the mark and the
\* share the row holds the report.
SharePending ==
  \A q \in Requests :
    /\ request[q].pc \in {"load", "mark", "share"} =>
         request[q].credits = 0 /\ ~ request[q].all
    /\ request[q].pc = "share" /\ marks[request[q].task] = 1 =>
         reported[request[q].task] = request[q].report

\* What holds of a share from the moment it is computed.
FairShare(x) ==
  /\ marks[x.task] = 1 =>
       /\ reported[x.task] = x.report
       /\ 200 * x.credits <= 7 * Multiplier(x.tier) * Budget
       /\ faults = 0 /\ Tokens(x.report) # 0 => x.credits > 0
  /\ x.all => Complete = Tasks
  /\ x.all /\ MarkedOnce =>
       /\ 2 * JobScore * x.credits <= ScoreOf(x) * ExecutorPool(Budget)
       /\ JobScore = 0 => x.credits = 0

LedgerInv ==
  /\ LedgerTypes
  /\ OneAward
  /\ SharePending
  /\ \A q \in Requests : request[q].pc = "receipt" => FairShare(request[q])
  /\ \A r \in receipts : FairShare(r)

-----------------------------------------------------------------------------
(* What a share is worth                                                   *)

\* A complete row holds a report that arrived.
LEMMA RowShape ==
  ASSUME LedgerTypes, NEW t \in Complete
  PROVE  t \in Tasks /\ reported[t] \in Report /\ RowScore(t) \in Nat
<1>1. t \in Tasks /\ reported[t] \in Report
  BY LedgerAssumption DEF LedgerTypes, Complete, Report
<1> QED
  BY <1>1, ScoreShape DEF RowScore, NodeTier

\* What a request that is not idle carries.
LEMMA RequestShape ==
  ASSUME LedgerTypes, NEW q \in Requests, request[q].pc # "idle"
  PROVE  request[q] \in ActiveRequest /\ IsAward(request[q])
BY DEF LedgerTypes, ActiveRequest, IsAward, Idle

\* The score of the job is a number, no less than that of any of its rows and
\* no more than five rows can make it.
LEMMA JobScoreShape ==
  ASSUME LedgerTypes
  PROVE  /\ JobScore \in Nat
         /\ \A t \in Complete : RowScore(t) <= JobScore
         /\ JobScore <= 1000 * (TokenModulus - 1)
<1> DEFINE score == [t \in Complete |-> RowScore(t)]
           most == 200 * (TokenModulus - 1)
<1>1. IsFiniteSet(Complete) /\ Cardinality(Complete) <= 5 /\ Cardinality(Complete) \in Nat
  BY TasksFinite, FS_Subset, FS_CardinalityType DEF Complete
<1>2. score \in [Complete -> Nat]
  BY RowShape
<1>3. JobScore = Sum(score, Complete)
  BY DEF JobScore, SumFunction, Sum
<1>4. \A t \in Complete : score[t] <= most
  BY RowShape, ScoreShape DEF RowScore, NodeTier
<1>5. most \in Nat
  BY LedgerAssumption
<1>6. \A t \in Complete : score[t] = RowScore(t)
  OBVIOUS
<1> HIDE DEF score, most
<1>7. JobScore \in Nat
  BY <1>1, <1>2, <1>3, SumIsNat
<1>8. \A t \in Complete : RowScore(t) <= JobScore
  BY <1>1, <1>2, <1>3, <1>6, TermOfSum
<1>9. JobScore <= most * Cardinality(Complete)
  BY <1>1, <1>2, <1>3, <1>4, <1>5, SumAtMost
<1>10. most * Cardinality(Complete) <= most * 5 /\ most * Cardinality(Complete) \in Nat
  BY <1>1, <1>5
<1>11. JobScore <= most * 5
  BY <1>5, <1>7, <1>9, <1>10
<1> QED
  BY <1>7, <1>8, <1>11, LedgerAssumption DEF most

\* A share takes no more than its part of half of the pool, and nothing when
\* the job has no score (node_credit_share).
LEMMA ShareShape ==
  ASSUME LedgerTypes, NEW q \in Requests, request[q].pc = "share"
  PROVE  LET share == CreditShare(q, Budget) IN
         /\ share \in Nat
         /\ 2 * JobScore * share <= ScoreOf(request[q]) * ExecutorPool(Budget)
         /\ JobScore = 0 => share = 0
<1> DEFINE mine == ScoreOf(request[q])
           n == mine * ExecutorPool(Budget)
           share == CreditShare(q, Budget)
<1>1. share = IF JobScore = 0 THEN 0 ELSE n \div (2 * JobScore)
  BY DEF CreditShare, ScoreOfJob, JobScore, ScoreOf
<1>2. mine \in Nat
  BY RequestShape, ScoreShape DEF ScoreOf, IsAward
<1>3. JobScore \in Nat
  BY JobScoreShape
<1>4. n \in Nat
  BY <1>2, PoolShape
<1> HIDE DEF mine, n, share
<1>5. CASE JobScore = 0
  BY <1>1, <1>4, <1>5 DEF n, mine, share
<1>6. CASE JobScore # 0
  <2>1. 2 * JobScore \in Nat \ {0}
    BY <1>3, <1>6
  <2> QED BY <1>1, <1>4, <1>6, <2>1, Quotient DEF n, mine, share
<1> QED BY <1>5, <1>6

\* The share of a task whose row holds the report it is computed from is within
\* the node's multiple of the pool, and something for something.
LEMMA OwnShare ==
  ASSUME LedgerTypes, NEW q \in Requests, request[q].pc = "share",
         request[q].task \in Complete, reported[request[q].task] = request[q].report
  PROVE  LET share == CreditShare(q, Budget) IN
         /\ 200 * share <= 7 * Multiplier(request[q].tier) * Budget
         /\ Tokens(request[q].report) # 0 => share > 0
<1> DEFINE mine == ScoreOf(request[q])
           own == RowScore(request[q].task)
           m == Multiplier(request[q].tier)
           P == ExecutorPool(Budget)
           J == JobScore
           n == mine * P
           share == CreditShare(q, Budget)
<1>1. share = IF J = 0 THEN 0 ELSE n \div (2 * J)
  BY DEF CreditShare, ScoreOfJob, JobScore, ScoreOf
<1>2. IsAward(request[q])
  BY RequestShape
<1>3. /\ mine \in Nat /\ own \in Nat /\ 10 * mine = m * own
      /\ Tokens(request[q].report) # 0 => 8 <= mine /\ 0 < own
  BY <1>2, ScoreShape DEF ScoreOf, IsAward, RowScore
<1>4. J \in Nat /\ own <= J /\ J <= 1000 * (TokenModulus - 1)
  BY JobScoreShape
<1>5. P \in Nat /\ 10 * P <= 7 * Budget /\ P >= 250 * TokenModulus
  BY PoolShape, SmallUnit
<1>6. share \in Nat /\ 2 * J * share <= n
  BY ShareShape
<1>7. m \in Nat
  BY <1>2, MultiplierShape DEF IsAward
<1>8. TokenModulus \in Nat \ {0} /\ Budget \in Nat
  BY LedgerAssumption
<1>9. n = mine * P
  OBVIOUS
<1> HIDE DEF mine, own, m, P, J, n, share
<1>10. 200 * share <= 7 * m * Budget
  <2>1. CASE J = 0
    <3>1. share = 0
      BY <1>1, <2>1
    <3>2. 7 * m * Budget \in Nat
      BY <1>7, <1>8
    <3> QED BY <3>1, <3>2
  <2>2. CASE J # 0
    <3>1. 10 * (2 * J * share) <= (m * own) * P
      <4>1. 10 * (mine * P) = (10 * mine) * P
        BY <1>3, <1>5
      <4>2. 2 * J * share \in Nat /\ n \in Nat
        BY <1>3, <1>4, <1>5, <1>6, <1>9
      <4> QED BY <1>3, <1>6, <1>9, <4>1, <4>2
    <3>2. (m * own) * P <= J * (m * P)
      <4>1. m * P \in Nat
        BY <1>5, <1>7
      <4>2. own * (m * P) <= J * (m * P)
        BY <1>3, <1>4, <4>1
      <4>3. (m * own) * P = own * (m * P)
        BY <1>3, <1>5, <1>7
      <4> QED BY <4>2, <4>3
    <3>3. J * (20 * share) <= J * (m * P)
      <4>1. 10 * (2 * J * share) = J * (20 * share)
        BY <1>4, <1>6
      <4>2. J * (20 * share) \in Nat /\ (m * own) * P \in Nat /\ J * (m * P) \in Nat
        BY <1>3, <1>4, <1>5, <1>6, <1>7
      <4> QED BY <3>1, <3>2, <4>1, <4>2
    <3>4. 20 * share <= m * P
      <4>1. 20 * share \in Nat /\ m * P \in Nat /\ J \in Nat \ {0}
        BY <1>4, <1>5, <1>6, <1>7, <2>2
      <4> QED BY <3>3, <4>1
    <3>5. 10 * (m * P) <= m * (7 * Budget)
      <4>1. m * (10 * P) <= m * (7 * Budget)
        BY <1>5, <1>7, <1>8
      <4> QED BY <1>5, <1>7, <4>1
    <3>6. m * (7 * Budget) = 7 * m * Budget /\ m * P \in Nat /\ 7 * m * Budget \in Nat
      BY <1>5, <1>7, <1>8
    <3> QED BY <1>6, <3>4, <3>5, <3>6
  <2> QED BY <2>1, <2>2
<1>11. ASSUME Tokens(request[q].report) # 0
       PROVE  share > 0
  <2>1. 8 <= mine /\ 0 < own
    BY <1>3, <1>11
  <2>2. 2 * J \in Nat \ {0} /\ J # 0
    BY <1>3, <1>4, <2>1
  <2>3. n \in Nat
    BY <1>3, <1>5, <1>9
  <2>4. 2 * J <= 8 * P
    BY <1>4, <1>5, <1>8
  <2>5. 8 * P <= n
    BY <1>3, <1>5, <1>9, <2>1
  <2>6. 2 * J <= n
    BY <1>4, <1>5, <2>3, <2>4, <2>5
  <2>7. 1 <= n \div (2 * J)
    BY <2>2, <2>3, <2>6, Quotient
  <2> QED BY <1>1, <1>6, <2>2, <2>7
<1> QED BY <1>10, <1>11 DEF share, m

-----------------------------------------------------------------------------
(* Types                                                                   *)

\* A request that moves on, or replies, stays well typed.
LEMMA MoveType ==
  ASSUME LedgerTypes, NEW q \in Requests, request[q].pc # "idle",
         \/ \E pc \in {"load", "mark", "share", "receipt"} : Goto(q, pc)
         \/ Reply(q)
  PROVE  /\ request' \in [Requests -> ActiveRequest \cup {Idle}]
         /\ \A p \in Requests :
              request'[p].pc # "idle" =>
                [tier |-> request'[p].tier, report |-> request'[p].report] \in Results
<1>1. request[q] \in ActiveRequest
  BY RequestShape
<1>2. request \in [Requests -> ActiveRequest \cup {Idle}]
  BY DEF LedgerTypes
<1>3. \A p \in Requests :
        request[p].pc # "idle" =>
          [tier |-> request[p].tier, report |-> request[p].report] \in Results
  BY DEF LedgerTypes
<1>4. CASE \E pc \in {"load", "mark", "share", "receipt"} : Goto(q, pc)
  <2>1. PICK pc \in {"load", "mark", "share", "receipt"} : Goto(q, pc)
    BY <1>4
  <2>2. /\ [request[q] EXCEPT !.pc = pc] \in ActiveRequest
        /\ [request[q] EXCEPT !.pc = pc].tier = request[q].tier
        /\ [request[q] EXCEPT !.pc = pc].report = request[q].report
    BY <1>1 DEF ActiveRequest
  <2>3. request' = [request EXCEPT ![q] = [request[q] EXCEPT !.pc = pc]]
    BY <2>1, <1>2 DEF Goto
  <2> QED BY <1>2, <1>3, <2>2, <2>3
<1>5. CASE Reply(q)
  BY <1>2, <1>3, <1>5 DEF Reply, Idle
<1> QED BY <1>4, <1>5

\* Every step keeps the types.
LEMMA TypesKept ==
  ASSUME LedgerInv, [LedgerNext]_ledgerVars
  PROVE  LedgerTypes'
<1>1. LedgerTypes
  BY DEF LedgerInv
<1>2. ASSUME NEW q \in Requests, NEW t \in Tasks, NEW result \in Results,
             LookUpNode(q, t, result)
      PROVE  LedgerTypes'
  <2> DEFINE new == [pc |-> "load", task |-> t, tier |-> result.tier,
                     report |-> result.report, credits |-> 0, all |-> FALSE]
  <2>1. new \in ActiveRequest /\ [tier |-> new.tier, report |-> new.report] \in Results
    BY LedgerAssumption DEF ActiveRequest, Report
  <2>2. request' = [request EXCEPT ![q] = new]
    BY <1>2 DEF LookUpNode
  <2> HIDE DEF new
  <2> QED BY <1>1, <1>2, <2>1, <2>2 DEF LookUpNode, LedgerTypes, Complete, IsAward
<1>3. ASSUME NEW q \in Requests,
             LoadTask(q) \/ RefuseResult(q) \/ BudgetUnreadable(q) \/ AbortResult(q)
      PROVE  LedgerTypes'
  <2>1. request[q].pc # "idle"
    BY <1>3 DEF LoadTask, RefuseResult, BudgetUnreadable, AbortResult
  <2>2. (\E pc \in {"load", "mark", "share", "receipt"} : Goto(q, pc)) \/ Reply(q)
    BY <1>3 DEF LoadTask, RefuseResult, BudgetUnreadable, AbortResult
  <2>3. UNCHANGED << reported, marks, receipts >>
    BY <1>3 DEF LoadTask, RefuseResult, BudgetUnreadable, AbortResult
  <2>4. faults' \in 0 .. MaxFaults
    BY <1>1, <1>3, LedgerAssumption
    DEF LoadTask, RefuseResult, BudgetUnreadable, AbortResult, Fault, LedgerTypes
  <2> QED BY <1>1, <2>1, <2>2, <2>3, <2>4, MoveType DEF LedgerTypes, Complete, IsAward
<1>4. ASSUME NEW q \in Requests, MarkComplete(q)
      PROVE  LedgerTypes'
  <2>1. request[q].pc # "idle" /\ Goto(q, "share")
    BY <1>4 DEF MarkComplete
  <2> DEFINE t == request[q].task  report == request[q].report
  <2>2. t \in Tasks /\ report \in {result.report : result \in Results} /\ report # None
    <3>1. [tier |-> request[q].tier, report |-> report] \in Results
      BY <1>1, <2>1 DEF LedgerTypes
    <3> QED BY <1>1, <2>1, <3>1, RequestShape, LedgerAssumption DEF IsAward
  <2>3. reported' = [reported EXCEPT ![t] = report] /\ marks' = [marks EXCEPT ![t] = @ + 1]
        /\ UNCHANGED << receipts, faults >>
    BY <1>4 DEF MarkComplete
  <2> HIDE DEF t, report
  <2>4. reported' \in [Tasks -> {result.report : result \in Results} \cup {None}]
    BY <1>1, <2>2, <2>3 DEF LedgerTypes
  <2>5. marks' \in [Tasks -> Nat]
    BY <1>1, <2>2, <2>3 DEF LedgerTypes
  <2>6. \A u \in Tasks : (marks'[u] = 0) <=> (u \notin Complete')
    <3> TAKE u \in Tasks
    <3>1. marks[u] \in Nat /\ ((marks[u] = 0) <=> (reported[u] = None))
      BY <1>1 DEF LedgerTypes, Complete
    <3>2. CASE u = t
      <4>1. marks'[u] = marks[u] + 1 /\ reported'[u] = report
        BY <1>1, <2>2, <2>3, <3>2 DEF LedgerTypes
      <4> QED BY <2>2, <3>1, <4>1 DEF Complete
    <3>3. CASE u # t
      <4>1. marks'[u] = marks[u] /\ reported'[u] = reported[u]
        BY <1>1, <2>2, <2>3, <3>3 DEF LedgerTypes
      <4> QED BY <3>1, <4>1 DEF Complete
    <3> QED BY <3>2, <3>3
  <2>7. /\ request' \in [Requests -> ActiveRequest \cup {Idle}]
        /\ \A p \in Requests :
             request'[p].pc # "idle" =>
               [tier |-> request'[p].tier, report |-> request'[p].report] \in Results
    BY <1>1, <2>1, MoveType
  <2> QED BY <1>1, <2>3, <2>4, <2>5, <2>6, <2>7 DEF LedgerTypes, IsAward
<1>5. ASSUME NEW q \in Requests, ComputeShare(q)
      PROVE  LedgerTypes'
  <2> DEFINE share == CreditShare(q, Budget)  full == (Complete = Tasks)
             new == [request[q] EXCEPT !.pc = "receipt", !.credits = share, !.all = full]
  <2>1. request[q] \in ActiveRequest /\ share \in Nat /\ full \in BOOLEAN
    BY <1>1, <1>5, RequestShape, ShareShape DEF ComputeShare
  <2>2. request' = [request EXCEPT ![q] = new]
    BY <1>1, <1>5 DEF ComputeShare, LedgerTypes
  <2> HIDE DEF share, full
  <2>3. new \in ActiveRequest /\ new.tier = request[q].tier /\ new.report = request[q].report
    BY <2>1 DEF ActiveRequest
  <2>4. [tier |-> request[q].tier, report |-> request[q].report] \in Results
    BY <1>1, <1>5 DEF ComputeShare, LedgerTypes
  <2> HIDE DEF new
  <2>5. UNCHANGED << reported, marks, receipts, faults >>
    BY <1>5 DEF ComputeShare
  <2> QED BY <1>1, <2>2, <2>3, <2>4, <2>5 DEF LedgerTypes, Complete, IsAward
<1>6. ASSUME NEW q \in Requests, IssueReceipt(q)
      PROVE  LedgerTypes'
  <2>1. request[q].pc # "idle" /\ Reply(q) /\ UNCHANGED << reported, marks, faults >>
    BY <1>6 DEF IssueReceipt
  <2> DEFINE new == CreditReceipt(q, request[q].task)
  <2>2. receipts' = receipts \cup {new}
    BY <1>6 DEF IssueReceipt
  <2>3. IsAward(new)
    BY <1>1, <2>1, RequestShape DEF CreditReceipt, IsAward
  <2> HIDE DEF new
  <2>4. IsFiniteSet(receipts')
    BY <1>1, <2>2, FS_AddElement DEF LedgerTypes
  <2> QED BY <1>1, <2>1, <2>2, <2>3, <2>4, MoveType DEF LedgerTypes, Complete, IsAward
<1>7. CASE UNCHANGED ledgerVars
  BY <1>1, <1>7 DEF ledgerVars, LedgerTypes, Complete, IsAward
<1> QED
  BY <1>2, <1>3, <1>4, <1>5, <1>6, <1>7 DEF LedgerNext, Answer

-----------------------------------------------------------------------------
(* One award for a mark                                                    *)

\* Where the other requests stand, and what a request keeps when it moves on.
LEMMA OthersStay ==
  ASSUME LedgerTypes, NEW q \in Requests, request[q].pc # "idle",
         NEW pc \in {"load", "mark", "share", "receipt"}, Goto(q, pc)
  PROVE  /\ request'[q].pc = pc /\ request'[q].task = request[q].task
         /\ request'[q].tier = request[q].tier /\ request'[q].report = request[q].report
         /\ request'[q].credits = request[q].credits /\ request'[q].all = request[q].all
         /\ \A p \in Requests \ {q} : request'[p] = request[p]
<1>1. request[q] \in ActiveRequest /\ request \in [Requests -> ActiveRequest \cup {Idle}]
  BY RequestShape DEF LedgerTypes
<1>2. request' = [request EXCEPT ![q] = [request[q] EXCEPT !.pc = pc]]
  BY <1>1 DEF Goto
<1> QED BY <1>1, <1>2 DEF ActiveRequest

\* A request that replied is idle.
LEMMA ReplyIdles ==
  ASSUME LedgerTypes, NEW q \in Requests, Reply(q)
  PROVE  /\ request'[q].pc = "idle"
         /\ \A p \in Requests \ {q} : request'[p] = request[p]
BY DEF Reply, LedgerTypes, Idle

\* What ComputeShare leaves in the request.
LEMMA ShareSet ==
  ASSUME LedgerTypes, NEW q \in Requests, ComputeShare(q)
  PROVE  /\ request'[q].pc = "receipt" /\ request'[q].task = request[q].task
         /\ request'[q].tier = request[q].tier /\ request'[q].report = request[q].report
         /\ request'[q].credits = CreditShare(q, Budget)
         /\ request'[q].all = (Complete = Tasks)
         /\ \A p \in Requests \ {q} : request'[p] = request[p]
<1>1. request[q] \in ActiveRequest /\ request \in [Requests -> ActiveRequest \cup {Idle}]
  BY RequestShape DEF LedgerTypes, ComputeShare
<1> DEFINE share == CreditShare(q, Budget)  full == (Complete = Tasks)
<1>2. request' = [request EXCEPT ![q].pc = "receipt", ![q].credits = share, ![q].all = full]
  BY DEF ComputeShare
<1> HIDE DEF share, full
<1>3. request'[q] = [request[q] EXCEPT !.pc = "receipt", !.credits = share, !.all = full]
  BY <1>1, <1>2
<1>4. \A p \in Requests \ {q} : request'[p] = request[p]
  BY <1>1, <1>2
<1> QED BY <1>1, <1>3, <1>4 DEF ActiveRequest, share, full

\* A step that marks nothing leaves the rows, and what they add up to.
LEMMA RowsStay ==
  ASSUME UNCHANGED << reported, marks >>
  PROVE  Complete' = Complete /\ JobScore' = JobScore /\ MarkedOnce' = MarkedOnce
BY DEF Complete, JobScore, RowScore, MarkedOnce

\* What MarkComplete does to the rows: a row that was complete is marked twice,
\* and the others are as they were.
LEMMA RowMarked ==
  ASSUME LedgerTypes, NEW q \in Requests, MarkComplete(q)
  PROVE  LET t == request[q].task IN
         /\ t \in Tasks
         /\ reported'[t] = request[q].report /\ marks'[t] = marks[t] + 1
         /\ \A u \in Tasks \ {t} : reported'[u] = reported[u] /\ marks'[u] = marks[u]
         /\ Complete' = Complete \cup {t}
         /\ t \in Complete => marks'[t] > 1 /\ ~ MarkedOnce'
<1> DEFINE t == request[q].task
<1>1. request[q].pc # "idle"
  BY DEF MarkComplete
<1>2. [tier |-> request[q].tier, report |-> request[q].report] \in Results
  BY <1>1 DEF LedgerTypes
<1>3. t \in Tasks /\ request[q].report # None
  BY <1>1, <1>2, RequestShape, LedgerAssumption DEF IsAward
<1>4. /\ reported' = [reported EXCEPT ![t] = request[q].report]
      /\ marks' = [marks EXCEPT ![t] = @ + 1]
  BY DEF MarkComplete
<1> HIDE DEF t
<1>5. reported'[t] = request[q].report /\ marks'[t] = marks[t] + 1
  BY <1>3, <1>4 DEF LedgerTypes
<1>6. \A u \in Tasks \ {t} : reported'[u] = reported[u] /\ marks'[u] = marks[u]
  BY <1>3, <1>4 DEF LedgerTypes
<1>7. Complete' = Complete \cup {t}
  BY <1>3, <1>5, <1>6 DEF Complete
<1>8. ASSUME t \in Complete
      PROVE  marks'[t] > 1 /\ ~ MarkedOnce'
  <2>1. marks[t] \in Nat /\ marks[t] # 0
    BY <1>3, <1>8 DEF LedgerTypes
  <2>2. marks'[t] > 1 /\ ~ (marks'[t] <= 1)
    BY <1>5, <2>1
  <2> QED BY <1>3, <2>2 DEF MarkedOnce
<1> QED BY <1>3, <1>5, <1>6, <1>7, <1>8 DEF t

\* A task marked once keeps its one award: the first mark finds none, and later
\* the award only moves from the request to the receipt or is lost.
LEMMA OneAwardKept ==
  ASSUME LedgerInv, [LedgerNext]_ledgerVars
  PROVE  OneAward'
<1>1. LedgerTypes /\ OneAward
  BY DEF LedgerInv
<1>2. ASSUME NEW q \in Requests, NEW t \in Tasks, NEW result \in Results,
             LookUpNode(q, t, result)
      PROVE  OneAward'
  <2>1. request'[q].pc = "load" /\ \A p \in Requests \ {q} : request'[p] = request[p]
    BY <1>1, <1>2 DEF LookUpNode, LedgerTypes
  <2>2. UNCHANGED << reported, marks, receipts >>
    BY <1>2 DEF LookUpNode
  <2> QED BY <1>1, <2>1, <2>2, RowsStay DEF OneAward, Owes
<1>3. ASSUME NEW q \in Requests, LoadTask(q)
      PROVE  OneAward'
  <2>1. request'[q].pc = "mark" /\ \A p \in Requests \ {q} : request'[p] = request[p]
    BY <1>1, <1>3, OthersStay DEF LoadTask
  <2>2. UNCHANGED << reported, marks, receipts >>
    BY <1>3 DEF LoadTask
  <2> QED BY <1>1, <2>1, <2>2, RowsStay DEF OneAward, Owes
<1>4. ASSUME NEW q \in Requests, RefuseResult(q) \/ AbortResult(q)
      PROVE  OneAward'
  <2>1. request'[q].pc = "idle" /\ \A p \in Requests \ {q} : request'[p] = request[p]
    BY <1>1, <1>4, ReplyIdles DEF RefuseResult, AbortResult
  <2>2. UNCHANGED << reported, marks, receipts >>
    BY <1>4 DEF RefuseResult, AbortResult
  <2> QED BY <1>1, <2>1, <2>2, RowsStay DEF OneAward, Owes
<1>5. ASSUME NEW q \in Requests, ComputeShare(q) \/ BudgetUnreadable(q)
      PROVE  OneAward'
  <2>1. /\ request[q].pc = "share" /\ request'[q].pc = "receipt"
        /\ request'[q].task = request[q].task
        /\ \A p \in Requests \ {q} : request'[p] = request[p]
    BY <1>1, <1>5, OthersStay, ShareSet DEF ComputeShare, BudgetUnreadable
  <2>2. UNCHANGED << reported, marks, receipts >>
    BY <1>5 DEF ComputeShare, BudgetUnreadable
  <2>3. \A p \in Requests : Owes(p)' = Owes(p) /\ (Owes(p) => request'[p].task = request[p].task)
    BY <2>1 DEF Owes
  <2> QED BY <1>1, <2>2, <2>3, RowsStay DEF OneAward
<1>6. ASSUME NEW q \in Requests, MarkComplete(q)
      PROVE  OneAward'
  <2> DEFINE t == request[q].task
  <2>1. /\ request'[q].pc = "share" /\ request'[q].task = t
        /\ \A p \in Requests \ {q} : request'[p] = request[p]
    BY <1>1, <1>6, OthersStay DEF MarkComplete
  <2>2. receipts' = receipts
    BY <1>6 DEF MarkComplete
  <2>3. /\ t \in Tasks
        /\ \A u \in Tasks \ {t} : reported'[u] = reported[u] /\ marks'[u] = marks[u]
        /\ Complete' = Complete \cup {t}
        /\ t \in Complete => marks'[t] > 1
    BY <1>1, <1>6, RowMarked
  <2>4. \A r \in receipts : r.task \in Complete
    BY <1>1 DEF OneAward
  <2>5. \A p \in Requests \ {q} : Owes(p)' => Owes(p) /\ request[p].task \in Complete
    BY <1>1, <2>1 DEF OneAward, Owes
  <2>6. Complete \subseteq Tasks
    BY DEF Complete
  <2>7. marks'[t] = 1 => t \notin Complete
    BY <2>3
  <2> HIDE DEF t
  <2>8. ASSUME NEW p \in Requests, Owes(p)'
        PROVE  /\ request'[p].task \in Complete'
               /\ marks'[request'[p].task] = 1 =>
                    /\ \A o \in Requests \ {p} : Owes(o)' => request'[o].task # request'[p].task
                    /\ \A r \in receipts' : r.task # request'[p].task
    <3>1. CASE p = q
      BY <2>1, <2>2, <2>3, <2>4, <2>5, <2>7, <3>1
    <3>2. CASE p # q
      <4>1. Owes(p) /\ request'[p] = request[p] /\ request[p].task \in Complete
        BY <2>1, <2>5, <2>8, <3>2
      <4>2. CASE request[p].task = t
        BY <2>3, <2>7, <4>1, <4>2
      <4>3. CASE request[p].task # t
        <5>1. marks'[request[p].task] = marks[request[p].task]
          BY <2>3, <2>6, <4>1, <4>3
        <5>2. marks[request[p].task] = 1 =>
                /\ \A o \in Requests \ {p} : Owes(o) => request[o].task # request[p].task
                /\ \A r \in receipts : r.task # request[p].task
          BY <1>1, <4>1 DEF OneAward
        <5> QED BY <2>1, <2>2, <2>3, <2>5, <4>1, <4>3, <5>1, <5>2
      <4> QED BY <4>2, <4>3
    <3> QED BY <3>1, <3>2
  <2>9. \A r, s \in receipts : r.task = s.task /\ marks'[r.task] = 1 => r = s
    <3> SUFFICES ASSUME NEW r \in receipts, NEW s \in receipts,
                        r.task = s.task, marks'[r.task] = 1
                 PROVE  r = s
      OBVIOUS
    <3>1. r.task \in Complete /\ r.task # t
      BY <2>4, <2>7
    <3>2. marks[r.task] = 1
      BY <2>3, <2>6, <3>1
    <3> QED BY <1>1, <3>2 DEF OneAward
  <2> QED BY <2>2, <2>3, <2>4, <2>8, <2>9 DEF OneAward
<1>7. ASSUME NEW q \in Requests, IssueReceipt(q)
      PROVE  OneAward'
  <2> DEFINE new == CreditReceipt(q, request[q].task)
  <2>1. request'[q].pc = "idle" /\ \A p \in Requests \ {q} : request'[p] = request[p]
    BY <1>1, <1>7, ReplyIdles DEF IssueReceipt
  <2>2. UNCHANGED << reported, marks >> /\ receipts' = receipts \cup {new} /\ Owes(q)
    BY <1>7 DEF IssueReceipt, Owes
  <2>3. new.task = request[q].task
    BY DEF CreditReceipt
  <2> HIDE DEF new
  <2>4. \A p \in Requests : Owes(p)' => p # q /\ Owes(p) /\ request'[p] = request[p]
    BY <2>1 DEF Owes
  <2>5. new.task \in Complete
    BY <1>1, <2>2, <2>3 DEF OneAward
  <2>6. marks[new.task] = 1 =>
          /\ \A p \in Requests \ {q} : Owes(p) => request[p].task # new.task
          /\ \A r \in receipts : r.task # new.task
    BY <1>1, <2>2, <2>3 DEF OneAward
  <2> QED BY <1>1, <2>2, <2>4, <2>5, <2>6, RowsStay DEF OneAward
<1>8. CASE UNCHANGED ledgerVars
  BY <1>1, <1>8, RowsStay DEF ledgerVars, OneAward, Owes
<1> QED
  BY <1>2, <1>3, <1>4, <1>5, <1>6, <1>7, <1>8 DEF LedgerNext, Answer

-----------------------------------------------------------------------------
(* Fair shares                                                             *)

\* Between mark and share, the row holds the report of the only request that
\* marked it.
LEMMA PendingKept ==
  ASSUME LedgerInv, [LedgerNext]_ledgerVars
  PROVE  SharePending'
<1>1. LedgerTypes /\ OneAward /\ SharePending
  BY DEF LedgerInv
<1>2. ASSUME NEW q \in Requests, request'[q].pc # "share",
             request'[q].pc \in {"load", "mark"} => request'[q].credits = 0 /\ ~ request'[q].all,
             \A p \in Requests \ {q} : request'[p] = request[p],
             UNCHANGED << reported, marks >>
      PROVE  SharePending'
  BY <1>1, <1>2 DEF SharePending
<1>3. ASSUME NEW q \in Requests, NEW t \in Tasks, NEW result \in Results,
             LookUpNode(q, t, result)
      PROVE  SharePending'
  <2>1. /\ request'[q].pc = "load" /\ request'[q].credits = 0 /\ request'[q].all = FALSE
        /\ \A p \in Requests \ {q} : request'[p] = request[p]
        /\ UNCHANGED << reported, marks >>
    BY <1>1, <1>3 DEF LookUpNode, LedgerTypes
  <2> QED BY <1>2, <2>1
<1>4. ASSUME NEW q \in Requests,
             RefuseResult(q) \/ AbortResult(q) \/ BudgetUnreadable(q)
               \/ ComputeShare(q) \/ IssueReceipt(q)
      PROVE  SharePending'
  <2>1. /\ request'[q].pc \in {"idle", "receipt"}
        /\ \A p \in Requests \ {q} : request'[p] = request[p]
    BY <1>1, <1>4, OthersStay, ReplyIdles, ShareSet
    DEF RefuseResult, AbortResult, BudgetUnreadable, ComputeShare, IssueReceipt
  <2>2. UNCHANGED << reported, marks >>
    BY <1>4 DEF RefuseResult, AbortResult, BudgetUnreadable, ComputeShare, IssueReceipt
  <2> QED BY <1>2, <2>1, <2>2
<1>5. ASSUME NEW q \in Requests, LoadTask(q)
      PROVE  SharePending'
  <2>1. /\ request'[q].pc = "mark" /\ request'[q].credits = 0 /\ ~ request'[q].all
        /\ \A p \in Requests \ {q} : request'[p] = request[p]
    BY <1>1, <1>5, OthersStay DEF LoadTask, SharePending
  <2>2. UNCHANGED << reported, marks >>
    BY <1>5 DEF LoadTask
  <2> QED BY <1>2, <2>1, <2>2
<1>6. ASSUME NEW q \in Requests, MarkComplete(q)
      PROVE  SharePending'
  <2> DEFINE t == request[q].task
  <2>1. /\ request'[q].task = t /\ request'[q].report = request[q].report
        /\ request'[q].credits = request[q].credits /\ request'[q].all = request[q].all
        /\ \A p \in Requests \ {q} : request'[p] = request[p]
    BY <1>1, <1>6, OthersStay DEF MarkComplete
  <2>2. request[q].credits = 0 /\ ~ request[q].all
    BY <1>1, <1>6 DEF SharePending, MarkComplete
  <2>3. /\ t \in Tasks /\ reported'[t] = request[q].report
        /\ \A u \in Tasks \ {t} : reported'[u] = reported[u] /\ marks'[u] = marks[u]
        /\ t \in Complete => marks'[t] > 1
    BY <1>1, <1>6, RowMarked
  <2> HIDE DEF t
  <2>4. \A p \in Requests \ {q} :
          request'[p].pc \in {"load", "mark", "share"} =>
            request'[p].credits = 0 /\ ~ request'[p].all
    BY <1>1, <2>1 DEF SharePending
  <2>5. ASSUME NEW p \in Requests, p # q, request'[p].pc = "share",
               marks'[request'[p].task] = 1
        PROVE  reported'[request'[p].task] = request'[p].report
    <3>1. request'[p] = request[p] /\ request[p].pc = "share"
      BY <2>1, <2>5
    <3>2. request[p].task \in Complete /\ request[p].task \in Tasks
      BY <1>1, <3>1 DEF OneAward, Owes, Complete
    <3> QED BY <1>1, <2>3, <2>5, <3>1, <3>2 DEF SharePending
  <2> QED BY <2>1, <2>2, <2>3, <2>4, <2>5 DEF SharePending
<1>7. CASE UNCHANGED ledgerVars
  BY <1>1, <1>7 DEF ledgerVars, SharePending
<1> QED
  BY <1>3, <1>4, <1>5, <1>6, <1>7 DEF LedgerNext, Answer

\* A share that was fair when it was computed stays so: a row that is marked
\* again falls out of what is claimed, and a share of the full job finds no row
\* left to mark.
LEMMA FairKept ==
  ASSUME LedgerInv, [LedgerNext]_ledgerVars
  PROVE  /\ \A q \in Requests : request'[q].pc = "receipt" => FairShare(request[q])'
         /\ \A r \in receipts' : FairShare(r)'
<1> DEFINE Fair == /\ \A q \in Requests : request[q].pc = "receipt" => FairShare(request[q])
                   /\ \A r \in receipts : FairShare(r)
<1>1. LedgerTypes /\ OneAward /\ SharePending /\ Fair
  BY DEF LedgerInv
<1>2. ASSUME NEW q \in Requests, request'[q].pc = "receipt" => FairShare(request[q])',
             \A p \in Requests \ {q} : request'[p] = request[p],
             UNCHANGED << reported, marks, receipts >>, faults' = faults \/ faults' # 0
      PROVE  Fair'
  <2>1. Complete' = Complete /\ JobScore' = JobScore /\ MarkedOnce' = MarkedOnce
    BY <1>2, RowsStay
  <2>2. \A p \in Requests \ {q} : request'[p].pc = "receipt" => FairShare(request[p])'
    BY <1>1, <1>2, <2>1 DEF FairShare, ScoreOf
  <2>3. \A r \in receipts' : FairShare(r)'
    BY <1>1, <1>2, <2>1 DEF FairShare, ScoreOf
  <2> QED BY <1>2, <2>2, <2>3
<1>3. ASSUME NEW q \in Requests, NEW t \in Tasks, NEW result \in Results,
             LookUpNode(q, t, result)
      PROVE  Fair'
  <2>1. /\ request'[q].pc = "load" /\ \A p \in Requests \ {q} : request'[p] = request[p]
        /\ UNCHANGED << reported, marks, receipts, faults >>
    BY <1>1, <1>3 DEF LookUpNode, LedgerTypes
  <2> HIDE DEF Fair
  <2> QED BY <1>2, <2>1
<1>4. ASSUME NEW q \in Requests, LoadTask(q) \/ RefuseResult(q) \/ AbortResult(q)
      PROVE  Fair'
  <2>1. /\ request'[q].pc # "receipt"
        /\ \A p \in Requests \ {q} : request'[p] = request[p]
    BY <1>1, <1>4, OthersStay, ReplyIdles DEF LoadTask, RefuseResult, AbortResult
  <2>2. UNCHANGED << reported, marks, receipts >>
    BY <1>4 DEF LoadTask, RefuseResult, AbortResult
  <2>3. faults' = faults \/ faults' # 0
    BY <1>1, <1>4, LedgerAssumption DEF LoadTask, RefuseResult, AbortResult, Fault, LedgerTypes
  <2> HIDE DEF Fair
  <2> QED BY <1>2, <2>1, <2>2, <2>3
<1>5. ASSUME NEW q \in Requests, BudgetUnreadable(q)
      PROVE  Fair'
  <2>1. /\ request[q].pc = "share"
        /\ request'[q].task = request[q].task /\ request'[q].tier = request[q].tier
        /\ request'[q].report = request[q].report
        /\ request'[q].credits = 0 /\ ~ request'[q].all
        /\ \A p \in Requests \ {q} : request'[p] = request[p]
    BY <1>1, <1>5, OthersStay DEF BudgetUnreadable, SharePending
  <2>2. UNCHANGED << reported, marks, receipts >> /\ faults' # 0
    BY <1>1, <1>5, LedgerAssumption DEF BudgetUnreadable, Fault, LedgerTypes
  <2>3. 200 * 0 <= 7 * Multiplier(request[q].tier) * Budget
    BY <1>1, <2>1, RequestShape, MultiplierShape, LedgerAssumption DEF IsAward
  <2>4. marks[request[q].task] = 1 => reported[request[q].task] = request[q].report
    BY <1>1, <2>1 DEF SharePending
  <2>5. FairShare(request[q])'
    BY <2>1, <2>2, <2>3, <2>4 DEF FairShare
  <2> HIDE DEF Fair
  <2> QED BY <1>2, <2>1, <2>2, <2>5
<1>6. ASSUME NEW q \in Requests, ComputeShare(q)
      PROVE  Fair'
  <2> DEFINE share == CreditShare(q, Budget)
  <2>1. /\ request[q].pc = "share"
        /\ request'[q].task = request[q].task /\ request'[q].tier = request[q].tier
        /\ request'[q].report = request[q].report
        /\ request'[q].credits = share /\ request'[q].all = (Complete = Tasks)
        /\ \A p \in Requests \ {q} : request'[p] = request[p]
    BY <1>1, <1>6, ShareSet DEF ComputeShare
  <2>2. UNCHANGED << reported, marks, receipts, faults >>
    BY <1>6 DEF ComputeShare
  <2>3. /\ 2 * JobScore * share <= ScoreOf(request[q]) * ExecutorPool(Budget)
        /\ JobScore = 0 => share = 0
    BY <1>1, <2>1, ShareShape
  <2>4. request[q].task \in Complete
    BY <1>1, <2>1 DEF OneAward, Owes
  <2>5. marks[request[q].task] = 1 =>
          /\ reported[request[q].task] = request[q].report
          /\ 200 * share <= 7 * Multiplier(request[q].tier) * Budget
          /\ Tokens(request[q].report) # 0 => share > 0
    BY <1>1, <2>1, <2>4, OwnShare DEF SharePending
  <2>6. Complete' = Complete /\ JobScore' = JobScore /\ MarkedOnce' = MarkedOnce
    BY <2>2, RowsStay
  <2> HIDE DEF share
  <2>7. FairShare(request[q])'
    BY <2>1, <2>2, <2>3, <2>5, <2>6 DEF FairShare, ScoreOf
  <2> HIDE DEF Fair
  <2> QED BY <1>2, <2>1, <2>2, <2>7
<1>7. ASSUME NEW q \in Requests, MarkComplete(q)
      PROVE  Fair'
  <2> DEFINE t == request[q].task
  <2>1. /\ request'[q].pc = "share" /\ \A p \in Requests \ {q} : request'[p] = request[p]
    BY <1>1, <1>7, OthersStay DEF MarkComplete
  <2>2. UNCHANGED << receipts, faults >>
    BY <1>7 DEF MarkComplete
  <2>3. /\ t \in Tasks
        /\ \A u \in Tasks \ {t} : reported'[u] = reported[u] /\ marks'[u] = marks[u]
        /\ Complete' = Complete \cup {t}
        /\ t \in Complete => marks'[t] > 1 /\ ~ MarkedOnce'
    BY <1>1, <1>7, RowMarked
  <2> HIDE DEF t
  <2>4. Complete = Tasks => Complete' = Tasks /\ ~ MarkedOnce'
    BY <2>3
  <2>5. \A u \in Complete : marks'[u] = 1 => reported'[u] = reported[u] /\ marks[u] = 1
    BY <2>3 DEF Complete
  <2>6. ASSUME NEW p \in Requests, request'[p].pc = "receipt"
        PROVE  FairShare(request[p])'
    <3>1. request'[p] = request[p] /\ FairShare(request[p])
      BY <1>1, <2>1, <2>6
    <3>2. request[p].task \in Complete
      BY <1>1, <2>6, <3>1 DEF OneAward, Owes
    <3> QED BY <2>2, <2>4, <2>5, <3>1, <3>2 DEF FairShare
  <2>7. ASSUME NEW r \in receipts
        PROVE  FairShare(r)'
    <3>1. FairShare(r) /\ r.task \in Complete
      BY <1>1 DEF OneAward
    <3> QED BY <2>2, <2>4, <2>5, <3>1 DEF FairShare
  <2> QED BY <2>2, <2>6, <2>7
<1>8. ASSUME NEW q \in Requests, IssueReceipt(q)
      PROVE  Fair'
  <2> DEFINE new == CreditReceipt(q, request[q].task)
  <2>1. request'[q].pc = "idle" /\ \A p \in Requests \ {q} : request'[p] = request[p]
    BY <1>1, <1>8, ReplyIdles DEF IssueReceipt
  <2>2. UNCHANGED << reported, marks, faults >> /\ receipts' = receipts \cup {new}
    BY <1>8 DEF IssueReceipt
  <2>3. Complete' = Complete /\ JobScore' = JobScore /\ MarkedOnce' = MarkedOnce
    BY <2>2, RowsStay
  <2>4. FairShare(request[q])
    BY <1>1, <1>8 DEF IssueReceipt
  <2>5. /\ new.task = request[q].task /\ new.tier = request[q].tier
        /\ new.report = request[q].report
        /\ new.credits = request[q].credits /\ new.all = request[q].all
    BY DEF CreditReceipt
  <2> HIDE DEF new
  <2>6. \A p \in Requests : request'[p].pc = "receipt" => FairShare(request[p])'
    BY <1>1, <2>1, <2>2, <2>3 DEF FairShare, ScoreOf
  <2>7. \A r \in receipts' : FairShare(r)'
    BY <1>1, <2>2, <2>3, <2>4, <2>5 DEF FairShare, ScoreOf
  <2> QED BY <2>6, <2>7
<1>9. ASSUME UNCHANGED ledgerVars
      PROVE  Fair'
  <2>1. Complete' = Complete /\ JobScore' = JobScore /\ MarkedOnce' = MarkedOnce
    BY <1>9, RowsStay DEF ledgerVars
  <2> QED BY <1>1, <1>9, <2>1 DEF ledgerVars, FairShare, ScoreOf
<1> HIDE DEF Fair
<1>10. ASSUME NEW q \in Requests, Answer(q)
       PROVE  Fair'
  BY <1>4, <1>6, <1>7, <1>8, <1>10 DEF Answer
<1>11. Fair'
  <2>1. CASE \E q \in Requests, t \in Tasks, result \in Results : LookUpNode(q, t, result)
    BY <1>3, <2>1
  <2>2. CASE \E q \in Requests : Answer(q) \/ BudgetUnreadable(q) \/ AbortResult(q)
    BY <1>4, <1>5, <1>10, <2>2
  <2> QED BY <1>9, <2>1, <2>2 DEF LedgerNext
<1> QED BY <1>11 DEF Fair

-----------------------------------------------------------------------------
(* Theorems                                                                *)

\* The invariant holds at first.
LEMMA InitLedger == LedgerInit => LedgerInv
<1> SUFFICES ASSUME LedgerInit PROVE LedgerInv
  OBVIOUS
<1>1. /\ reported = [t \in Tasks |-> None] /\ marks = [t \in Tasks |-> 0] /\ receipts = {}
      /\ request = [q \in Requests |-> Idle] /\ faults = 0
  BY DEF LedgerInit
<1>2. Complete = {}
  BY <1>1 DEF Complete
<1>3. \A q \in Requests : request[q].pc = "idle"
  BY <1>1 DEF Idle
<1>4. LedgerTypes
  <2>1. IsFiniteSet(receipts)
    BY <1>1, FS_EmptySet
  <2>2. request \in [Requests -> ActiveRequest \cup {Idle}]
    BY <1>1
  <2>3. reported \in [Tasks -> {result.report : result \in Results} \cup {None}]
    BY <1>1
  <2> QED BY <1>1, <1>2, <1>3, <2>1, <2>2, <2>3, LedgerAssumption DEF LedgerTypes
<1>5. OneAward
  BY <1>1, <1>3 DEF OneAward, Owes
<1>6. SharePending
  BY <1>3 DEF SharePending
<1> QED BY <1>1, <1>3, <1>4, <1>5, <1>6 DEF LedgerInv

\* The invariant holds of every behaviour.
THEOREM LedgerSafety == LedgerSpec => []LedgerInv
<1>1. LedgerInv /\ [LedgerNext]_ledgerVars => LedgerInv'
  <2> SUFFICES ASSUME LedgerInv, [LedgerNext]_ledgerVars PROVE LedgerInv'
    OBVIOUS
  <2>1. /\ \A q \in Requests : request'[q].pc = "receipt" => FairShare(request[q])'
        /\ \A r \in receipts' : FairShare(r)'
    BY FairKept
  <2> QED BY <2>1, TypesKept, OneAwardKept, PendingKept DEF LedgerInv
<1> QED BY <1>1, InitLedger, PTL DEF LedgerSpec

\* The job's rows, the receipts and the requests keep their types
\* (submit_task_result).
THEOREM LedgerTypeCorrect == LedgerSpec => []LedgerTypeOK
<1>1. LedgerInv => LedgerTypeOK
  <2> SUFFICES ASSUME LedgerInv PROVE LedgerTypeOK
    OBVIOUS
  <2>1. LedgerTypes /\ \A r \in receipts : r.task \in Complete
    BY DEF LedgerInv, OneAward
  <2>2. \A q \in Requests :
          request[q] = Idle
          \/ /\ request[q].task \in Tasks
             /\ [tier |-> request[q].tier, report |-> request[q].report] \in Results
             /\ request[q].credits \in Nat
    <3> TAKE q \in Requests
    <3>1. CASE request[q].pc = "idle"
      BY <2>1, <3>1 DEF LedgerTypes, ActiveRequest
    <3>2. CASE request[q].pc # "idle"
      BY <2>1, <3>2, RequestShape DEF LedgerTypes, IsAward
    <3> QED BY <3>1, <3>2
  <2> QED BY <2>1, <2>2 DEF LedgerTypeOK, LedgerTypes, IsAward
<1> QED BY <1>1, LedgerSafety, PTL

\* A result is paid for while nothing fails (submit_task_result).
THEOREM WorkPaid == LedgerSpec => []WorkIsPaid
<1>1. LedgerInv => WorkIsPaid
  BY DEF LedgerInv, FairShare, WorkIsPaid, Tokens
<1> QED BY <1>1, LedgerSafety, PTL

\* The shares of the full job stay together within half of the pool, whoever is
\* paid in which order: each has a row of its own in the sum they divide by
\* (node_credit_share).
THEOREM FullJobBounded == LedgerSpec => []FullJobSharesAddUp
<1>1. LedgerInv => FullJobSharesAddUp
  <2> SUFFICES ASSUME LedgerInv, \A t \in Tasks : marks[t] <= 1
               PROVE  20 * Total({r \in receipts : r.all /\ r.tier \in {"Nano", "Edge"}})
                        <= 7 * Budget
    BY DEF FullJobSharesAddUp
  <2> DEFINE S == {r \in receipts : r.all /\ r.tier \in {"Nano", "Edge"}}
             f == [r \in S |-> r.credits]
             g == [t \in Complete |-> RowScore(t)]
             h == [r \in S |-> r.task]
             P == ExecutorPool(Budget)
             J == JobScore
  <2>1. LedgerTypes /\ OneAward /\ MarkedOnce
    BY DEF LedgerInv, MarkedOnce
  <2>2. IsFiniteSet(S) /\ IsFiniteSet(Complete)
    BY <2>1, TasksFinite, FS_Subset DEF LedgerTypes, Complete
  <2>3. f \in [S -> Nat] /\ g \in [Complete -> Nat]
    BY <2>1, RowShape DEF LedgerTypes, IsAward
  <2>4. h \in [S -> Complete]
    BY <2>1 DEF OneAward
  <2>5. \A t \in Complete : t \in Tasks /\ marks[t] = 1
    BY <2>1 DEF LedgerTypes, MarkedOnce, Complete
  <2>6. \A r, s \in S : h[r] = h[s] => r = s
    BY <2>1, <2>4, <2>5 DEF OneAward
  <2>7. J \in Nat /\ P \in Nat /\ 10 * P <= 7 * Budget /\ Budget \in Nat
    BY <2>1, JobScoreShape, PoolShape, LedgerAssumption
  <2>8. Total(S) = Sum(f, S) /\ J = Sum(g, Complete)
    BY DEF Total, JobScore, SumFunction, Sum
  <2>9. ASSUME NEW r \in S
        PROVE  /\ (2 * J) * f[r] <= P * g[h[r]]
               /\ J = 0 => f[r] = 0
    <3>1. /\ 2 * J * r.credits <= ScoreOf(r) * P
          /\ J = 0 => r.credits = 0
      BY <2>1 DEF LedgerInv, FairShare
    <3>2. r.task \in Complete /\ reported[r.task] = r.report
      BY <2>1, <2>5 DEF LedgerInv, FairShare, OneAward
    <3>3. IsAward(r)
      BY <2>1 DEF LedgerTypes
    <3>4. ScoreOf(r) \in Nat /\ RowScore(r.task) \in Nat /\ ScoreOf(r) <= RowScore(r.task)
      BY <3>2, <3>3, ScoreShape DEF ScoreOf, RowScore, IsAward
    <3>5. f[r] = r.credits /\ g[h[r]] = RowScore(r.task) /\ r.credits \in Nat
      BY <3>2, <3>3 DEF IsAward
    <3> HIDE DEF f, g, h, P, J
    <3>6. ScoreOf(r) * P <= P * RowScore(r.task)
      BY <2>7, <3>4
    <3>7. /\ 2 * J * r.credits \in Nat /\ ScoreOf(r) * P \in Nat
          /\ P * RowScore(r.task) \in Nat
      BY <2>7, <3>4, <3>5
    <3> QED BY <3>1, <3>5, <3>6, <3>7
  <2> HIDE DEF S, f, g, h, P, J
  <2>10. Sum(f, S) \in Nat
    BY <2>2, <2>3, SumIsNat
  <2>11. CASE J = 0
    <3>1. \A r \in S : f[r] <= 0
      BY <2>9, <2>11
    <3>2. Sum(f, S) <= 0 * Cardinality(S) /\ Cardinality(S) \in Nat
      BY <2>2, <2>3, <3>1, SumAtMost, FS_CardinalityType
    <3>3. Sum(f, S) = 0
      BY <2>10, <3>2
    <3> QED BY <2>7, <2>8, <3>3 DEF S
  <2>12. CASE J # 0
    <3>1. 2 * J \in Nat /\ \A r \in S : (2 * J) * f[r] <= P * g[h[r]]
      BY <2>7, <2>9
    <3>2. (2 * J) * Sum(f, S) <= P * Sum(g, Complete)
      BY <2>2, <2>3, <2>4, <2>6, <2>7, <3>1, SumInjected
    <3>3. J * (2 * Sum(f, S)) <= J * P
      BY <2>7, <2>8, <2>10, <3>2
    <3>4. 2 * Sum(f, S) <= P
      <4>1. 2 * Sum(f, S) \in Nat /\ J \in Nat \ {0}
        BY <2>7, <2>10, <2>12
      <4> QED BY <2>7, <3>3, <4>1
    <3>5. 20 * Sum(f, S) <= 7 * Budget
      BY <2>7, <2>10, <3>4
    <3> QED BY <2>8, <3>5 DEF S
  <2> QED BY <2>11, <2>12
<1> QED BY <1>1, LedgerSafety, PTL

\* How far beyond the executors' part a job can pay (over_pool shows that it
\* does): each of its tasks earns an Edge node at most half of the pool, so that
\* a job of n tasks pays at most n halves, whatever fails (node_credit_share).
THEOREM JobPaysAtMostPerTask == LedgerSpec => []PaysWithinHalfPoolPerTask
<1>1. ASSUME LedgerInv, MarkedOnce
      PROVE  20 * Total({r \in receipts : r.tier \in {"Nano", "Edge"}})
               <= 7 * Budget * Len(Plan)
  <2> DEFINE S == {r \in receipts : r.tier \in {"Nano", "Edge"}}
             f == [r \in S |-> r.credits]
             one == [t \in Tasks |-> 1]
             h == [r \in S |-> r.task]
             n == Len(Plan)
             b == 7 * Budget
  <2>1. LedgerTypes /\ OneAward
    BY <1>1 DEF LedgerInv
  <2>2. IsFiniteSet(S) /\ IsFiniteSet(Tasks)
    BY <2>1, TasksFinite, FS_Subset DEF LedgerTypes
  <2>3. f \in [S -> Nat] /\ one \in [Tasks -> Nat] /\ h \in [S -> Tasks]
    BY <2>1 DEF LedgerTypes, IsAward
  <2>4. \A r \in S : r.task \in Tasks /\ marks[r.task] = 1
    BY <1>1, <2>1 DEF OneAward, LedgerTypes, MarkedOnce, Complete
  <2>5. \A r, s \in S : h[r] = h[s] => r = s
    BY <2>1, <2>4 DEF OneAward
  <2>6. n \in Nat /\ b \in Nat
    BY PlanShape, LedgerAssumption
  <2>7. \A r \in S : 20 * f[r] <= b * one[h[r]]
    <3> TAKE r \in S
    <3>1. 200 * r.credits <= 7 * Multiplier(r.tier) * Budget
      BY <1>1, <2>4 DEF LedgerInv, FairShare
    <3>2. Multiplier(r.tier) \in {1, 10}
      BY DEF Multiplier
    <3>3. r.credits \in Nat /\ Budget \in Nat
      BY <2>1, LedgerAssumption DEF LedgerTypes, IsAward
    <3>4. 20 * r.credits <= 7 * Budget
      BY <3>1, <3>2, <3>3
    <3> QED BY <2>4, <3>3, <3>4
  <2>8. Total(S) = Sum(f, S)
    BY DEF Total, SumFunction, Sum
  <2>9. \A t \in Tasks : one[t] <= 1
    OBVIOUS
  <2>10. Cardinality(Tasks) = n
    <3>1. n \in 1 .. 5
      BY PlanShape
    <3>2. Tasks = 1 .. n
      BY DEF Tasks
    <3> HIDE DEF n
    <3>3. n \in Int /\ 1 <= n
      BY <3>1
    <3>4. Cardinality(1 .. n) = IF 1 > n THEN 0 ELSE n - 1 + 1
      BY <3>3, FS_Interval
    <3> QED BY <3>2, <3>3, <3>4
  <2> HIDE DEF S, f, one, h, n, b
  <2>11. 20 * Sum(f, S) <= b * Sum(one, Tasks)
    BY <2>2, <2>3, <2>5, <2>6, <2>7, SumInjected
  <2>12. Sum(one, Tasks) <= 1 * n /\ Sum(one, Tasks) \in Nat /\ Sum(f, S) \in Nat
    BY <2>2, <2>3, <2>9, <2>10, SumAtMost, SumIsNat
  <2>13. b * Sum(one, Tasks) <= b * n
    BY <2>6, <2>12
  <2>14. b * Sum(one, Tasks) \in Nat /\ b * n \in Nat
    BY <2>6, <2>12
  <2>15. 20 * Sum(f, S) <= b * n
    BY <2>11, <2>12, <2>13, <2>14
  <2> QED BY <2>8, <2>15 DEF S, b, n
<1>2. LedgerInv => PaysWithinHalfPoolPerTask
  BY <1>1 DEF PaysWithinHalfPoolPerTask, MarkedOnce
<1> QED BY <1>2, LedgerSafety, PTL

-----------------------------------------------------------------------------
(* The tier of a node is in its share, and not in what it is divided by    *)

\* The row of q is the only complete one and holds its report, which has tokens.
IsFirst(q) ==
  /\ Complete = {request[q].task}
  /\ reported[request[q].task] = request[q].report
  /\ Tokens(request[q].report) # 0

\* Then the job has the score of an Edge node's row.
LEMMA FirstJobScore ==
  ASSUME LedgerTypes, NEW q \in Requests, request[q].pc = "share", IsFirst(q)
  PROVE  JobScore = RowScore(request[q].task)
<1> DEFINE task == request[q].task
           own == RowScore(task)
           score == [t \in Complete |-> RowScore(t)]
<1>1. Complete = {task} /\ task \in Complete
  BY DEF IsFirst
<1>2. IsFiniteSet(Complete) /\ Cardinality(Complete) = 1
  BY <1>1, FS_Singleton
<1>3. score \in [Complete -> Nat] /\ own \in Nat /\ JobScore = Sum(score, Complete)
  BY <1>1, RowShape DEF JobScore, SumFunction, Sum
<1>4. \A t \in Complete : score[t] <= own
  BY <1>1, <1>3
<1>5. own <= JobScore /\ JobScore \in Nat
  BY <1>1, JobScoreShape
<1> HIDE DEF own, score, task
<1>6. JobScore <= own * Cardinality(Complete)
  BY <1>2, <1>3, <1>4, SumAtMost
<1> QED BY <1>2, <1>3, <1>5, <1>6 DEF own, task

\* The first result of a job that is paid to a Pro or a Cluster node is worth
\* more than the whole budget of the job, for every tier, budget and report:
\* every row is taken for an Edge node's in the sum that its score is divided
\* by (submit_task_result, where the formula of credits.rs has each row's tier).
THEOREM FirstShareBeyondBudget ==
  LedgerSpec => [][\A q \in Requests :
    ComputeShare(q) /\ IsFirst(q) /\ request[q].tier \in {"Pro", "Cluster"}
      => request'[q].credits > Budget]_ledgerVars
<1>1. ASSUME LedgerInv, NEW q \in Requests, ComputeShare(q), IsFirst(q),
             request[q].tier \in {"Pro", "Cluster"}
      PROVE  request'[q].credits > Budget
  <2> DEFINE mine == ScoreOf(request[q])
             own == RowScore(request[q].task)
             m == Multiplier(request[q].tier)
             P == ExecutorPool(Budget)
             share == CreditShare(q, Budget)
  <2>1. LedgerTypes /\ request[q].pc = "share"
    BY <1>1 DEF LedgerInv, ComputeShare
  <2>2. request'[q].credits = share
    BY <1>1, <2>1 DEF ComputeShare, LedgerTypes
  <2>3. JobScore = own
    BY <1>1, <2>1, FirstJobScore
  <2>4. share = IF own = 0 THEN 0 ELSE (mine * P) \div (2 * own)
    BY <2>3 DEF CreditShare, ScoreOfJob, JobScore, ScoreOf
  <2>5. IsAward(request[q])
    BY <2>1, RequestShape
  <2>6. mine \in Nat /\ own \in Nat /\ 10 * mine = m * own /\ 0 < own
    BY <1>1, <2>5, ScoreShape DEF ScoreOf, RowScore, IsAward, IsFirst
  <2>7. m >= 30 /\ m \in Nat
    BY <1>1 DEF Multiplier
  <2>8. P \in Nat /\ 10 * P <= 7 * Budget /\ 7 * Budget <= 10 * P + 9 /\ P >= 250
    BY PoolShape, SmallUnit, LedgerAssumption DEF ExecutorPool
  <2>9. Budget \in Nat
    BY LedgerAssumption
  <2> HIDE DEF mine, own, m, P, share
  <2>10. 3 * own <= mine
    <3>1. 30 * own <= m * own
      BY <2>6, <2>7
    <3> QED BY <2>6, <2>7, <3>1
  <2>11. (3 * own) * P <= mine * P
    BY <2>6, <2>8, <2>10
  <2> DEFINE d == 2 * own
             k == (3 * P) \div 2
  <2>12. k \in Nat /\ 3 * P <= 2 * k + 1 /\ 2 * k <= 3 * P
    BY <2>8
  <2>13. k > Budget
    BY <2>8, <2>9, <2>12
  <2> HIDE DEF k
  <2>14. d * k <= mine * P
    <3>1. own * (2 * k) <= own * (3 * P)
      BY <2>6, <2>8, <2>12
    <3>2. d * k = own * (2 * k) /\ (3 * own) * P = own * (3 * P)
      BY <2>6, <2>8, <2>12
    <3>3. own * (2 * k) \in Nat /\ own * (3 * P) \in Nat /\ mine * P \in Nat
      BY <2>6, <2>8, <2>12
    <3> QED BY <2>11, <3>1, <3>2, <3>3
  <2>15. k <= (mine * P) \div d
    <3>1. d \in Nat \ {0} /\ mine * P \in Nat
      BY <2>6, <2>8
    <3> HIDE DEF d
    <3> QED BY <2>12, <2>14, <3>1, QuotientAtLeast
  <2>16. share = (mine * P) \div d
    BY <2>4, <2>6
  <2>17. share \in Nat
    BY <2>1, ShareShape DEF share
  <2> QED BY <2>2, <2>9, <2>12, <2>13, <2>15, <2>16, <2>17
<1>2. LedgerInv => [\A q \in Requests :
        ComputeShare(q) /\ IsFirst(q) /\ request[q].tier \in {"Pro", "Cluster"}
          => request'[q].credits > Budget]_ledgerVars
  BY <1>1
<1> QED BY <1>2, LedgerSafety, PTL

=============================================================================
