----------------------------- MODULE PayoutLedger -----------------------------
(***************************************************************************)
(* What one job pays: the result requests of routes/tasks.rs with the      *)
(* amounts that TaskBoard leaves out (common/src/credits.rs).              *)
(*                                                                         *)
(* A task may be reported once the tasks in front of it are complete: that *)
(* order is TaskBoard's.  Whose result it is matters only by the tier that *)
(* was read when the node was looked up.  A report has two token counts,   *)
(* whose sum is a u32: it wraps in a release build (in a debug build it    *)
(* panics, which is an abort here).                                        *)
(*                                                                         *)
(* Credits are integers.  Weights and multipliers are counted in tenths    *)
(* and a share is rounded down, where the code has f64; SmallUnit says     *)
(* that the job has a budget, in a unit of credits so small that no share  *)
(* is rounded to nothing.  jobs_completed is never written, so that every  *)
(* node is in its first hundred jobs and gets half.                        *)
(***************************************************************************)
EXTENDS JobPlan, Integers, FiniteSets, Functions

CONSTANTS
  Tier,         \* the tier of the job
  Budget,       \* jobs.budget_cap_credits
  Results,      \* what may arrive: a node's tier and the tokens it reports
  TokenModulus, \* 2^32: the width of a token count
  Requests,     \* result requests the orchestrator can serve at a time
  MaxFaults,    \* bound: failed statements, cancelled requests, crashes
  None          \* not complete

NodeTier == {"Nano", "Edge", "Pro", "Cluster"}

ASSUME LedgerAssumption ==
  /\ Tier \in JobTier
  /\ Budget \in Nat /\ MaxFaults \in Nat
  /\ TokenModulus \in Nat \ {0}
  /\ Results \subseteq [tier : NodeTier, report : (0 .. TokenModulus - 1) \X (0 .. TokenModulus - 1)]
  /\ \A result \in Results : result.report # None

VARIABLES
  reported,     \* the token counts of each complete sub_tasks row, or None
  marks,        \* history: how often each row was marked complete
  receipts,     \* credit_receipts
  request,      \* where each result request stands
  faults        \* faults so far

ledgerVars == << reported, marks, receipts, request, faults >>

Fault == /\ faults < MaxFaults
         /\ faults' = faults + 1

Plan == SubtaskPlan[Tier]
Tasks == 1 .. Len(Plan)

Weight(role) ==
  CASE role \in {"Planner", "Aggregator"} -> 20
    [] role \in {"Coder", "Researcher"}   -> 15
    [] role = "Critic"                    -> 12
    [] role = "Summarizer"                -> 8
    [] role = "ApiRelay"                  -> 10

Multiplier(t) ==
  CASE t = "Nano" -> 1 [] t = "Edge" -> 10 [] t = "Pro" -> 30 [] t = "Cluster" -> 80

\* Slip: only the tokens that were put out count.
TokensOut(report) == report[2]

Tokens(report) == (report[1] + report[2]) % TokenModulus

WeightedScore(report, role, t) == Tokens(report) * Weight(role) * Multiplier(t)

Complete == {t \in Tasks : reported[t] # None}

\* A complete row is taken for an Edge node's.
RowScore(t) == WeightedScore(reported[t], Plan[t].role, "Edge")

\* Slip: the row of the task that is paid for is left out.
ScoreOfOthers(task) ==
  SumFunction([t \in Complete \ {task} |-> RowScore(t)])

\* The rows that are complete by now.
ScoreOfJob(task) ==
  SumFunction([t \in Complete |-> RowScore(t)])

\* The executors' 70 % of a payout.
ExecutorPool(payout) == (7 * payout) \div 10

\* The least score, 8, against five rows that report as much as they can:
\* even this share is worth a unit.
ASSUME SmallUnit == ExecutorPool(Budget) >= 250 * TokenModulus

\* Slip: the rate of a node with a hundred jobs.
VeteranShare(q, payout) ==
  LET total == ScoreOfJob(request[q].task)
      mine  == WeightedScore(request[q].report, Plan[request[q].task].role, request[q].tier)
  IN IF total = 0 THEN 0 ELSE (mine * ExecutorPool(payout)) \div total

\* node_credit_share, at the rate of a new node.
CreditShare(q, payout) ==
  LET total == ScoreOfJob(request[q].task)
      mine  == WeightedScore(request[q].report, Plan[request[q].task].role, request[q].tier)
  IN IF total = 0 THEN 0 ELSE (mine * ExecutorPool(payout)) \div (2 * total)

-----------------------------------------------------------------------------

Idle == [pc |-> "idle", task |-> None, tier |-> None, report |-> None,
         credits |-> 0, all |-> FALSE]

Goto(q, pc) == request' = [request EXCEPT ![q].pc = pc]
Reply(q)    == request' = [request EXCEPT ![q] = Idle]

Reportable(t) == \A u \in Tasks : Plan[u].position < Plan[t].position => u \in Complete

\* A result of task t arrives; its node is found, and its tier read.
LookUpNode(q, t, result) ==
  /\ request[q].pc = "idle"
  /\ Reportable(t)
  /\ request' = [request EXCEPT ![q] =
                   [pc |-> "load", task |-> t, tier |-> result.tier, report |-> result.report,
                    credits |-> 0, all |-> FALSE]]
  /\ UNCHANGED << reported, marks, receipts, faults >>

\* The row is not complete and the output passes.
LoadTask(q) ==
  /\ request[q].pc = "load"
  /\ request[q].task \notin Complete
  /\ Goto(q, "mark")
  /\ UNCHANGED << reported, marks, receipts, faults >>

\* 400: the row is complete, or the output is refused.
RefuseResult(q) ==
  /\ request[q].pc = "load"
  /\ Reply(q)
  /\ UNCHANGED << reported, marks, receipts, faults >>

\* The row takes the tokens of this report (its reputation event is
\* NodeRegistry's).
MarkComplete(q) ==
  /\ request[q].pc = "mark"
  /\ reported' = [reported EXCEPT ![request[q].task] = request[q].report]
  /\ marks' = [marks EXCEPT ![request[q].task] = @ + 1]
  /\ Goto(q, "share")
  /\ UNCHANGED << receipts, faults >>

\* The complete rows are read and the share is computed.
ComputeShare(q) ==
  /\ request[q].pc = "share"
  /\ request' = [request EXCEPT ![q].pc = "receipt",
                                ![q].credits = CreditShare(q, Budget),
                                ![q].all = (Complete = Tasks)]
  /\ UNCHANGED << reported, marks, receipts, faults >>

\* The budget cannot be read: unwrap_or(0.0), and the receipt is worth nothing.
BudgetUnreadable(q) ==
  /\ request[q].pc = "share"
  /\ Fault
  /\ Goto(q, "receipt")
  /\ UNCHANGED << reported, marks, receipts >>

\* Receipts of t so far.
Issued(t) == Cardinality({r \in receipts : r.task = t})

\* The receipt of the request q.  Its number stands for its id and its nonce;
\* all says whether every row was complete when its share was computed.
CreditReceipt(q, task) ==
  [no |-> Issued(request[q].task) + 1, task |-> task, tier |-> request[q].tier,
   report |-> request[q].report, credits |-> request[q].credits, all |-> request[q].all]

\* Slip: the receipt names the task after it.
IssueReceiptForNext(q) ==
  /\ request[q].pc = "receipt"
  /\ receipts' = receipts \cup {CreditReceipt(q, request[q].task + 1)}
  /\ Reply(q)
  /\ UNCHANGED << reported, marks, faults >>

\* INSERT INTO credit_receipts under a nonce of its own.
IssueReceipt(q) ==
  /\ request[q].pc = "receipt"
  /\ receipts' = receipts \cup {CreditReceipt(q, request[q].task)}
  /\ Reply(q)
  /\ UNCHANGED << reported, marks, faults >>

AbortResult(q) ==
  /\ request[q].pc # "idle"
  /\ Fault
  /\ Reply(q)
  /\ UNCHANGED << reported, marks, receipts >>

-----------------------------------------------------------------------------

LedgerInit ==
  /\ reported = [t \in Tasks |-> None]
  /\ marks = [t \in Tasks |-> 0]
  /\ receipts = {}
  /\ request = [q \in Requests |-> Idle]
  /\ faults = 0

Answer(q) ==
  \/ LoadTask(q) \/ RefuseResult(q) \/ MarkComplete(q)
  \/ ComputeShare(q) \/ IssueReceipt(q)

LedgerNext ==
  \/ \E q \in Requests, t \in Tasks, result \in Results : LookUpNode(q, t, result)
  \/ \E q \in Requests : Answer(q) \/ BudgetUnreadable(q) \/ AbortResult(q)

LedgerSpec == LedgerInit /\ [][LedgerNext]_ledgerVars

-----------------------------------------------------------------------------
(* Properties                                                              *)

\* The job's rows, the receipts and the requests have their types.
LedgerTypeOK ==
  /\ reported \in [Tasks -> {result.report : result \in Results} \cup {None}]
  /\ marks \in [Tasks -> Nat]
  /\ \A t \in Tasks : marks[t] = 0 <=> t \notin Complete
  /\ \A r \in receipts : r.task \in Complete /\ r.credits \in Nat
  /\ \A q \in Requests :
       request[q] = Idle
       \/ /\ request[q].task \in Tasks
          /\ [tier |-> request[q].tier, report |-> request[q].report] \in Results
          /\ request[q].credits \in Nat
  /\ faults \in 0 .. MaxFaults

\* What receipts are worth together.
Total(paid) == SumFunction([r \in paid |-> r.credits])

\* How far a job can go beyond the executors' part of the budget: its receipts
\* together are within half of that part for each of its tasks, for nodes that
\* are no better than Edge, however many rows were complete when each share was
\* computed and in whatever order the results raced (node_credit_share).
PaysWithinHalfPoolPerTask ==
  (\A t \in Tasks : marks[t] <= 1) =>
    20 * Total({r \in receipts : r.tier \in {"Nano", "Edge"}}) <= 7 * Budget * Len(Plan)

\* The shares that are computed when every row of the job is complete add up:
\* together they stay within the new nodes' half of the executor pool, for
\* nodes that are no better than Edge (node_credit_share, credits.rs).  Shares
\* computed earlier in the same job are left out.
FullJobSharesAddUp ==
  (\A t \in Tasks : marks[t] <= 1) =>
    20 * Total({r \in receipts : r.all /\ r.tier \in {"Nano", "Edge"}}) <= 7 * Budget

\* Work is paid: a receipt for a token count that does not wrap to 0 is worth
\* something, unless a statement failed or a second result of its task
\* overwrote its tokens.
WorkIsPaid ==
  faults = 0 =>
    \A r \in receipts :
      /\ marks[r.task] = 1
      /\ (r.report[1] + r.report[2]) % TokenModulus # 0
      => r.credits > 0

-----------------------------------------------------------------------------
(* What the documentation says, and the shares do not guarantee            *)

\* "70% -> executors (via node_credit_share)" (credits.rs:61): what a job pays
\* to its nodes is within the executors' part of the budget.
ExecutorPoolKept ==
  10 * Total(receipts) <= 7 * Budget

=============================================================================
