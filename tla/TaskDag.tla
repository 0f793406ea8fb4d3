------------------------------- MODULE TaskDag -------------------------------
(***************************************************************************)
(* The task graph of a planner's answer: what build_dag accepts            *)
(* (orchestrator/src/dag.rs) and which tasks TaskDag::ready_indices finds  *)
(* ready (common/src/types.rs).  The code numbers the tasks; here they are *)
(* any set, and an edge << i, j >> says that i must be complete before j.  *)
(* No route calls this code yet.                                           *)
(***************************************************************************)
EXTENDS Naturals, FiniteSets

MaxTasks == 64

\* toposort finds an order: every set of tasks has one that waits for none of
\* the set.
Acyclic(tasks, edges) ==
  \A S \in (SUBSET tasks) \ {{}} :
    \E j \in S : \A i \in S : << i, j >> \notin edges

\* build_dag returns Ok.
Accepted(tasks, edges) ==
  /\ Cardinality(tasks) \in 1 .. MaxTasks
  /\ edges \subseteq tasks \X tasks
  /\ \A i \in tasks : << i, i >> \notin edges
  /\ Acyclic(tasks, edges)

Blocked(edges, state, j) ==
  \E e \in edges : e[2] = j /\ state[e[1]] # "complete"

ReadyIndices(tasks, edges, state) ==
  {j \in tasks : state[j] = "pending" /\ ~ Blocked(edges, state, j)}

=============================================================================
