---------------------------- MODULE TaskLifecycle ----------------------------
(***************************************************************************)
(* What the orchestrator promises about the sub-tasks of its jobs, with no *)
(* database, no replicas and no requests: a task is added, is handed out   *)
(* once when everything before it is complete, and is completed for good.  *)
(* TaskBoard is shown to implement it.                                     *)
(***************************************************************************)
CONSTANTS
  Tasks,      \* every task of every job's plan
  Precedes    \* pairs <<u, t>>: u must be complete before t is handed out

VARIABLE board    \* the stage each task has reached

Stages == {"absent", "pending", "dispatched", "complete"}

Ready(t) == \A u \in Tasks : <<u, t>> \in Precedes => board[u] = "complete"

LifecycleInit == board = [t \in Tasks |-> "absent"]

\* A planned task becomes a row once the tasks it waits for are rows.
Add(t) ==
  /\ board[t] = "absent"
  /\ \A u \in Tasks : <<u, t>> \in Precedes => board[u] # "absent"
  /\ board' = [board EXCEPT ![t] = "pending"]

\* One dispatch hands out a batch of tasks, all of them ready beforehand.
Dispatch(batch) ==
  /\ \A t \in batch : board[t] = "pending" /\ Ready(t)
  /\ board' = [t \in Tasks |-> IF t \in batch THEN "dispatched" ELSE board[t]]

Complete(t) ==
  /\ board[t] = "dispatched"
  /\ board' = [board EXCEPT ![t] = "complete"]

LifecycleNext ==
  \/ \E t \in Tasks : Add(t) \/ Complete(t)
  \/ \E batch \in SUBSET Tasks : Dispatch(batch)

LifecycleSpec == LifecycleInit /\ [][LifecycleNext]_board

=============================================================================
