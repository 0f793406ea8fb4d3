----------------------------- MODULE DispatchPlan -----------------------------
(***************************************************************************)
(* The plans as task graphs.  submit_job gives every row a position, and   *)
(* the WHERE clause of the claim (TaskBoard) makes a row wait for those at *)
(* smaller ones: an edge from every task of a job to those at a greater    *)
(* position.                                                               *)
(***************************************************************************)
EXTENDS TaskBoard, TaskDag

PlanEdges ==
  {e \in Tasks \X Tasks : e[1][1] = e[2][1] /\ Position(e[1]) < Position(e[2])}

-----------------------------------------------------------------------------

\* Dependencies never lock a job: while a row of it is open, one is ready to
\* be claimed or was claimed, whatever part of the plan is inserted
\* (dispatch_ready_tasks).
SomeTaskMoves ==
  \A j \in Jobs :
    ~ AllComplete(j) =>
      \E t \in TasksOf(j) : Eligible(t) \/ (Exists(t) /\ status[t] = "dispatched")

=============================================================================
