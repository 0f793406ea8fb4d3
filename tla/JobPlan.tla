------------------------------- MODULE JobPlan -------------------------------
(***************************************************************************)
(* The sub-task plans that submit_job seeds                                *)
(* (orchestrator/src/routes/jobs.rs): which roles a job of each tier       *)
(* needs, at which position, in the order the rows are inserted.  A task   *)
(* waits for every task of its job at a smaller position.                  *)
(***************************************************************************)
EXTENDS Naturals, Sequences

JobTier == {"Standard", "Paid", "Premium"}

AgentRole == {"Planner", "Researcher", "Coder", "Critic", "Summarizer",
              "Aggregator", "ApiRelay"}

PlanStep(role, position, agent) ==
  [role |-> role, position |-> position, agent_index |-> agent]

SubtaskPlan ==
  [Standard |-> << PlanStep("Planner", 0, 0),
                   PlanStep("Coder", 1, 0),
                   PlanStep("Summarizer", 2, 0) >>,
   Paid     |-> << PlanStep("Planner", 0, 0),
                   PlanStep("Coder", 1, 0),
                   PlanStep("Critic", 2, 0) >>,
   Premium  |-> << PlanStep("Planner", 0, 0),
                   PlanStep("Coder", 1, 0),
                   PlanStep("Coder", 1, 1),
                   PlanStep("Critic", 2, 0),
                   PlanStep("Aggregator", 3, 0) >>]

=============================================================================
