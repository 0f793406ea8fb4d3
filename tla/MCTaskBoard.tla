----------------------------- MODULE MCTaskBoard -----------------------------
(***************************************************************************)
(* Small instances of TaskBoard for TLC.                                   *)
(***************************************************************************)
EXTENDS TaskBoard, TLC

CONSTANTS j1, n1, n2, o1, o2, q1, q2

MCJobs     == {j1}
MCNodes    == {n1, n2}
MCReplicas == {o1, o2}
MCRequests == {q1, q2}

MCStandard == [j \in MCJobs |-> "Standard"]

\* Nodes, replicas and request slots are interchangeable.
MCSymmetry ==
  Permutations(MCNodes) \cup Permutations(MCReplicas) \cup Permutations(MCRequests)

=============================================================================
