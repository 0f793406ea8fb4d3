------------------------------ MODULE MCPipeline ------------------------------
(***************************************************************************)
(* Small instances of Pipeline for TLC.                                    *)
(***************************************************************************)
EXTENDS Pipeline, DispatchPlan, TLC

CONSTANTS j1, n1, n2, o1, q1, q2

MCJobs     == {j1}
MCNodes    == {n1, n2}
MCOneNode  == {n1}
MCReplicas == {o1}
MCRequests == {q1, q2}
MCOneRequest == {q1}

MCStandard == [j \in MCJobs |-> "Standard"]
MCPremium  == [j \in MCJobs |-> "Premium"]

\* Workers and request slots are interchangeable.
MCSymmetry == Permutations(MCNodes) \cup Permutations(MCRequests)

MCRequestSymmetry == Permutations(MCRequests)

\* Bound: one failure, of either side.
MCOneFailure == faults' + mishaps' <= 1

\* Bound: one failure, and the drop of the handler it has cut off.  The
\* worker that is hit is n1: the two are alike until then.
MCOneFailureAndDrop ==
  /\ \/ MCOneFailure
     \/ UNCHANGED << faults, mishaps >>
     \/ UNCHANGED mishaps /\ \E q \in Requests : ~ Attended(q) /\ AbortResult(q)
  /\ mishaps' # mishaps => worker'[n2] = worker[n2]
  /\ \A q \in Requests : AbortResult(q) => request[q].node = n1

=============================================================================
