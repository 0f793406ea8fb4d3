---------------------------- MODULE MCPayoutLedger ----------------------------
(***************************************************************************)
(* Small instances of PayoutLedger for TLC.                                *)
(***************************************************************************)
EXTENDS PayoutLedger, TLC

CONSTANTS q1, q2

MCRequests  == {q1, q2}
MCOneRequest == {q1}

\* With TokenModulus = 4 the sum of the second report wraps to 1.
MCResults  == {[tier |-> "Edge", report |-> << 2, 0 >>], [tier |-> "Pro", report |-> << 3, 2 >>]}
MCEdgeOnly == {[tier |-> "Edge", report |-> << 2, 0 >>]}

MCSymmetry  == Permutations(MCRequests)

=============================================================================
