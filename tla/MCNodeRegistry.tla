---------------------------- MODULE MCNodeRegistry ----------------------------
(***************************************************************************)
(* A small instance of NodeRegistry, driven by NodeClient, for TLC.        *)
(***************************************************************************)
EXTENDS NodeClient

CONSTANTS n1, n2, a1, a2, q1, q2, c1, c2

MCNodes    == {n1, n2}
MCAdmins   == {a1, a2}
MCRequests == {q1, q2}
MCCommands == {c1, c2}
MCTiers    == {"edge", "pro", "laptop"}

\* Bound: bans and results are followed once no command creates a key; up to
\* MaxBans bans, and MaxGains results in the window, where one first run made
\* the key n1; one ban and one event in the window, of either node, where
\* overlapping first runs made two.  A node falls silent and comes back
\* before its first ban and result only: no property speaks of silence.
MCOneStory ==
  /\ \/ \A n \in Nodes : bans'[n] = 0 /\ \A q \in Requests : earning'[q] = Free
     \/ /\ ~ Creating'
        /\ \/ generated' = {n1}
           \/ /\ earning'[q2] = Free
              /\ bans'[n1] + bans'[n2] <= 1
              /\ Len(window'[n1]) + Len(window'[n2]) <= 1
  /\ \A n \in Nodes : recent'[n] \/ (bans'[n] = 0 /\ window'[n] = << >>)

=============================================================================
