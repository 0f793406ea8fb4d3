---------------------------- MODULE MCRequestAuth ----------------------------
(***************************************************************************)
(* Small instances of RequestAuth for TLC.                                 *)
(***************************************************************************)
EXTENDS RequestAuth, TLC

CONSTANTS m1, m2, s1, s2

MCMessages == {m1, m2}
MCSlots    == {s1, s2}
MCOneAdmin == {m2}
MCSigned   == {m1}

\* Two messages signed a unit apart; with Skew = 2 the window of the first
\* opens at 1, so that a copy can come before its window.
MCTimestamps == (m1 :> 3) @@ (m2 :> 4)

=============================================================================
