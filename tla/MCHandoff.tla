------------------------------ MODULE MCHandoff ------------------------------
(* Small instances of Handoff for TLC.                                      *)
EXTENDS Handoff, TLC

CONSTANTS h1, w1, w2, u1, u2, s1, r1

\* u2 has a proof receipt for h1, u1 none.
MCReceipts == {<<u2, h1>>}
=============================================================================
