----------------------------- MODULE MCRecovery ------------------------------
(* Small instances of Recovery for TLC.                                     *)
EXTENDS Recovery, TLC

CONSTANTS c1, c2, c3, g1, g2, t1, t2, k1, k2, s1, s2, w1, w2

\* The first generation has two codes, that of a new enrollment one.
MCGenOf == [c \in Codes |-> IF c = c3 THEN g2 ELSE g1]

\* Requests, tokens and session ids may be swapped, and the two first codes, which
\* GenOf does not tell apart.
Interchangeable ==
  Permutations(Workers) \cup Permutations(Tokens) \cup Permutations(Sids)
    \cup Permutations({c1, c2})
=============================================================================
