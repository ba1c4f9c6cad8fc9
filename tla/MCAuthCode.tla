----------------------------- MODULE MCAuthCode ------------------------------
(* Small instances of AuthCode for TLC.                                     *)
EXTENDS AuthCode, TLC

CONSTANTS c1, c2, cl1, cl2, t1, t2, t3, w1, w2, w3

\* Two codes of two clients.
MCIssuedTo == [c \in Codes |-> IF c = c1 THEN cl1 ELSE cl2]

Interchangeable == Permutations(Workers) \cup Permutations(Tokens)
=============================================================================
