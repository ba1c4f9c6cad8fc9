----------------------------- MODULE MCIdentity ------------------------------
(* Small instances of Identity for TLC.                                     *)
EXTENDS Identity, TLC

CONSTANTS d1, d2, r1, w1, w2, w3

Interchangeable == Permutations(Workers)
=============================================================================
