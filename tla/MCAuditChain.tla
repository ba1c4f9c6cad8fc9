---------------------------- MODULE MCAuditChain -----------------------------
(* Small instances of AuditChain for TLC.                                   *)
EXTENDS AuditChain, TLC

CONSTANTS w1, w2, w3, p1, p2

\* jsonb gives p2, a text whose keys jsonb orders differently, back as p1.
ReordersKeys == [p \in Payloads |-> p1]

WriterSymmetry == Permutations(Writers)
=============================================================================
