------------------------------ MODULE MCLedger -------------------------------
(* Small instances of AuditChain and Anchor for TLC.  They share nothing but  *)
(* that the audit log has a row, which Anchor has an action for: a behaviour  *)
(* is one of the log's writers or one of the anchoring job.                   *)
EXTENDS AuditChain, Anchor, TLC

CONSTANTS w1, w2, w3, p1, p2, u1, u2, u3, b1, b2

VARIABLE part  \* "log" or "anchoring"

\* jsonb gives p2, a text whose keys jsonb orders differently, back as p1.
ReordersKeys == [p \in Payloads |-> p1]

LedgerInit == ChainInit /\ Init /\ part \in {"log", "anchoring"}

LogWrites == part = "log" /\ ChainNext /\ UNCHANGED <<vars, part>>
Anchors   == part = "anchoring" /\ Next /\ UNCHANGED <<chainVars, part>>

LedgerNext == LogWrites \/ Anchors

\* Anchor's Fairness, where its actions are taken.
LedgerSpec ==
  /\ LedgerInit /\ [][LedgerNext]_<<chainVars, vars, part>>
  /\ WF_<<vars>>(part = "anchoring" /\ \E r \in Runs : RunBatch(r) \/ ChainFails(r))
=============================================================================
