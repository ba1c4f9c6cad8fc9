----------------------------- MODULE MCSentinel -----------------------------
(* Small instances of Sentinel for TLC.                                     *)
EXTENDS Sentinel, TLC

CONSTANTS p1, p2, g1, g2, o1, o2
=============================================================================
