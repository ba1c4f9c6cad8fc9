--------------------------- MODULE MCRelyingParty ---------------------------
(* Small instances of RelyingParty for TLC.                                 *)
EXTENDS RelyingParty, TLC

CONSTANTS a, b, w, t1, t2
=============================================================================
