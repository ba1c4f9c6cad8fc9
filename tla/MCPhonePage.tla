----------------------------- MODULE MCPhonePage -----------------------------
(* Small instances of PhonePage for TLC.                                    *)
EXTENDS PhonePage, TLC

CONSTANTS a, b
=============================================================================
