----------------------------- MODULE MCConsent -------------------------------
(* Small instances of Consent for TLC.                                      *)
EXTENDS Consent, TLC

CONSTANTS r1, r2, r3, s1, s2, u1, cl1, openid, profile, w1, w2

\* One application: a plain request, a forced one that asks for more, and one
\* that asks for nothing.
MCClientOf == [r \in Requests |-> cl1]
MCScopesOf == [r \in Requests |-> CASE r = r1 -> {openid}
                                    [] r = r2 -> {openid, profile}
                                    [] OTHER  -> {}]

Interchangeable == Permutations(Workers) \cup Permutations(Sids)
=============================================================================
