--------------------------- MODULE HandoffPromise ----------------------------
(***************************************************************************)
(* What a handoff promises the two people who use it: it is offered once,   *)
(* granted or refused once, and a grant is spent on one sign-in, for the    *)
(* account and at the assurance that were granted.  A promise can be        *)
(* voided: zauth-core's cache cannot tell a handler that the record changed *)
(* under it, and after such a lost update nothing is promised any more.     *)
(***************************************************************************)
CONSTANTS Handoffs,  \* handoff ids
          Grants,    \* what can be granted: <<subject, assurance>>
          NoGrant

VARIABLES phase,   \* how far each handoff has come
          grant,   \* what was granted: <<subject, assurance>>
          logins   \* the sign-ins handoffs still vouch for

vars == <<phase, grant, logins>>

Init ==
  /\ phase = [h \in Handoffs |-> "closed"]
  /\ grant = [h \in Handoffs |-> NoGrant]
  /\ logins = {}

Move(h, from, to) == phase[h] = from /\ phase' = [phase EXCEPT ![h] = to]

Offer(h)  == Move(h, "closed", "open") /\ UNCHANGED <<grant, logins>>
Refuse(h) == Move(h, "open", "refused") /\ UNCHANGED <<grant, logins>>

Allow(h) ==
  /\ Move(h, "open", "granted")
  /\ \E g \in Grants : grant' = [grant EXCEPT ![h] = g]
  /\ UNCHANGED logins

Spend(h) == Move(h, "granted", "spent") /\ UNCHANGED <<grant, logins>>

SignIn(h) ==
  /\ Move(h, "spent", "signed_in")
  /\ logins' = logins \cup {[h |-> h, grant |-> grant[h]]}
  /\ UNCHANGED grant

Void(h) ==
  /\ phase' = [phase EXCEPT ![h] = "void"]
  /\ grant' = [grant EXCEPT ![h] = NoGrant]
  /\ logins' = {l \in logins : l.h # h}

Next == \E h \in Handoffs :
  Offer(h) \/ Refuse(h) \/ Allow(h) \/ Spend(h) \/ SignIn(h) \/ Void(h)

Spec == Init /\ [][Next]_vars
=============================================================================
