------------------------------ MODULE AuthCode -------------------------------
(***************************************************************************)
(* The OAuth authorization code and its exchange for tokens (oauthService    *)
(* of zauth-core, POST /oauth2/token and /oauth2/revoke).  The exchange is   *)
(* four statements without a transaction: read the code row and check it,    *)
(* mark it used, insert the access token, insert the refresh token.  Any of  *)
(* them can fail, and other exchanges of the same code run between them.     *)
(***************************************************************************)
EXTENDS Naturals

CONSTANTS
  Codes,      \* authorization codes
  Clients,    \* registered OAuth clients
  IssuedTo,   \* the client each code is issued to
  Tokens,     \* access tokens, each with the refresh token of its exchange
  Workers,    \* token requests in flight at once
  MaxFaults,  \* bound: failures in one behaviour
  NoCode

ASSUME CodeAssumption ==
  /\ IssuedTo \in [Codes -> Clients]
  /\ NoCode \notin Codes
  /\ MaxFaults \in Nat

VARIABLES
  code,      \* auth_codes: "none" before the INSERT, then fresh or used
  aged,      \* codes past expires_at
  access,    \* access_tokens: the code a token was issued for, or NoCode
  refresh,   \* tokens whose exchange has inserted its refresh token too
  revoked,   \* access tokens revoked
  answered,  \* tokens a client has received
  job,       \* what each worker is doing
  faults,    \* failures so far
  raced      \* history: codes marked used while another exchange had passed its check

vars == <<code, aged, access, refresh, revoked, answered, job, faults, raced>>

Awaits == {"mark", "access", "refresh", "answer"}
Job == [pc : {"idle"} \cup Awaits, code : Codes \cup {NoCode}, token : Tokens \cup {NoCode}]
Idle == [pc |-> "idle", code |-> NoCode, token |-> NoCode]

TokensOf(c) == {t \in Tokens : access[t] = c}

-----------------------------------------------------------------------------
Init ==
  /\ code = [c \in Codes |-> "none"]
  /\ aged = {}
  /\ access = [t \in Tokens |-> NoCode]
  /\ refresh = {}
  /\ revoked = {}
  /\ answered = {}
  /\ job = [w \in Workers |-> Idle]
  /\ faults = 0
  /\ raced = {}

\* createAuthorizationCode.
IssueCode(c) ==
  /\ code[c] = "none"
  /\ code' = [code EXCEPT ![c] = "fresh"]
  /\ UNCHANGED <<aged, access, refresh, revoked, answered, job, faults, raced>>

\* A mistake to be found: the row's used flag is not looked at.
ExchangeReadUsed(w, c, cl, proves) ==
  /\ job[w].pc = "idle"
  /\ code[c] # "none" /\ c \notin aged
  /\ cl = IssuedTo[c] /\ proves
  /\ job' = [job EXCEPT ![w] = [Idle EXCEPT !.pc = "mark", !.code = c]]
  /\ UNCHANGED <<code, aged, access, refresh, revoked, answered, faults, raced>>

\* POST /oauth2/token up to the UPDATE: an authenticated client sends a code,
\* with the redirect URI and the PKCE verifier it was issued under (proves) or
\* others.  Anything else is refused with invalid_grant or invalid_request.
ExchangeRead(w, c, cl, proves) ==
  /\ job[w].pc = "idle"
  /\ code[c] = "fresh" /\ c \notin aged
  /\ cl = IssuedTo[c] /\ proves
  /\ job' = [job EXCEPT ![w] = [Idle EXCEPT !.pc = "mark", !.code = c]]
  /\ UNCHANGED <<code, aged, access, refresh, revoked, answered, faults, raced>>

\* UPDATE auth_codes SET used = TRUE, which nothing makes conditional on the
\* code still being unused.  Exchanges race for a code when it is marked while
\* another has read it as fresh and not marked it yet.
ExchangeMark(w) ==
  LET c == job[w].code IN
  /\ job[w].pc = "mark"
  /\ code' = [code EXCEPT ![c] = "used"]
  /\ raced' = IF \E v \in Workers \ {w} : job[v].pc = "mark" /\ job[v].code = c
               THEN raced \cup {c} ELSE raced
  /\ job' = [job EXCEPT ![w].pc = "access"]
  /\ UNCHANGED <<aged, access, refresh, revoked, answered, faults>>

\* A mistake to be found: the tokens are answered before the second INSERT.
ExchangeAccessAnswers(w) ==
  /\ job[w].pc = "access"
  /\ \E t \in TokensOf(NoCode) :
       /\ access' = [access EXCEPT ![t] = job[w].code]
       /\ job' = [job EXCEPT ![w] = [pc |-> "answer", code |-> @.code, token |-> t]]
  /\ UNCHANGED <<code, aged, refresh, revoked, answered, faults, raced>>

ExchangeAccess(w) ==
  /\ job[w].pc = "access"
  /\ \E t \in TokensOf(NoCode) :
       /\ access' = [access EXCEPT ![t] = job[w].code]
       /\ job' = [job EXCEPT ![w] = [pc |-> "refresh", code |-> @.code, token |-> t]]
  /\ UNCHANGED <<code, aged, refresh, revoked, answered, faults, raced>>

ExchangeRefresh(w) ==
  /\ job[w].pc = "refresh"
  /\ refresh' = refresh \cup {job[w].token}
  /\ job' = [job EXCEPT ![w].pc = "answer"]
  /\ UNCHANGED <<code, aged, access, revoked, answered, faults, raced>>

\* The user is read, the id_token signed, the audit event written, and the
\* client receives the tokens.
ExchangeAnswer(w) ==
  /\ job[w].pc = "answer"
  /\ answered' = answered \cup {job[w].token}
  /\ job' = [job EXCEPT ![w] = Idle]
  /\ UNCHANGED <<code, aged, access, refresh, revoked, faults, raced>>

\* A statement fails, the process stops or the answer is lost.  What was
\* written stays; the client knows nothing and may send the code again.
ExchangeFails(w) ==
  /\ job[w].pc # "idle"
  /\ faults < MaxFaults
  /\ faults' = faults + 1
  /\ job' = [job EXCEPT ![w] = Idle]
  /\ UNCHANGED <<code, aged, access, refresh, revoked, answered, raced>>

\* POST /oauth2/revoke marks the access token and nothing else.
Revoke(t) ==
  /\ t \in answered \ revoked
  /\ revoked' = revoked \cup {t}
  /\ UNCHANGED <<code, aged, access, refresh, answered, job, faults, raced>>

\* Five minutes pass.
CodeExpires(c) ==
  /\ code[c] # "none" /\ c \notin aged
  /\ aged' = aged \cup {c}
  /\ UNCHANGED <<code, access, refresh, revoked, answered, job, faults, raced>>

Exchange(w) ==
  \/ ExchangeMark(w) \/ ExchangeAccess(w) \/ ExchangeRefresh(w)
  \/ ExchangeAnswer(w) \/ ExchangeFails(w)

Next ==
  \/ \E c \in Codes : IssueCode(c) \/ CodeExpires(c)
  \/ \E w \in Workers, c \in Codes, cl \in Clients, proves \in BOOLEAN :
       ExchangeRead(w, c, cl, proves)
  \/ \E w \in Workers : Exchange(w)
  \/ \E t \in Tokens : Revoke(t)

Spec == Init /\ [][Next]_vars

-----------------------------------------------------------------------------
JobsOK ==
  /\ job \in [Workers -> Job]
  /\ \A w \in Workers :
       /\ job[w].pc # "idle" => job[w].code \in Codes
       /\ job[w].pc \in {"refresh", "answer"} => job[w].token \in Tokens

TypeOK ==
  /\ code \in [Codes -> {"none", "fresh", "used"}]
  /\ aged \subseteq Codes
  /\ access \in [Tokens -> Codes \cup {NoCode}]
  /\ refresh \subseteq Tokens /\ revoked \subseteq Tokens /\ answered \subseteq Tokens
  /\ JobsOK
  /\ faults \in 0..MaxFaults
  /\ raced \subseteq Codes

\* A code yields one access token unless two exchanges stood between their check and
\* their UPDATE at once: however often clients send it again, before, during and after
\* the rest of another exchange, and wherever an exchange breaks off.
SingleUseUnlessRaced ==
  \A c \in Codes \ raced : \A t1, t2 \in TokensOf(c) : t1 = t2

\* docs/THREAT_MODEL.md: "Authorization codes are single-use".
SingleUse ==
  \A c \in Codes : \A t1, t2 \in TokensOf(c) : t1 = t2

\* What a client holds is complete and accounted for: a token is answered only
\* after both of its rows are in, and none exists for a code still exchangeable.
AnswersComplete ==
  /\ \A t \in answered : t \in refresh
  /\ \A t \in refresh : access[t] \in Codes
  /\ \A t \in Tokens : access[t] \in Codes => code[access[t]] = "used"

\* No exchange of c is under way and none can start.
Settled(c) ==
  /\ code[c] = "used" \/ c \in aged
  /\ \A w \in Workers : job[w].code # c

\* A code that is used or too old, and at rest, is finished, raced or not: no retry
\* and no late request adds a token to it any more.
SettledIsFinal ==
  [][\A c \in Codes : Settled(c) => Settled(c)' /\ TokensOf(c)' = TokensOf(c)]_vars

-----------------------------------------------------------------------------
(* The inductive invariant.                                                 *)

\* An exchange past its UPDATE has used up its code, and its token is its own.
PastMark ==
  \A w \in Workers :
    /\ job[w].pc \in Awaits \ {"mark"} => code[job[w].code] = "used"
    /\ job[w].pc \in {"refresh", "answer"} => access[job[w].token] = job[w].code
    /\ job[w].pc = "answer" => job[w].token \in refresh

\* Of an unraced code at most one exchange stands before its INSERT, and only
\* while there is no token yet; one that passed the check finds it still fresh.
OneClaim ==
  \A c \in Codes \ raced :
    /\ \A v, w \in Workers :
         job[v].pc = "access" /\ job[w].pc = "access" /\ job[v].code = c /\ job[w].code = c
           => v = w
    /\ \A w \in Workers : job[w].pc = "access" /\ job[w].code = c => TokensOf(c) = {}
    /\ \A w \in Workers : job[w].pc = "mark" /\ job[w].code = c => code[c] = "fresh"

IInv ==
  /\ TypeOK
  /\ PastMark
  /\ OneClaim
  /\ AnswersComplete
  /\ SingleUseUnlessRaced
=============================================================================
