------------------------------ MODULE Recovery -------------------------------
(***************************************************************************)
(* Account recovery in zauth-core, for one account (/auth/recovery/... of    *)
(* routes/passkey.ts, pramaanV2Service, the page /ui/recovery/enroll).       *)
(*                                                                         *)
(* A recovery code buys a token for ten minutes; the token, with the face or *)
(* with three codes more, buys a session: the codes are nullified, the old   *)
(* passkeys revoked, the token deleted and the session created, in single    *)
(* statements that may fail and between which other requests run.  The       *)
(* session enrolls anew and, unless three codes stood in for the face, is    *)
(* given a new generation of codes, inserted row by row.                     *)
(***************************************************************************)
EXTENDS Naturals, FiniteSets

CONSTANTS
  Codes,      \* recovery codes
  Gens,       \* generations of recovery codes
  GenOf,      \* the generation of each code
  FirstGen,   \* the generation of the account's enrollment
  Tokens,     \* recovery tokens
  Passkeys,   \* passkeys of the account
  OldKeys,    \* those it was enrolled with
  Sids,       \* session ids
  Workers,    \* requests in flight at once
  Needed,     \* RECOVERY_CODES_FOR_BYPASS
  MaxFaults,  \* bound: failures and expired tokens in one behaviour
  None

ASSUME RecoveryAssumption ==
  /\ GenOf \in [Codes -> Gens] /\ FirstGen \in Gens
  /\ OldKeys \subseteq Passkeys
  /\ Needed \in Nat \ {0} /\ MaxFaults \in Nat
  /\ None \notin Codes /\ None \notin Gens /\ None \notin Tokens /\ None \notin Sids

VARIABLES
  rows,       \* codes in recovery_codes
  latest,     \* the generation of the row inserted last
  begun,      \* generations an enrollment has started to insert
  spent,      \* codes with a nullifier
  token,      \* the code a token in the cache was given for, or None
  minted,     \* tokens given out so far
  passkeys,   \* rows of passkey_credentials
  revoked,    \* passkeys with a revocation
  sids,       \* session ids given out so far
  open,       \* recovered sessions whose cookie a browser has had; they may last
  marked,     \* sessions with recovery_method = multi_code
  job,        \* what each worker is doing
  faults,     \* failures and expired tokens so far
  bought,     \* history: what each recovered session was paid with
  shared      \* history: codes that two recoveries had a claim on when one consumed them

vars == <<rows, latest, begun, spent, token, minted, passkeys, revoked, sids, open,
          marked, job, faults, bought, shared>>
issue == <<rows, latest, begun>>
sessions == <<sids, open, marked>>

\* Awaits of a request that recovers the account.
Recovering == {"consume", "consume_more", "revoke_read", "revoke", "drop_token",
               "session", "mark", "answer"}

\* codes: what the recovery was granted for; due: nullifiers still to insert,
\* or rows; keys: passkeys still to revoke; known: those there at the start.
Job == [pc : {"idle", "mint", "issue"} \cup Recovering,
        code : Codes \cup {None}, token : Tokens \cup {None},
        codes : SUBSET Codes, due : SUBSET Codes,
        keys : SUBSET Passkeys, known : SUBSET Passkeys,
        face : BOOLEAN, sid : Sids \cup {None}, gen : Gens \cup {None}]
Idle == [pc |-> "idle", code |-> None, token |-> None, codes |-> {}, due |-> {},
         keys |-> {}, known |-> {}, face |-> FALSE, sid |-> None, gen |-> None]

\* The codes a request has paid with and has no session for yet.
Paid(w) ==
  LET j == job[w] IN
  CASE j.pc = "consume_more" -> (j.codes \ j.due) \cup {j.code}
    [] j.pc \in {"revoke_read", "revoke", "drop_token", "session"} -> j.codes
    [] OTHER -> {}

\* A request that has found c good, or has a token for it, and has yet to consume it.
MaySpend(w, c) ==
  \/ job[w].pc = "mint" /\ job[w].code = c
  \/ job[w].pc \in {"consume", "consume_more"} /\ c \in job[w].codes \ Paid(w)

\* Beside the request w, which is about to consume c, another one or a token has it.
HeldElsewhere(w, c) ==
  \/ \E v \in Workers \ {w} : MaySpend(v, c)
  \/ \E t \in Tokens \ {job[w].token} : token[t] = c

Goto(w, pc) == job' = [job EXCEPT ![w].pc = pc]
Finish(w)   == job' = [job EXCEPT ![w] = Idle]
Begin(w, j) == job[w].pc = "idle" /\ job' = [job EXCEPT ![w] = j]

-----------------------------------------------------------------------------
\* The account is enrolled and has the codes of its first generation.
Init ==
  /\ rows = {c \in Codes : GenOf[c] = FirstGen}
  /\ latest = FirstGen
  /\ begun = {FirstGen}
  /\ spent = {}
  /\ token = [t \in Tokens |-> None]
  /\ minted = {}
  /\ passkeys = OldKeys
  /\ revoked = {}
  /\ sids = {} /\ open = {} /\ marked = {}
  /\ job = [w \in Workers |-> Idle]
  /\ faults = 0
  /\ bought = {}
  /\ shared = {}

\* A code verifies while its generation is the latest and it has no nullifier.
Valid(c) == c \in rows /\ GenOf[c] = latest /\ c \notin spent

-----------------------------------------------------------------------------
(* POST /auth/recovery/verify: the code is verified, not consumed.          *)

\* Mistakes to be found: the nullifier is not looked for; any row's generation
\* will do; the row is not looked for.
VerifyUsed(w, c) ==
  /\ c \in rows /\ GenOf[c] = latest
  /\ Begin(w, [Idle EXCEPT !.pc = "mint", !.code = c])
  /\ UNCHANGED <<issue, spent, token, minted, passkeys, revoked, sessions, faults,
                 bought, shared>>

VerifyAnyGeneration(w, c) ==
  /\ c \in rows \ spent
  /\ Begin(w, [Idle EXCEPT !.pc = "mint", !.code = c])
  /\ UNCHANGED <<issue, spent, token, minted, passkeys, revoked, sessions, faults,
                 bought, shared>>

VerifyNoRow(w, c) ==
  /\ c \notin spent
  /\ Begin(w, [Idle EXCEPT !.pc = "mint", !.code = c])
  /\ UNCHANGED <<issue, spent, token, minted, passkeys, revoked, sessions, faults,
                 bought, shared>>

\* Its three SELECTs are one step: the token is set later anyhow, and nothing
\* is looked at again.
VerifyCode(w, c) ==
  /\ Valid(c)
  /\ Begin(w, [Idle EXCEPT !.pc = "mint", !.code = c])
  /\ UNCHANGED <<issue, spent, token, minted, passkeys, revoked, sessions, faults,
                 bought, shared>>

MintToken(w) ==
  /\ job[w].pc = "mint"
  /\ \E t \in Tokens \ minted :
       /\ token' = [token EXCEPT ![t] = job[w].code]
       /\ minted' = minted \cup {t}
  /\ Finish(w)
  /\ UNCHANGED <<issue, spent, passkeys, revoked, sessions, faults, bought, shared>>

\* Ten minutes pass.
TokenExpires(t) ==
  /\ token[t] # None
  /\ faults < MaxFaults /\ faults' = faults + 1
  /\ token' = [token EXCEPT ![t] = None]
  /\ UNCHANGED <<issue, spent, minted, passkeys, revoked, sessions, job, bought, shared>>

-----------------------------------------------------------------------------
(* POST /auth/recovery/biometric and POST /auth/recovery/multi-code.        *)

\* With codes beside the token's, or with none: then it is by the face.  The token
\* stays until its request drops it, so that two requests may use it.
Recover(w, t, codes) ==
  /\ token[t] # None
  /\ Begin(w, [Idle EXCEPT !.pc = "consume", !.code = token[t], !.token = t,
                           !.codes = codes \cup {token[t]}, !.due = codes,
                           !.known = passkeys, !.face = (codes = {})])
  /\ shared' = IF \E v \in Workers : job[v].token = t THEN shared \cup {token[t]}
                                                       ELSE shared
  /\ UNCHANGED <<issue, spent, token, minted, passkeys, revoked, sessions, faults, bought>>

\* The page found a face, which is all the server asks.
RecoverByFace(w, t) == Recover(w, t, {})

\* Of the codes sent the first Needed are verified; the token's own may be
\* among them.
RecoverByCodes(w, t, codes) ==
  /\ Cardinality(codes) = Needed
  /\ \A c \in codes : Valid(c)
  /\ Recover(w, t, codes)

\* INSERT a nullifier, ON CONFLICT DO NOTHING: a code someone else has used
\* meanwhile passes unnoticed.
Nullify(w, c) ==
  /\ spent' = spent \cup {c}
  /\ shared' = IF HeldElsewhere(w, c) THEN shared \cup {c} ELSE shared

\* consumeRecoveryCode: the code of the token is consumed first.
Consume(w) ==
  LET j == job[w] IN
  /\ j.pc = "consume"
  /\ Nullify(w, j.code)
  /\ Goto(w, IF j.due = {} THEN "revoke_read" ELSE "consume_more")
  /\ UNCHANGED <<issue, token, minted, passkeys, revoked, sessions, faults, bought>>

\* consumeRecoveryCodes goes on through the other codes, one INSERT each.
ConsumeMore(w) ==
  LET j == job[w] IN
  /\ j.pc = "consume_more"
  /\ \E c \in j.due :
       /\ Nullify(w, c)
       /\ job' = [job EXCEPT ![w].due = @ \ {c},
                             ![w].pc = IF j.due = {c} THEN "revoke_read" ELSE @]
  /\ UNCHANGED <<issue, token, minted, passkeys, revoked, sessions, faults, bought>>

\* A mistake to be found: one passkey is taken for all there are.
RevokeReadOne(w) ==
  /\ job[w].pc = "revoke_read"
  /\ \E k \in SUBSET (passkeys \ revoked) :
       /\ Cardinality(k) <= 1 /\ (k = {} => passkeys = revoked)
       /\ job' = [job EXCEPT ![w].keys = k,
                             ![w].pc = IF k = {} THEN "drop_token" ELSE "revoke"]
  /\ UNCHANGED <<issue, spent, token, minted, passkeys, revoked, sessions, faults,
                 bought, shared>>

\* revokeAllCredentialsForSubject: SELECT those not revoked, then INSERT one
\* revocation each.
RevokeRead(w) ==
  /\ job[w].pc = "revoke_read"
  /\ job' = [job EXCEPT ![w].keys = passkeys \ revoked,
                        ![w].pc = IF passkeys \subseteq revoked THEN "drop_token"
                                                                 ELSE "revoke"]
  /\ UNCHANGED <<issue, spent, token, minted, passkeys, revoked, sessions, faults,
                 bought, shared>>

RevokeOne(w) ==
  /\ job[w].pc = "revoke"
  /\ \E k \in job[w].keys :
       /\ revoked' = revoked \cup {k}
       /\ job' = [job EXCEPT ![w].keys = @ \ {k},
                             ![w].pc = IF job[w].keys = {k} THEN "drop_token" ELSE @]
  /\ UNCHANGED <<issue, spent, token, minted, passkeys, sessions, faults, bought,
                 shared>>

DropToken(w) ==
  /\ job[w].pc = "drop_token"
  /\ token' = [token EXCEPT ![job[w].token] = None]
  /\ Goto(w, "session")
  /\ UNCHANGED <<issue, spent, minted, passkeys, revoked, sessions, faults, bought,
                 shared>>

CreateSession(w) ==
  LET j == job[w] IN
  /\ j.pc = "session"
  /\ \E s \in Sids \ sids :
       /\ sids' = sids \cup {s}
       /\ bought' = bought \cup {[sid |-> s, codes |-> j.codes, known |-> j.known,
                                  face |-> j.face]}
       /\ job' = [job EXCEPT ![w].sid = s,
                             ![w].pc = IF j.face THEN "answer" ELSE "mark"]
  /\ UNCHANGED <<issue, spent, token, minted, passkeys, revoked, open, marked,
                 faults, shared>>

\* A mistake to be found: a session bought with codes is not marked.
MarkNothing(w) ==
  /\ job[w].pc = "mark"
  /\ Goto(w, "answer")
  /\ UNCHANGED <<issue, spent, token, minted, passkeys, revoked, sessions, faults,
                 bought, shared>>

\* recovery_method:<sid> = multi_code, before the browser gets the cookie.
MarkMethod(w) ==
  /\ job[w].pc = "mark"
  /\ marked' = marked \cup {job[w].sid}
  /\ Goto(w, "answer")
  /\ UNCHANGED <<issue, spent, token, minted, passkeys, revoked, sids, open,
                 faults, bought, shared>>

Answer(w) ==
  /\ job[w].pc = "answer"
  /\ open' = open \cup {job[w].sid}
  /\ Finish(w)
  /\ UNCHANGED <<issue, spent, token, minted, passkeys, revoked, sids, marked,
                 faults, bought, shared>>

-----------------------------------------------------------------------------
(* /ui/recovery/enroll: a new passkey, a new enrollment.                    *)

RegisterPasskey(k) ==
  /\ k \notin passkeys
  /\ passkeys' = passkeys \cup {k}
  /\ UNCHANGED <<issue, spent, token, minted, revoked, sessions, job, faults, bought,
                 shared>>

\* completeEnrollment, in a recovered session or in any other of the account, begins
\* to insert a new generation.  It leaves the codes alone if the page says
\* skip_recovery_code_regen, which the page does only after it has asked how the
\* session was recovered and has had an answer: before, and if asking fails, it takes
\* the face for granted.
Enroll(w, g) ==
  /\ g \notin begun
  /\ begun' = begun \cup {g}
  /\ Begin(w, [Idle EXCEPT !.pc = "issue", !.gen = g,
                           !.due = {c \in Codes : GenOf[c] = g}])
  /\ UNCHANGED <<rows, latest, spent, token, minted, passkeys, revoked, sessions,
                 faults, bought, shared>>

\* One row at a time; the newest row's generation is the one that counts.
InsertCode(w) ==
  LET j == job[w] IN
  /\ j.pc = "issue"
  /\ \E c \in j.due :
       /\ rows' = rows \cup {c}
       /\ latest' = j.gen
       /\ job' = [job EXCEPT ![w] = IF j.due = {c} THEN Idle
                                    ELSE [j EXCEPT !.due = @ \ {c}]]
  /\ UNCHANGED <<begun, spent, token, minted, passkeys, revoked, sessions, faults,
                 bought, shared>>

-----------------------------------------------------------------------------
\* A statement fails, the process stops or the answer is lost: what the
\* handler wrote stays.
HandlerFails(w) ==
  /\ job[w].pc # "idle"
  /\ faults < MaxFaults
  /\ faults' = faults + 1
  /\ Finish(w)
  /\ UNCHANGED <<issue, spent, token, minted, passkeys, revoked, sessions, bought,
                 shared>>

Handler(w) ==
  \/ MintToken(w) \/ Consume(w) \/ ConsumeMore(w) \/ RevokeRead(w) \/ RevokeOne(w)
  \/ DropToken(w) \/ CreateSession(w) \/ MarkMethod(w) \/ Answer(w) \/ InsertCode(w)

Next ==
  \/ \E w \in Workers, c \in Codes : VerifyCode(w, c)
  \/ \E w \in Workers, t \in Tokens : RecoverByFace(w, t)
  \/ \E w \in Workers, t \in Tokens, codes \in SUBSET Codes : RecoverByCodes(w, t, codes)
  \/ \E w \in Workers, g \in Gens : Enroll(w, g)
  \/ \E w \in Workers : Handler(w) \/ HandlerFails(w)
  \/ \E t \in Tokens : TokenExpires(t)
  \/ \E k \in Passkeys : RegisterPasskey(k)

Spec == Init /\ [][Next]_vars

-----------------------------------------------------------------------------
Purchase == [sid : Sids, codes : SUBSET Codes, known : SUBSET Passkeys, face : BOOLEAN]

\* The state is well typed, nullifiers are those of codes that exist, and
\* generations those an enrollment began.
TypeOK ==
  /\ rows \subseteq Codes /\ spent \subseteq rows /\ shared \subseteq Codes
  /\ latest \in begun /\ begun \subseteq Gens
  /\ \A c \in rows : GenOf[c] \in begun
  /\ token \in [Tokens -> Codes \cup {None}] /\ minted \subseteq Tokens
  /\ \A t \in Tokens : token[t] # None => t \in minted
  /\ passkeys \subseteq Passkeys /\ revoked \subseteq passkeys
  /\ sids \subseteq Sids /\ open \subseteq sids
  /\ marked \subseteq sids
  /\ job \in [Workers -> Job]
  /\ faults \in 0..MaxFaults
  /\ bought \subseteq Purchase

\* A code, alone or among others, buys two sessions only if two recoveries had a claim
\* on it before it was consumed: when one consumed it, another had it in a token or had
\* found it good, or two used one token at once.  Once consumed with no such claim
\* about, it buys nothing more, however often it is sent and recoveries break off.
OneRecoveryUnlessHeld ==
  \A b1, b2 \in bought : b1 # b2 => b1.codes \cap b2.codes \subseteq shared

\* ui.ts, in the file of codes given to the user: "Each code can only be used once."
CodesSingleUse ==
  \A b1, b2 \in bought : b1 # b2 => b1.codes \cap b2.codes = {}

\* A recovered account is not left with the passkeys of the device it was
\* recovered from: whatever recoveries failed half way or ran beside, those
\* there when this one began are revoked before its session exists.
OldPasskeysEnd ==
  \A b \in bought : b.known \subseteq revoked

\* A code is out of use: used up or superseded, and nobody holds it.
Closed(c) ==
  /\ c \in rows
  /\ \A t \in Tokens : token[t] # c
  /\ \A w \in Workers : c \notin job[w].codes /\ job[w].code # c
  /\ \/ c \in spent
     \/ GenOf[c] # latest /\ \A w \in Workers : job[w].gen # GenOf[c]

Uses(c) == {b \in bought : c \in b.codes}

\* A code that is out of use stays so and buys no session any more, whatever
\* enrollments are under way.
ClosedIsFinal ==
  [][\A c \in Codes : Closed(c) => Closed(c)' /\ Uses(c)' = Uses(c)]_vars

\* A session bought with codes in place of the face is known as such before
\* anyone can use it, so that its page can be told.
CodesAreMarked ==
  \A b \in bought : b.sid \in open => (b.sid \in marked <=> ~b.face)

-----------------------------------------------------------------------------
\* The inductive invariant behind the four.

\* Codes, passkeys, sessions and generations a request carries are real ones.
Carries(w) ==
  LET j == job[w] IN
  /\ j.code # None => j.code \in rows
  /\ j.codes \subseteq rows
  /\ j.keys \subseteq passkeys /\ j.known \subseteq passkeys
  /\ j.sid # None => j.sid \in sids
  /\ j.gen # None => j.gen \in begun
  /\ j.pc \in {"mint"} \cup Recovering => j.code # None
  /\ j.pc \in Recovering =>
       j.due \subseteq j.codes /\ j.code \in j.codes /\ j.token # None
  /\ j.pc = "consume" => j.codes \subseteq j.due \cup {j.code}
  /\ j.pc = "consume_more" => j.due # {}
  /\ j.pc = "issue" => j.gen # None /\ \A c \in j.due : GenOf[c] = j.gen
  /\ j.pc \in {"mark", "answer"} => j.sid # None

JobsCarry ==
  /\ \A t \in Tokens : token[t] # None => token[t] \in rows
  /\ \A w \in Workers : Carries(w)

\* Whoever paid inserted the nullifiers or met them.
PaidIsSpent ==
  /\ \A w \in Workers : Paid(w) \subseteq spent
  /\ \A b \in bought : b.codes \subseteq spent

\* Who has paid with a code that nobody shared is alone with it: no request and no
\* other token has a claim on it, and no session was bought with it.
PaidAlone ==
  \A w \in Workers : \A c \in Paid(w) \ shared :
    /\ \A v \in Workers \ {w} : c \notin Paid(v) /\ ~MaySpend(v, c)
    /\ \A t \in Tokens : token[t] = c => t = job[w].token
    /\ \A b \in bought : c \notin b.codes

\* Nor has anyone once its session exists.
BoughtAlone ==
  \A b \in bought : \A c \in b.codes \ shared :
    /\ \A v \in Workers : ~MaySpend(v, c)
    /\ \A t \in Tokens : token[t] # c

\* A request has dropped its token, which is never given out again, before its session.
TokensDropped ==
  \A w \in Workers :
    /\ job[w].token # None => job[w].token \in minted
    /\ job[w].pc = "session" => token[job[w].token] = None

\* A request past its SELECT has revoked, or is about to, what was there
\* when it began.
Revokes(w) ==
  /\ job[w].pc = "revoke" => job[w].known \subseteq revoked \cup job[w].keys
  /\ job[w].pc \in {"drop_token", "session"} => job[w].known \subseteq revoked

\* Marks are those of sessions bought with codes, and precede the answer.
Marks(w) ==
  \A b \in bought : b.sid = job[w].sid =>
    /\ job[w].pc = "mark" => ~b.face
    /\ job[w].pc = "answer" => (b.sid \in marked <=> ~b.face)

MarksMeanCodes ==
  \A b \in bought : b.sid \in sids /\ (b.sid \in marked => ~b.face)

\* What each step preserves; with it the properties above hold for every
\* number of codes, requests and failures.
IInv ==
  /\ TypeOK
  /\ JobsCarry
  /\ PaidIsSpent
  /\ PaidAlone /\ BoughtAlone /\ TokensDropped
  /\ OneRecoveryUnlessHeld
  /\ \A w \in Workers : Revokes(w)
  /\ OldPasskeysEnd
  /\ MarksMeanCodes /\ \A w \in Workers : Marks(w)
  /\ CodesAreMarked
=============================================================================
