------------------------------- MODULE Consent -------------------------------
(***************************************************************************)
(* From /oauth2/authorize over the consent page to the authorization code,   *)
(* for one browser (routes/oidc.ts, GET /ui/consent, authRequestService and  *)
(* sessionService of zauth-core).                                            *)
(*                                                                         *)
(* The authorization request and the session live in the cache and can       *)
(* vanish at any time; the consent form therefore carries a signed copy of   *)
(* the request, which the POST uses for ten minutes when the cache has       *)
(* nothing.  Handlers are cut at their awaits and interleave.  Time passes   *)
(* in ticks that age every request and form.                                *)
(***************************************************************************)
EXTENDS Naturals, FiniteSets

CONSTANTS
  Requests,   \* authorization requests, one per call of /oauth2/authorize
  Sids,       \* session ids
  Subjects,   \* accounts
  Clients,    \* registered OAuth clients
  ClientOf,   \* the client of each request
  Scopes,     \* what a client may ask for
  ScopesOf,   \* what each request asks for: nothing, for ?scope=
  Workers,    \* HTTP requests in flight at once
  Forced,     \* requests with prompt=login; all under config.authDisableSso
  RequestTtl, \* config.authRequestTtlSeconds, in ticks
  HandoffTtl, \* what a consumed handoff sets the TTL to
  ShowTtl,    \* what rendering the consent page sets the TTL to
  FormTtl,    \* how long the signed form is accepted
  MaxEntries, \* bound: sign-ins and calls of /oauth2/authorize in one behaviour
  MaxFaults,  \* bound: failures in one behaviour
  None

ASSUME ConsentAssumption ==
  /\ ClientOf \in [Requests -> Clients]
  /\ ScopesOf \in [Requests -> SUBSET Scopes]
  /\ Forced \subseteq Requests
  /\ {RequestTtl, HandoffTtl, ShowTtl, FormTtl} \subseteq Nat \ {0}
  /\ {MaxEntries, MaxFaults} \subseteq Nat
  /\ None \notin Requests \cup Sids \cup Subjects

VARIABLES
  opened,     \* requests /oauth2/authorize was called for
  ttl,        \* ticks the cache keeps a request, 0 when it has none
  shown,      \* requests whose consent form was rendered
  form,       \* ticks the newest form of a request is still accepted
  owner,      \* whom a session id was given to, None when not given yet
  live,       \* sessions the cache holds
  cookie,     \* the session id the browser sends
  consents,   \* <<subject, client, scope>> recorded in consents
  job,        \* what each worker is doing
  faults,     \* failures so far
  codes,      \* history: <<request, session>> an authorization code was made for
  answers,    \* history: codes and denials a session was good for
  allowed,    \* history: <<request, session>> of the Continue clicks on forced requests
  older,      \* history: the sessions given before a forced request was opened
  disturbed   \* history: sessions of handlers that overlapped or failed

vars == <<opened, ttl, shown, form, owner, live, cookie, consents, job, faults,
          codes, answers, allowed, older, disturbed>>
browser == <<shown, form, owner, cookie>>
history == <<codes, answers, allowed, older, disturbed>>

\* Awaits of a handler that has read its session and not yet let go of it.
Holding == {"has_consent", "upsert", "code", "delete_request", "deny", "end_session"}
Awaits == Holding \cup {"drop_session", "open", "extend_read", "extend_save",
                        "render", "session"}

\* allow: the decision; fromForm: the cache has no request to delete; page: an
\* extension is part of rendering the consent page.
Job == [pc : {"idle"} \cup Awaits, req : Requests \cup {None}, sid : Sids \cup {None},
        allow : BOOLEAN, fromForm : BOOLEAN, page : BOOLEAN]
Idle == [pc |-> "idle", req |-> None, sid |-> None, allow |-> FALSE,
         fromForm |-> FALSE, page |-> FALSE]

Goto(w, pc) == job' = [job EXCEPT ![w].pc = pc]
Finish(w)   == job' = [job EXCEPT ![w] = Idle]
Begin(w, j) == job[w].pc = "idle" /\ job' = [job EXCEPT ![w] = j]

-----------------------------------------------------------------------------
Init ==
  /\ opened = {}
  /\ ttl = [r \in Requests |-> 0]
  /\ shown = {}
  /\ form = [r \in Requests |-> 0]
  /\ owner = [s \in Sids |-> None]
  /\ live = {}
  /\ cookie = None
  /\ consents = {}
  /\ job = [w \in Workers |-> Idle]
  /\ faults = 0
  /\ codes = {}
  /\ answers = [s \in Sids |-> 0]
  /\ allowed = {}
  /\ older = [r \in Requests |-> {}]
  /\ disturbed = {}

Given == {s \in Sids : owner[s] # None}
RoomForOneMore == Cardinality(opened) + Cardinality(Given) < MaxEntries

\* A handler reads session s while another one still holds it.
Overlaps(w, s) ==
  \E v \in Workers \ {w} : job[v].pc \in Holding /\ job[v].sid = s
Disturb(w, s) == disturbed' = IF Overlaps(w, s) THEN disturbed \cup {s} ELSE disturbed

-----------------------------------------------------------------------------
(* Signing in happens elsewhere (Handoff, passkey, recovery).               *)

SignIn(s, u) ==
  /\ owner[s] = None /\ RoomForOneMore
  /\ owner' = [owner EXCEPT ![s] = u]
  /\ live' = live \cup {s}
  /\ cookie' = s
  /\ UNCHANGED <<opened, ttl, shown, form, consents, job, faults, history>>

\* A session's TTL ends, or its user logs out; a cookie that names no session
\* is as good as none.  Where /oauth2/authorize?prompt=none answers
\* login_required it has changed nothing but this.
SessionGone(s) ==
  /\ s \in live
  /\ live' = live \ {s}
  /\ UNCHANGED <<opened, ttl, browser, consents, job, faults, history>>

-----------------------------------------------------------------------------
(* GET or POST /oauth2/authorize.                                           *)

\* A mistake to be found: a forced login does not look at the cookie, and so
\* drops neither it nor its session.
AuthorizeKeepsSession(w, r) ==
  /\ r \notin opened /\ RoomForOneMore
  /\ opened' = opened \cup {r}
  /\ older' = [older EXCEPT ![r] = IF r \in Forced THEN Given ELSE {}]
  /\ Begin(w, [Idle EXCEPT !.req = r, !.fromForm = TRUE,
       !.sid = IF r \in Forced THEN None ELSE cookie,
       !.pc = IF r \notin Forced /\ cookie \in live THEN "has_consent" ELSE "open"])
  /\ UNCHANGED <<ttl, browser, live, consents, faults, disturbed,
                 codes, answers, allowed>>

\* A forced login drops the browser's session first; otherwise a live one is
\* used.
Authorize(w, r) ==
  /\ r \notin opened /\ RoomForOneMore
  /\ opened' = opened \cup {r}
  /\ older' = [older EXCEPT ![r] = IF r \in Forced THEN Given ELSE {}]
  /\ Begin(w, [Idle EXCEPT !.req = r, !.sid = cookie, !.fromForm = TRUE,
       !.pc = IF r \in Forced THEN (IF cookie = None THEN "open" ELSE "drop_session")
              ELSE IF cookie \in live THEN "has_consent" ELSE "open"])
  /\ IF r \notin Forced /\ cookie \in live THEN Disturb(w, cookie) ELSE UNCHANGED disturbed
  /\ UNCHANGED <<ttl, browser, live, consents, faults,
                 codes, answers, allowed>>

DropSession(w) ==
  /\ job[w].pc = "drop_session"
  /\ live' = live \ {job[w].sid}
  /\ Goto(w, "open")
  /\ UNCHANGED <<opened, ttl, browser, consents, faults, history>>

\* createAuthRequest, then off to the login or the consent page.  The answer
\* clears the cookie of a dropped session, or the one that replaced it.
OpenRequest(w) ==
  /\ job[w].pc = "open"
  /\ ttl' = [ttl EXCEPT ![job[w].req] = RequestTtl]
  /\ cookie' = IF job[w].req \in Forced /\ job[w].sid # None THEN None ELSE cookie
  /\ Finish(w)
  /\ UNCHANGED <<opened, shown, form, owner, live, consents, faults, history>>

\* The rows of consents that request r of session s needs.
Rows(r, s) == {<<owner[s], ClientOf[r], scope>> : scope \in ScopesOf[r]}

\* Consent given before, or no scope to consent to, lets a live session
\* through to the code.
HasConsent(w) ==
  LET j == job[w] IN
  /\ j.pc = "has_consent"
  /\ Goto(w, IF Rows(j.req, j.sid) \subseteq consents THEN "code" ELSE "open")
  /\ UNCHANGED <<opened, ttl, browser, live, consents, faults, history>>

-----------------------------------------------------------------------------
(* extendAuthRequest, called when a handoff is consumed and by GET          *)
(* /ui/consent: read, then set with the new TTL.                            *)

ExtendRead(w) ==
  LET j == job[w] IN
  /\ j.pc = "extend_read"
  /\ IF ttl[j.req] > 0 THEN Goto(w, "extend_save")
     ELSE IF j.page THEN Goto(w, "render") ELSE Finish(w)
  /\ UNCHANGED <<opened, ttl, browser, live, consents, faults, history>>

ExtendSave(w) ==
  LET j == job[w] IN
  /\ j.pc = "extend_save"
  /\ ttl' = [ttl EXCEPT ![j.req] = IF j.page THEN ShowTtl ELSE HandoffTtl]
  /\ IF j.page THEN Goto(w, "render") ELSE Finish(w)
  /\ UNCHANGED <<opened, browser, live, consents, faults, history>>

\* GET /auth/handoff/status found the handoff of this request approved.
HandoffConsumed(w, r) ==
  /\ r \in opened
  /\ Begin(w, [Idle EXCEPT !.pc = "extend_read", !.req = r])
  /\ UNCHANGED <<opened, ttl, browser, live, consents, faults, history>>

\* GET /ui/consent.
ShowConsent(w, r) ==
  /\ ttl[r] > 0                                        \* else /ui/login
  /\ Begin(w, [Idle EXCEPT !.pc = "extend_read", !.req = r, !.sid = cookie,
                           !.page = TRUE])
  /\ UNCHANGED <<opened, ttl, browser, live, consents, faults, history>>

\* A session is required; the form gets a signed copy of the request.
RenderConsent(w) ==
  LET r == job[w].req IN
  /\ job[w].pc = "render"
  /\ IF job[w].sid \in live
     THEN shown' = shown \cup {r} /\ form' = [form EXCEPT ![r] = FormTtl]
     ELSE UNCHANGED <<shown, form>>                    \* /ui/login
  /\ Finish(w)
  /\ UNCHANGED <<opened, ttl, owner, live, cookie, consents, faults, history>>

-----------------------------------------------------------------------------
(* POST /oauth2/consent, sent once or more often by any rendered form.       *)

ConsentBegin(w, r, allow) ==
  /\ r \in shown
  /\ ttl[r] > 0 \/ form[r] > 0                         \* else /ui/login
  /\ Begin(w, [Idle EXCEPT !.pc = "session", !.req = r, !.sid = cookie,
                           !.allow = allow, !.fromForm = ttl[r] = 0])
  /\ allowed' = IF allow /\ r \in Forced THEN allowed \cup {<<r, cookie>>} ELSE allowed
  /\ UNCHANGED <<opened, ttl, browser, live, consents, faults,
                 codes, answers, older, disturbed>>

\* A mistake to be found: every decision counts as Continue.
ConsentSessionAllows(w) ==
  LET j == job[w] IN
  /\ j.pc = "session"
  /\ IF j.sid \in live THEN Disturb(w, j.sid) /\ Goto(w, "upsert")
                       ELSE UNCHANGED disturbed /\ Finish(w)
  /\ UNCHANGED <<opened, ttl, browser, live, consents, faults,
                 codes, answers, allowed, older>>

\* getSession.  Without a session the browser goes to the app, with neither a code nor
\* an error, if the request came from the form, and to the login page otherwise.
ConsentSession(w) ==
  LET j == job[w] IN
  /\ j.pc = "session"
  /\ IF j.sid \in live
     THEN /\ Disturb(w, j.sid)
          /\ Goto(w, IF j.allow THEN "upsert" ELSE IF j.fromForm THEN "end_session" ELSE "deny")
          /\ answers' = IF j.allow THEN answers ELSE [answers EXCEPT ![j.sid] = @ + 1]
     ELSE Finish(w) /\ UNCHANGED <<disturbed, answers>>
  /\ UNCHANGED <<opened, ttl, browser, live, consents, faults, codes, allowed, older>>

\* One row per scope: none for a request without scopes.
UpsertConsent(w) ==
  LET j == job[w] IN
  /\ j.pc = "upsert"
  /\ consents' = consents \cup Rows(j.req, j.sid)
  /\ Goto(w, "code")
  /\ UNCHANGED <<opened, ttl, browser, live, faults, history>>

\* createAuthorizationCode, in both handlers.
CreateCode(w) ==
  LET j == job[w] IN
  /\ j.pc = "code"
  /\ codes' = codes \cup {<<j.req, j.sid>>}
  /\ answers' = [answers EXCEPT ![j.sid] = @ + 1]
  /\ Goto(w, IF j.fromForm THEN "end_session" ELSE "delete_request")
  /\ UNCHANGED <<opened, ttl, browser, live, consents, faults,
                 allowed, older, disturbed>>

\* deleteAuthRequest, after a code or a denial.
DeleteRequest(w) ==
  /\ job[w].pc \in {"delete_request", "deny"}
  /\ ttl' = [ttl EXCEPT ![job[w].req] = 0]
  /\ Goto(w, "end_session")
  /\ UNCHANGED <<opened, browser, live, consents, faults, history>>

\* A mistake to be found: the answer goes out, the session stays.
EndSessionKeeps(w) ==
  /\ job[w].pc = "end_session"
  /\ Finish(w)
  /\ UNCHANGED <<opened, ttl, browser, live, consents, faults, history>>

\* deleteSession and clearSessionCookie; the browser goes to the app.
EndSession(w) ==
  /\ job[w].pc = "end_session"
  /\ live' = live \ {job[w].sid}
  /\ cookie' = None
  /\ Finish(w)
  /\ UNCHANGED <<opened, ttl, shown, form, owner, consents, faults, history>>

-----------------------------------------------------------------------------
(* Time and failures.                                                       *)

\* One tick of every TTL: the cache drops what reaches 0.
Tick ==
  /\ \E r \in Requests : ttl[r] > 0 \/ form[r] > 0
  /\ ttl'  = [r \in Requests |-> IF ttl[r] > 0 THEN ttl[r] - 1 ELSE 0]
  /\ form' = [r \in Requests |-> IF form[r] > 0 THEN form[r] - 1 ELSE 0]
  /\ UNCHANGED <<opened, shown, owner, live, cookie, consents, job, faults, history>>

\* A handler fails at an await: what it did stays, some of the rows it was
\* inserting included.
HandlerFails(w) ==
  /\ job[w].pc # "idle"
  /\ faults < MaxFaults
  /\ IF job[w].pc = "upsert"
     THEN \E some \in SUBSET Rows(job[w].req, job[w].sid) : consents' = consents \cup some
     ELSE UNCHANGED consents
  /\ faults' = faults + 1
  /\ disturbed' = IF job[w].pc \in Holding THEN disturbed \cup {job[w].sid} ELSE disturbed
  /\ Finish(w)
  /\ UNCHANGED <<opened, ttl, browser, live, codes, answers, allowed, older>>

\* zauth-core restarts on its in-memory cache: sessions and requests are gone.
RestartInMemory ==
  /\ faults < MaxFaults
  /\ faults' = faults + 1
  /\ ttl' = [r \in Requests |-> 0]
  /\ live' = {}
  /\ job' = [w \in Workers |-> Idle]
  /\ disturbed' = disturbed \cup
       {s \in Sids : \E w \in Workers : job[w].pc \in Holding /\ job[w].sid = s}
  /\ UNCHANGED <<opened, browser, consents, codes, answers, allowed, older>>

\* fallbackToMemory, when Redis reports an error: the same loss, but the process and
\* its handlers go on.
FallBackToMemory ==
  /\ faults < MaxFaults
  /\ faults' = faults + 1
  /\ ttl' = [r \in Requests |-> 0]
  /\ live' = {}
  /\ UNCHANGED <<opened, browser, consents, job, history>>

Handler(w) ==
  \/ DropSession(w) \/ OpenRequest(w) \/ HasConsent(w)
  \/ ExtendRead(w) \/ ExtendSave(w) \/ RenderConsent(w)
  \/ ConsentSession(w) \/ UpsertConsent(w) \/ CreateCode(w) \/ DeleteRequest(w)
  \/ EndSession(w)

Next ==
  \/ \E s \in Sids, u \in Subjects : SignIn(s, u)
  \/ \E s \in Sids : SessionGone(s)
  \/ \E w \in Workers, r \in Requests :
       Authorize(w, r) \/ HandoffConsumed(w, r) \/ ShowConsent(w, r)
  \/ \E w \in Workers, r \in Requests, allow \in BOOLEAN : ConsentBegin(w, r, allow)
  \/ \E w \in Workers : Handler(w) \/ HandlerFails(w)
  \/ Tick
  \/ RestartInMemory \/ FallBackToMemory

Spec == Init /\ [][Next]_vars

-----------------------------------------------------------------------------
TypeOK ==
  /\ opened \subseteq Requests /\ shown \subseteq opened
  /\ ttl \in [Requests -> Nat] /\ form \in [Requests -> Nat]
  /\ \A r \in Requests : ttl[r] > 0 => r \in opened
  /\ owner \in [Sids -> Subjects \cup {None}]
  /\ live \subseteq Given
  /\ cookie \in Sids \cup {None}
  /\ consents \subseteq Subjects \X Clients \X Scopes
  /\ job \in [Workers -> Job]
  /\ \A w \in Workers : job[w].pc # "idle" => job[w].req \in opened
  /\ \A w \in Workers : job[w].pc \in Holding => job[w].sid \in Sids /\ owner[job[w].sid] # None
  /\ faults \in 0..MaxFaults
  /\ codes \subseteq opened \X Given
  /\ answers \in [Sids -> Nat]
  /\ allowed \subseteq Requests \X (Sids \cup {None})
  /\ older \in [Requests -> SUBSET Sids]
  /\ disturbed \subseteq Sids

\* Every scope of a code goes back to a recorded consent of the session's user
\* for the request's client; where the login was forced the user pressed
\* Continue on this very request in this very session.  A request without
\* scopes, from a session that is there already, gets its code with no consent
\* recorded and no page shown.
CodesAreConsented ==
  \A c \in codes :
    /\ Rows(c[1], c[2]) \subseteq consents
    /\ c[1] \in Forced => c \in allowed

\* Sessions are for one answer: a session whose handlers neither overlapped
\* nor broke off buys one code or one denial, even though the form still has
\* a copy of the request and may be submitted again.
OneAnswerPerSession ==
  \A s \in Sids \ disturbed : answers[s] <= 1

\* A forced login is a login: no session signed in before the app asked is
\* ever good for that request, also when unforced requests run beside it.
FreshLogin ==
  \A c \in codes : c[1] \in Forced => c[2] \notin older[c[1]]

-----------------------------------------------------------------------------
(* What each step preserves; with it the properties above hold for any      *)
(* number of requests, sessions, handlers in flight, failures and ticks.    *)

\* What worker w carries on its way to a code.
Consented(w) ==
  LET j == job[w] IN
  /\ j.pc = "code" => Rows(j.req, j.sid) \subseteq consents
  /\ j.pc = "has_consent" => j.req \notin Forced
  /\ j.req \in Forced /\ (j.pc \in {"upsert", "code"} \/ (j.pc = "session" /\ j.allow))
       => <<j.req, j.sid>> \in allowed

\* A handler that has not answered yet.
Answers(w, s) == job[w].pc \in {"has_consent", "upsert", "code"} /\ job[w].sid = s
Holds(w, s)   == job[w].pc \in Holding /\ job[w].sid = s

\* One handler at a time holds an undisturbed session, none after its answer
\* but the one that gave it.
HeldByOne(s) ==
  /\ \A v, w \in Workers : Holds(v, s) /\ Holds(w, s) => v = w
  /\ \A w \in Workers : Answers(w, s) => answers[s] = 0
  /\ s \in live /\ answers[s] # 0 => \E w \in Workers : Holds(w, s)

\* Once a forced request is out, the browser's session is younger than it.
Stale(r) == r \in Forced /\ cookie \in older[r]
Fresh(w) ==
  LET j == job[w] IN
  /\ j.pc = "drop_session" => j.sid # None
  /\ \/ j.pc \in {"extend_save", "render", "session"} \cup Holding
     \/ j.pc = "extend_read" /\ j.page
     \/ j.pc = "open" /\ j.sid = None
     => ~ Stale(j.req)
  /\ j.req \in Forced /\ j.pc \in {"session"} \cup Holding => j.sid \notin older[j.req]

IInv ==
  /\ TypeOK
  /\ CodesAreConsented
  /\ \A w \in Workers : Consented(w)
  /\ OneAnswerPerSession
  /\ \A s \in Sids : owner[s] = None => answers[s] = 0
  /\ \A s \in Sids \ disturbed : HeldByOne(s)
  /\ FreshLogin
  /\ \A r \in opened : older[r] \subseteq Given
  /\ \A r \in Requests : ttl[r] > 0 \/ r \in shown => ~ Stale(r)
  /\ \A w \in Workers : Fresh(w)
=============================================================================
