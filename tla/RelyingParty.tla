---------------------------- MODULE RelyingParty ----------------------------
(***************************************************************************)
(* Signing in to an application (zauth-notes and zauth-sentinel, which share *)
(* this code line by line) through the authorization server, from the tabs   *)
(* of one browser.                                                         *)
(*                                                                         *)
(* All tabs share one cookie jar.  A request carries the cookies the jar has *)
(* when it is sent; its answer changes the jar, and the tab if it is still   *)
(* waiting, when it is delivered.  Answers come in any order, a request or   *)
(* its answer may be lost, and a tab that is loaded again waits no more.     *)
(***************************************************************************)
EXTENDS Naturals, FiniteSets

CONSTANTS
  Users,      \* accounts of the authorization server
  Weak,       \* those whose sign-in is below the assurance required
  Tabs,
  MaxMishaps, \* bound: requests, answers and exchanges that fail, sessions that expire,
              \* presses that do not lead to being signed in
  None

\* Names for sessions and attempts; one that nothing holds is used again.
Ids == 1..(4 * Cardinality(Tabs) + 2)

\* What the server answers a callback, a sign-out and a write.
Answers == {"ok", "refused", "logged_out", "unauthorized", "csrf_invalid", "saved"}

ASSUME RelyingPartyAssumption ==
  /\ Weak \subseteq Users /\ MaxMishaps \in Nat
  /\ None \notin Users \cup Tabs \cup Ids /\ None \notin Answers

VARIABLES
  session,  \* the sessions table: whose the session is, None: no such row
  jar,      \* cookies: the session and the attempt (state and PKCE verifier)
  used,     \* attempts whose code has been exchanged
  tab,      \* where each tab is, and what its page knows
  net,      \* requests under way
  mishaps

appVars == <<session, jar, used, tab, net, mishaps>>

Attempts == {jar.attempt} \cup {tab[t].attempt : t \in Tabs}
            \cup {r.attempt : r \in net} \cup {r.code : r \in net}
Sids == {s \in Ids : session[s] # None} \cup {jar.sid} \cup {tab[t].sid : t \in Tabs}
        \cup {r.sid : r \in net} \cup {r.csrf : r \in net} \cup {r.new : r \in net}
NewAttempt == CHOOSE i \in Ids \ Attempts : TRUE
NewSid == CHOOSE s \in Ids \ Sids : TRUE

\* A tab: the session its page was loaded with and the account it shows; the attempt it
\* started and who signed in; history: whether the user signed out of it, and whether no
\* one has signed in since.
Tab(at) == [at |-> at, sid |-> None, user |-> None, attempt |-> None,
            out |-> FALSE, calm |-> FALSE]

AppInit ==
  /\ session = [s \in Ids |-> None] /\ jar = [sid |-> None, attempt |-> None]
  /\ used = {} /\ tab = [t \in Tabs |-> Tab("landing")] /\ net = {}
  /\ mishaps = 0

Mishap == mishaps < MaxMishaps /\ mishaps' = mishaps + 1

Live(s) == s # None /\ session[s] # None

\* A request: the cookies, the page's CSRF token (the session it is made of) and, in a
\* callback, the code; user: who signed in for the code or what the page shows.
Request(kind, t) ==
  [kind |-> kind, tab |-> t, sid |-> jar.sid, attempt |-> jar.attempt, code |-> None,
   csrf |-> tab[t].sid, user |-> tab[t].user, stage |-> "sent", answer |-> None,
   new |-> None]

\* GET /api/session, with the cookies there are after the step.
AskSession(t) ==
  [kind |-> "session", tab |-> t, sid |-> jar'.sid, attempt |-> None, code |-> None,
   csrf |-> None, user |-> None, stage |-> "sent", answer |-> None, new |-> None]

Waiting(t) == {r \in net : r.tab = t}

\* The page of a tab is left: nobody waits for its requests any more, and what only
\* reads is as good as gone.
Left(t) == (net \ Waiting(t))
           \cup {[r EXCEPT !.tab = None] : r \in {q \in Waiting(t) : q.kind # "session"}}

\* A page that is loading; it asks for the session.
Loading(t, out) == [Tab("loading") EXCEPT !.out = out, !.calm = tab[t].calm]

-----------------------------------------------------------------------------
\* GET /login: a new state and verifier, kept in cookies that replace those of an
\* attempt of another tab.
Alone(t) == \A o \in Tabs \ {t} : tab[o].at \notin {"away", "completing"}
Login(t) ==
  /\ tab[t].at = "landing" /\ Ids \ Attempts # {}
  /\ IF Alone(t) THEN UNCHANGED mishaps ELSE Mishap
  /\ jar' = [jar EXCEPT !.attempt = NewAttempt]
  /\ used' = used \ {NewAttempt}
  /\ tab' = [tab EXCEPT ![t] = [Tab("away") EXCEPT !.attempt = NewAttempt]]
  /\ net' = Left(t)
  /\ UNCHANGED <<session>>

\* The callback page is loaded and its script calls callback/complete.
Complete(t, code, u) ==
  /\ tab' = [tab EXCEPT ![t] = [@ EXCEPT !.at = "completing", !.user = u]]
  /\ net' = Left(t) \cup {[Request("complete", t) EXCEPT !.code = code, !.user = u]}

\* The user signs in at the authorization server (prompt=login), which redirects.
Grant(t, u) ==
  /\ tab[t].at = "away"
  /\ IF u \in Weak THEN Mishap ELSE UNCHANGED mishaps
  /\ Complete(t, tab[t].attempt, u)
  /\ UNCHANGED <<session, jar, used>>

\* The consent is denied: the callback has an error and no code.
Refuse(t) ==
  /\ tab[t].at = "away" /\ Mishap
  /\ Complete(t, None, None)
  /\ UNCHANGED <<session, jar, used>>

\* The callback page is loaded again, with the same code.
ReloadCallback(t) ==
  /\ tab[t].at = "completing" /\ tab[t].user # None /\ Mishap
  /\ Complete(t, tab[t].attempt, tab[t].user)
  /\ UNCHANGED <<session, jar, used>>

\* The application's page is loaded again.
Reload(t) ==
  /\ tab[t].at \in {"landing", "app", "leaving"} /\ Mishap
  /\ tab' = [tab EXCEPT ![t] = Loading(t, FALSE)]
  /\ UNCHANGED jar
  /\ net' = Left(t) \cup {AskSession(t)}
  /\ UNCHANGED <<session, used>>

\* handleSave of a page that shows an account; the button is disabled while saving.
Save(t) ==
  /\ tab[t].at \in {"app", "leaving"} /\ \A r \in Waiting(t) : r.kind # "save"
  /\ Mishap
  /\ net' = net \cup {Request("save", t)}
  /\ UNCHANGED <<session, jar, used, tab>>

\* handleLogout; the page stays as it is until the answer, and may do it again.  It is
\* calm unless an answer to an older question is still to come.
SignOut(t) ==
  /\ tab[t].at \in {"app", "leaving"}
  /\ Mishap
  /\ net' = net \cup {Request("logout", t)}
  /\ tab' = [tab EXCEPT ![t] = [@ EXCEPT !.at = "leaving",
                                          !.calm = \A r \in Waiting(t) : r.kind # "session"]]
  /\ UNCHANGED <<session, jar, used>>

-----------------------------------------------------------------------------
Becomes(r, q) == net' = (net \ {r}) \cup {q}
Answered(r, a) == [r EXCEPT !.stage = "answered", !.answer = a]
Answer(r, a) == Becomes(r, Answered(r, a))

\* The state must be the cookie's, and the verifier beside it then fits the code.
\* The authorization server looks at the code and marks it used in two steps.
Redeem(r) ==
  /\ r \in net /\ r.kind = "complete" /\ r.stage = "sent"
  /\ IF r.code # None /\ r.code = r.attempt /\ r.code \notin used
     THEN Becomes(r, [r EXCEPT !.stage = "exchanged"])
     ELSE Answer(r, "refused")
  /\ UNCHANGED <<session, jar, used, tab, mishaps>>

\* The token, userinfo and, if the assurance is enough, a session beside those that
\* the user may already have.
CreateSession(r) ==
  /\ r \in net /\ r.kind = "complete" /\ r.stage = "exchanged" /\ Ids \ Sids # {}
  /\ used' = used \cup {r.code}
  /\ IF r.user \in Weak
     THEN Answer(r, "refused") /\ UNCHANGED session
     ELSE /\ session' = [session EXCEPT ![NewSid] = r.user]
          /\ Becomes(r, [Answered(r, "ok") EXCEPT !.new = NewSid])
  /\ UNCHANGED <<jar, tab, mishaps>>

\* POST /api/logout.
Logout(r) ==
  /\ r \in net /\ r.kind = "logout" /\ r.stage = "sent"
  /\ session' = IF r.sid = None THEN session ELSE [session EXCEPT ![r.sid] = None]
  /\ Answer(r, "logged_out")
  /\ UNCHANGED <<jar, used, tab, mishaps>>

\* A mistake to be found: a token that is the same in every session.
ValidCsrfAny(r) == r.csrf # None

\* createCsrfToken hashes the session's id: a token fits its session only.
ValidCsrf(r) == r.csrf = r.sid

\* POST and PATCH of a document, behind requireAuth and requireCsrf: its owner is
\* the account of the cookie, whatever the page shows.  The row is answered.
SaveDocument(r) ==
  /\ r \in net /\ r.kind = "save" /\ r.stage = "sent"
  /\ IF ~Live(r.sid)
     THEN Answer(r, "unauthorized")
     ELSE IF ~ValidCsrf(r)
     THEN Answer(r, "csrf_invalid")
     ELSE Becomes(r, [Answered(r, "saved") EXCEPT !.new = session[r.sid]])
  /\ UNCHANGED <<session, jar, used, tab, mishaps>>

-----------------------------------------------------------------------------
\* A mistake to be found: a browser that has a session keeps it.
NewJarKeepsSession(r) ==
  CASE r.kind = "complete" /\ r.answer = "refused" -> [jar EXCEPT !.attempt = None]
    [] r.kind = "complete" /\ r.answer # "refused" ->
         [sid |-> IF jar.sid = None THEN r.new ELSE jar.sid, attempt |-> None]
    [] r.kind = "logout" -> [jar EXCEPT !.sid = None]
    [] OTHER -> jar

\* The Set-Cookie headers of an answer, whatever the jar has got since: both a
\* callback that is accepted and one that is refused clear the attempt.
NewJar(r) ==
  CASE r.kind = "complete" /\ r.answer = "refused" -> [jar EXCEPT !.attempt = None]
    [] r.kind = "complete" /\ r.answer # "refused" -> [sid |-> r.new, attempt |-> None]
    [] r.kind = "logout" -> [jar EXCEPT !.sid = None]
    [] OTHER -> jar

\* A mistake to be found: signing out shows the landing page without asking.
PageSignsOut(r, answer) ==
  LET t == r.tab IN
  CASE r.kind = "complete" -> Loading(t, FALSE)
    [] r.kind = "logout" -> [tab[t] EXCEPT !.at = "landing", !.out = TRUE]
    [] r.kind = "save" -> IF answer = "unauthorized" THEN Loading(t, FALSE) ELSE tab[t]
    [] r.kind = "session" /\ answer # "failed" /\ Live(r.sid) ->
         [Tab("app") EXCEPT !.sid = r.sid, !.user = session[r.sid]]
    [] OTHER -> [tab[t] EXCEPT !.at = "landing", !.out = @ /\ answer # "failed"]

\* The requests the page still waits for once it has acted on an answer: a callback
\* leaves it, the others ask for the session from where it is.
Stays(r) == IF r.kind = "complete" THEN Left(r.tab) ELSE net

\* What the page does with the answer, or with a failure; a session is looked up when
\* its answer is delivered.
Page(r, answer) ==
  LET t == r.tab IN
  CASE r.kind = "complete" -> Loading(t, FALSE)
    [] r.kind = "logout" -> Loading(t, TRUE)
    [] r.kind = "save" -> IF answer = "unauthorized" THEN Loading(t, FALSE) ELSE tab[t]
    [] r.kind = "session" /\ answer # "failed" /\ Live(r.sid) ->
         [Tab("app") EXCEPT !.sid = r.sid, !.user = session[r.sid]]
    [] OTHER -> [tab[t] EXCEPT !.at = "landing", !.out = @ /\ answer # "failed"]

\* A page that is loaded, by the answer to another request, asks for the session.  A
\* code or a session that no cookie, tab or request has is forgotten.
Show(r, answer) ==
  LET t == r.tab
      shown == IF t = None THEN tab ELSE [tab EXCEPT ![t] = Page(r, answer)]
      asks == t # None /\ r.kind # "session" /\ shown[t].at = "loading"
  IN
  /\ tab' = [o \in Tabs |-> [shown[o] EXCEPT !.calm = @ /\ jar'.sid \in {jar.sid, None}]]
  /\ net' = (IF asks THEN Stays(r) \cup {AskSession(t)} ELSE net)
            \ {r, [r EXCEPT !.tab = None]}
  /\ used' = used \cap ({tab'[o].attempt : o \in Tabs} \cup {q.code : q \in net'})
  /\ LET held == {jar'.sid} \cup {tab'[o].sid : o \in Tabs}
                \cup UNION {{q.sid, q.csrf, q.new} : q \in net'}
     IN  session' = [s \in Ids |-> IF s \in held THEN session[s] ELSE None]

Deliver(r) ==
  /\ r \in net /\ (r.stage = "answered" \/ r.kind = "session")
  /\ jar' = NewJar(r)
  /\ Show(r, r.answer)
  /\ UNCHANGED mishaps

\* A request or an answer is lost, or the server fails.
Lose(r) ==
  /\ r \in net /\ r.stage # "exchanged" /\ Mishap
  /\ UNCHANGED jar
  /\ Show(r, "failed")

\* The token endpoint or userinfo fails.
RedeemFails(r) ==
  /\ r \in net /\ r.stage = "exchanged" /\ Mishap
  /\ Answer(r, "refused")
  /\ used' \in {used, used \cup {r.code}}
  /\ UNCHANGED <<session, jar, tab>>

\* SESSION_TTL_SECONDS pass.
Expire(s) ==
  /\ session[s] # None /\ Mishap
  /\ session' = [session EXCEPT ![s] = None]
  /\ UNCHANGED <<jar, used, tab, net>>

-----------------------------------------------------------------------------
Serve(r) ==
  \/ Redeem(r) \/ CreateSession(r) \/ Logout(r) \/ SaveDocument(r)

User(t) ==
  \/ Login(t) \/ Refuse(t) \/ ReloadCallback(t) \/ Reload(t) \/ Save(t) \/ SignOut(t)
  \/ \E u \in Users : Grant(t, u)

AppNext ==
  \/ \E r \in net : Serve(r) \/ Deliver(r) \/ Lose(r) \/ RedeemFails(r)
  \/ \E t \in Tabs : User(t)
  \/ \E s \in Ids : Expire(s)

\* Requests are served and answered; the user goes on signing in, in one tab at a time.
Fairness ==
  /\ WF_appVars(\E r \in net : Serve(r) \/ Deliver(r))
  /\ \A t \in Tabs :
       WF_appVars((Alone(t) /\ Login(t)) \/ \E u \in Users \ Weak : Grant(t, u))

AppSpec == AppInit /\ [][AppNext]_appVars /\ Fairness

-----------------------------------------------------------------------------
\* Whatever the other tabs have signed in and out of, a document is never saved
\* under another account than the one its page shows.
SavedUnderAccountShown ==
  \A r \in net : r.kind = "save" /\ r.answer = "saved" => r.new = r.user

\* Whose sign-out ended with the landing page, by an answer of the server and not by
\* a failure, holds no session, whatever was lost, unless someone signed in since.
SignedOutMeansOut ==
  \A t \in Tabs : tab[t].at = "landing" /\ tab[t].out /\ tab[t].calm => ~Live(jar.sid)

\* Tabs that cross each other's attempts, requests lost, codes sent twice, sessions
\* that end: who goes on signing in gets into the application, in every tab.
SignInSucceeds == \A t \in Tabs : []<>(tab[t].at = "app")

-----------------------------------------------------------------------------
(* The inductive invariant.                                                 *)

IdOrNone == Ids \cup {None}
AccountOrNone == Users \cup {None}

TabState ==
  [at : {"landing", "away", "completing", "loading", "app", "leaving"}, sid : IdOrNone,
   user : AccountOrNone, attempt : IdOrNone, out : BOOLEAN, calm : BOOLEAN]

RequestState ==
  [kind : {"session", "complete", "save", "logout"}, tab : Tabs \cup {None},
   sid : IdOrNone, attempt : IdOrNone, code : IdOrNone, csrf : IdOrNone,
   user : AccountOrNone, stage : {"sent", "exchanged", "answered"},
   answer : Answers \cup {None},
   new : IdOrNone \cup Users]

\* A row that a save is answered with names its owner, a callback the session it made.
AppTypeOK ==
  /\ session \in [Ids -> AccountOrNone]
  /\ jar \in [sid : IdOrNone, attempt : IdOrNone]
  /\ used \subseteq IdOrNone
  /\ tab \in [Tabs -> TabState]
  /\ net \subseteq RequestState
  /\ mishaps \in 0..MaxMishaps
  /\ \A r \in net : r.kind = "complete" => r.new \in IdOrNone

\* A session that has been given out is that of one account until it ends.
Names(s, u) == s # None => session[s] \in {None, u}

\* What a page shows, if it is the application's, and what its requests to save carry
\* of it.
PagesName ==
  \A t \in Tabs : /\ Names(tab[t].sid, tab[t].user)
                  /\ tab[t].at \in {"away", "completing"} => tab[t].sid = None
SavesName == \A r \in net : r.kind = "save" => Names(r.csrf, r.user)

\* A page that asks who is signed in, its user gone and nobody come since, asks for
\* the session the browser has, or has already lost.
AsksForJar ==
  \A r \in net : r.kind = "session" /\ r.tab # None /\ tab[r.tab].calm =>
    jar.sid \in {r.sid, None}

AppInv ==
  /\ AppTypeOK
  /\ PagesName
  /\ SavesName
  /\ AsksForJar
  /\ SavedUnderAccountShown
  /\ SignedOutMeansOut
=============================================================================
