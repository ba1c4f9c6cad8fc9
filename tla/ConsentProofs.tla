---------------------------- MODULE ConsentProofs ----------------------------
(***************************************************************************)
(* Proofs about Consent, for any number of requests, sessions, accounts,     *)
(* applications, HTTP requests in flight, failures and ticks.               *)
(***************************************************************************)
EXTENDS Consent, TLAPS

\* The other handlers stand where they stood.
Others(w) == \A v \in Workers \ {w} : job'[v] = job[v]

\* Worker w goes on to pc with what it carries.
Moves(w, pc) ==
  /\ job'[w].pc = pc
  /\ job'[w].req = job[w].req /\ job'[w].sid = job[w].sid
  /\ job'[w].allow = job[w].allow /\ job'[w].fromForm = job[w].fromForm
  /\ job'[w].page = job[w].page
  /\ Others(w)

JobsOK ==
  /\ job \in [Workers -> Job]
  /\ \A w \in Workers : job[w].pc # "idle" => job[w].req \in opened
  /\ \A w \in Workers :
       job[w].pc \in Holding => job[w].sid \in Sids /\ owner[job[w].sid] # None

LEMMA JobFields ==
  ASSUME TypeOK, NEW w \in Workers
  PROVE  /\ job[w] \in Job
         /\ job[w].pc \in {"idle"} \cup Awaits
         /\ job[w].req \in Requests \cup {None} /\ job[w].sid \in Sids \cup {None}
         /\ job[w].allow \in BOOLEAN /\ job[w].fromForm \in BOOLEAN
         /\ job[w].page \in BOOLEAN
         /\ job[w].pc # "idle" => job[w].req \in opened /\ job[w].req \in Requests
         /\ job[w].pc \in Holding => job[w].sid \in Sids /\ owner[job[w].sid] \in Subjects
<1>1. job[w] \in Job
  BY DEF TypeOK
<1>2. /\ job[w].pc # "idle" => job[w].req \in opened /\ job[w].req \in Requests
      /\ job[w].pc \in Holding => job[w].sid \in Sids /\ owner[job[w].sid] \in Subjects
  BY DEF TypeOK
<1> QED
  BY <1>1, <1>2 DEF Job

\* A handler that takes its next step keeps what it carries.
LEMMA GotoMoves ==
  ASSUME TypeOK, NEW w \in Workers, NEW pc \in {"idle"} \cup Awaits, Goto(w, pc)
  PROVE  Moves(w, pc) /\ job' \in [Workers -> Job]
<1> DEFINE j == job[w]
           k == [pc |-> pc, req |-> j.req, sid |-> j.sid, allow |-> j.allow,
                 fromForm |-> j.fromForm, page |-> j.page]
<1>1. j \in Job
  BY DEF TypeOK
<1>2. [j EXCEPT !.pc = pc] = k
  BY <1>1 DEF Job
<1>3. k \in Job
  BY <1>1 DEF Job
<1>4. job' = [job EXCEPT ![w] = k]
  BY <1>2 DEF Goto
<1> HIDE DEF k
<1>5. job'[w] = k /\ Others(w) /\ job' \in [Workers -> Job]
  BY <1>3, <1>4 DEF TypeOK, Others
<1> QED
  BY <1>5 DEF Moves, k

\* An answered or broken handler leaves its worker idle.
LEMMA FinishIdles ==
  ASSUME TypeOK, NEW w \in Workers, Finish(w)
  PROVE  /\ job'[w] = Idle /\ job'[w].pc = "idle" /\ job'[w].req = None /\ job'[w].sid = None
         /\ job'[w].page = FALSE /\ Others(w) /\ job' \in [Workers -> Job]
<1>1. Idle \in Job
  BY DEF Idle, Job
<1>2. job'[w] = Idle /\ Others(w) /\ job' \in [Workers -> Job]
  BY <1>1 DEF TypeOK, Finish, Others
<1> QED
  BY <1>2 DEF Idle

\* A new handler starts with exactly what its request brings.
LEMMA BeginStarts ==
  ASSUME TypeOK, NEW w \in Workers, NEW j \in Job, Begin(w, j)
  PROVE  job[w].pc = "idle" /\ job'[w] = j /\ Others(w) /\ job' \in [Workers -> Job]
BY DEF Begin, TypeOK, Others

\* What a step does to one handler decides whether all are in order.
LEMMA JobsKeep ==
  ASSUME TypeOK, NEW w \in Workers, Others(w), job' \in [Workers -> Job],
         opened \subseteq opened', owner' = owner,
         job'[w].pc # "idle" => job'[w].req \in opened',
         job'[w].pc \in Holding => job'[w].sid \in Sids /\ owner[job'[w].sid] # None
  PROVE  JobsOK'
<1>1. ASSUME NEW v \in Workers
      PROVE  /\ job'[v].pc # "idle" => job'[v].req \in opened'
             /\ job'[v].pc \in Holding => job'[v].sid \in Sids /\ owner'[job'[v].sid] # None
  <2>1. CASE v = w
    BY <2>1
  <2>2. CASE v # w
    BY <2>2 DEF TypeOK, Others
  <2> QED
    BY <2>1, <2>2
<1> QED
  BY <1>1 DEF JobsOK

LEMMA MoveKeeps ==
  ASSUME TypeOK, NEW w \in Workers, NEW pc \in {"idle"} \cup Awaits, Goto(w, pc),
         UNCHANGED <<opened, owner>>, job[w].pc # "idle",
         pc \in Holding =>
           job[w].pc \in Holding \/ (job[w].sid \in Sids /\ owner[job[w].sid] # None)
  PROVE  JobsOK'
BY GotoMoves, JobsKeep, JobFields DEF Moves, TypeOK

LEMMA FinishKeeps ==
  ASSUME TypeOK, NEW w \in Workers, Finish(w), UNCHANGED <<opened, owner>>
  PROVE  JobsOK'
BY FinishIdles, JobsKeep DEF Holding

-----------------------------------------------------------------------------
(* What each action does to the job of its worker.                           *)

LEMMA AuthorizeEffect ==
  ASSUME TypeOK, NEW w \in Workers, NEW r \in Requests, Authorize(w, r)
  PROVE  /\ job[w].pc = "idle" /\ r \notin opened
         /\ job'[w].pc \in {"drop_session", "open", "has_consent"}
         /\ job'[w].pc = "has_consent" => r \notin Forced /\ cookie \in live
         /\ job'[w].pc = "drop_session" => cookie # None
         /\ job'[w].pc = "open" /\ r \in Forced => cookie = None
         /\ job'[w].req = r /\ job'[w].sid = cookie /\ job'[w].page = FALSE
         /\ Others(w) /\ JobsOK'
<1> DEFINE pc == IF r \in Forced THEN (IF cookie = None THEN "open" ELSE "drop_session")
                 ELSE IF cookie \in live THEN "has_consent" ELSE "open"
           j == [Idle EXCEPT !.req = r, !.sid = cookie, !.fromForm = TRUE, !.pc = pc]
<1>1. Begin(w, j) /\ r \notin opened
  BY DEF Authorize
<1>2. pc \in Awaits /\ cookie \in Sids \cup {None}
  BY DEF Awaits, Holding, TypeOK
<1>3. j \in Job /\ j.pc = pc /\ j.req = r /\ j.sid = cookie /\ j.page = FALSE
  <2> HIDE DEF pc
  <2> QED
    BY <1>2 DEF Idle, Job
<1>4. job[w].pc = "idle" /\ job'[w] = j /\ Others(w) /\ job' \in [Workers -> Job]
  <2> HIDE DEF j
  <2> QED
    BY <1>1, <1>3, BeginStarts
<1>5. /\ job[w].pc = "idle"
      /\ job'[w].pc = pc /\ job'[w].req = r /\ job'[w].sid = cookie
      /\ job'[w].page = FALSE /\ Others(w) /\ job' \in [Workers -> Job]
  <2> HIDE DEF j
  <2> QED
    BY <1>3, <1>4
<1>6. job'[w].pc \in Holding => job'[w].sid \in Sids /\ owner[job'[w].sid] # None
  <2>1. job'[w].pc \in Holding => cookie \in live
    BY <1>5 DEF Holding
  <2> QED
    BY <1>5, <2>1 DEF TypeOK, Given
<1>7. owner' = owner /\ opened' = opened \cup {r}
  BY DEF Authorize, browser
<1>8. JobsOK'
  BY <1>5, <1>6, <1>7, JobsKeep
<1> QED
  BY <1>1, <1>5, <1>8

LEMMA DropEffect ==
  ASSUME TypeOK, NEW w \in Workers, DropSession(w)
  PROVE  job[w].pc = "drop_session" /\ Moves(w, "open") /\ JobsOK'
<1>1. job[w].pc = "drop_session" /\ Goto(w, "open") /\ UNCHANGED <<opened, owner>>
  BY DEF DropSession, browser
<1> QED
  BY <1>1, GotoMoves, MoveKeeps DEF Awaits, Holding

LEMMA OpenEffect ==
  ASSUME TypeOK, NEW w \in Workers, OpenRequest(w)
  PROVE  job[w].pc = "open" /\ job'[w] = Idle /\ Others(w) /\ JobsOK'
<1>1. job[w].pc = "open" /\ Finish(w) /\ UNCHANGED <<opened, owner>>
  BY DEF OpenRequest
<1> QED
  BY <1>1, FinishIdles, FinishKeeps

\* What a request needs are rows of consents.
LEMMA RowsAreRows ==
  ASSUME NEW r \in Requests, NEW s, owner[s] \in Subjects
  PROVE  Rows(r, s) \subseteq Subjects \X Clients \X Scopes
<1>1. ClientOf[r] \in Clients /\ ScopesOf[r] \subseteq Scopes
  BY ConsentAssumption
<1> QED
  BY <1>1 DEF Rows

LEMMA HasConsentEffect ==
  ASSUME TypeOK, NEW w \in Workers, HasConsent(w)
  PROVE  /\ job[w].pc = "has_consent" /\ JobsOK'
         /\ \/ Moves(w, "code") /\ Rows(job[w].req, job[w].sid) \subseteq consents
            \/ Moves(w, "open")
<1>1. job[w].pc = "has_consent" /\ UNCHANGED <<opened, owner>>
  BY DEF HasConsent, browser
<1>2. CASE Rows(job[w].req, job[w].sid) \subseteq consents
  <2>1. Goto(w, "code")
    BY <1>2 DEF HasConsent
  <2> QED
    BY <1>1, <1>2, <2>1, GotoMoves, MoveKeeps DEF Awaits, Holding
<1>3. CASE ~ (Rows(job[w].req, job[w].sid) \subseteq consents)
  <2>1. Goto(w, "open")
    BY <1>3 DEF HasConsent
  <2> QED
    BY <1>1, <2>1, GotoMoves, MoveKeeps DEF Awaits, Holding
<1> QED
  BY <1>2, <1>3

\* Extending a request and rendering its page hold no session.
LEMMA ExtendEffect ==
  ASSUME TypeOK, NEW w \in Workers, ExtendRead(w) \/ ExtendSave(w)
  PROVE  /\ job[w].pc \in {"extend_read", "extend_save"} /\ JobsOK'
         /\ \/ /\ ExtendRead(w) /\ job[w].pc = "extend_read" /\ ttl[job[w].req] > 0
               /\ Moves(w, "extend_save")
            \/ job[w].page /\ Moves(w, "render")
            \/ job'[w] = Idle /\ Others(w)
<1>1. /\ job[w].pc \in {"extend_read", "extend_save"} /\ UNCHANGED <<opened, owner>>
      /\ \/ /\ ExtendRead(w) /\ job[w].pc = "extend_read"
            /\ ttl[job[w].req] > 0 /\ Goto(w, "extend_save")
         \/ job[w].page /\ Goto(w, "render")
         \/ Finish(w)
  BY DEF ExtendRead, ExtendSave, browser
<1>2. JobsOK'
  BY <1>1, MoveKeeps, FinishKeeps DEF Awaits, Holding
<1> QED
  BY <1>1, <1>2, GotoMoves, FinishIdles DEF Awaits

LEMMA ShowEffect ==
  ASSUME TypeOK, NEW w \in Workers, NEW r \in Requests,
         HandoffConsumed(w, r) \/ ShowConsent(w, r)
  PROVE  /\ job[w].pc = "idle" /\ r \in opened
         /\ job'[w].pc = "extend_read" /\ job'[w].req = r
         /\ job'[w].page => ttl[r] > 0
         /\ Others(w) /\ JobsOK'
<1>1. cookie \in Sids \cup {None} /\ UNCHANGED <<opened, owner>> /\ r \in opened
  BY DEF TypeOK, HandoffConsumed, ShowConsent, browser
<1>2. CASE HandoffConsumed(w, r)
  <2> DEFINE j == [Idle EXCEPT !.pc = "extend_read", !.req = r]
  <2>1. Begin(w, j)
    BY <1>2 DEF HandoffConsumed
  <2>2. j \in Job /\ j.pc = "extend_read" /\ j.req = r /\ j.page = FALSE
    BY DEF Idle, Job, Awaits
  <2> HIDE DEF j
  <2> QED
    BY <1>1, <2>1, <2>2, BeginStarts, JobsKeep DEF Holding
<1>3. CASE ShowConsent(w, r)
  <2> DEFINE j == [Idle EXCEPT !.pc = "extend_read", !.req = r, !.sid = cookie,
                               !.page = TRUE]
  <2>1. ttl[r] > 0 /\ Begin(w, j)
    BY <1>3 DEF ShowConsent
  <2>2. j \in Job /\ j.pc = "extend_read" /\ j.req = r
    BY <1>1 DEF Idle, Job, Awaits
  <2> HIDE DEF j
  <2> QED
    BY <1>1, <2>1, <2>2, BeginStarts, JobsKeep DEF Holding
<1> QED
  BY <1>2, <1>3

LEMMA RenderEffect ==
  ASSUME TypeOK, NEW w \in Workers, RenderConsent(w)
  PROVE  job[w].pc = "render" /\ job'[w] = Idle /\ Others(w) /\ JobsOK'
<1>1. job[w].pc = "render" /\ Finish(w) /\ UNCHANGED <<opened, owner>>
  BY DEF RenderConsent
<1> QED
  BY <1>1, FinishIdles, FinishKeeps

LEMMA BeginEffect ==
  ASSUME TypeOK, NEW w \in Workers, NEW r \in Requests, NEW allow \in BOOLEAN,
         ConsentBegin(w, r, allow)
  PROVE  /\ job[w].pc = "idle" /\ r \in shown
         /\ job'[w].pc = "session" /\ job'[w].req = r /\ job'[w].sid = cookie
         /\ job'[w].allow = allow /\ job'[w].page = FALSE
         /\ Others(w) /\ JobsOK'
<1> DEFINE f == (ttl[r] = 0)
           j == [Idle EXCEPT !.pc = "session", !.req = r, !.sid = cookie,
                             !.allow = allow, !.fromForm = f]
<1>1. /\ r \in shown /\ r \in opened /\ cookie \in Sids \cup {None} /\ f \in BOOLEAN
      /\ UNCHANGED <<opened, owner>> /\ Begin(w, j)
  BY DEF ConsentBegin, TypeOK, browser
<1>2. /\ j \in Job /\ j.pc = "session" /\ j.req = r /\ j.sid = cookie
      /\ j.allow = allow /\ j.page = FALSE
  <2> HIDE DEF f
  <2> QED
    BY <1>1 DEF Idle, Job, Awaits
<1> HIDE DEF f, j
<1>3. job[w].pc = "idle" /\ job'[w] = j /\ Others(w) /\ job' \in [Workers -> Job]
  BY <1>1, <1>2, BeginStarts
<1>4. JobsOK'
  BY <1>1, <1>2, <1>3, JobsKeep DEF Holding
<1> QED
  BY <1>1, <1>2, <1>3, <1>4

LEMMA SessionEffect ==
  ASSUME TypeOK, NEW w \in Workers, ConsentSession(w)
  PROVE  /\ job[w].pc = "session" /\ JobsOK'
         /\ \/ /\ job[w].sid \in live /\ job[w].sid \in Sids /\ Disturb(w, job[w].sid)
               /\ \/ job[w].allow /\ Moves(w, "upsert") /\ answers' = answers
                  \/ /\ Moves(w, "end_session") \/ Moves(w, "deny")
                     /\ answers' = [answers EXCEPT ![job[w].sid] = @ + 1]
            \/ job'[w] = Idle /\ Others(w) /\ UNCHANGED <<disturbed, answers>>
<1>1. job[w].pc = "session" /\ UNCHANGED <<opened, owner>>
  BY DEF ConsentSession, browser
<1>2. CASE job[w].sid \in live
  <2> DEFINE pc == IF job[w].allow THEN "upsert"
                   ELSE IF job[w].fromForm THEN "end_session" ELSE "deny"
  <2>1. /\ Goto(w, pc) /\ Disturb(w, job[w].sid)
        /\ answers' = IF job[w].allow THEN answers
                      ELSE [answers EXCEPT ![job[w].sid] = @ + 1]
    BY <1>2 DEF ConsentSession
  <2>2. pc \in {"upsert", "end_session", "deny"} /\ pc \in {"idle"} \cup Awaits
    BY DEF Awaits, Holding
  <2>3. job[w].sid \in Sids /\ owner[job[w].sid] # None
    BY <1>2 DEF TypeOK, Given
  <2>4. Moves(w, pc) /\ JobsOK'
    <3> HIDE DEF pc
    <3> QED
      BY <1>1, <2>1, <2>2, <2>3, GotoMoves, MoveKeeps
  <2>5. job[w].allow \/ ~ job[w].allow
    OBVIOUS
  <2> QED
    BY <1>1, <1>2, <2>1, <2>3, <2>4
<1>3. CASE job[w].sid \notin live
  <2>1. Finish(w) /\ UNCHANGED <<disturbed, answers>>
    BY <1>3 DEF ConsentSession
  <2> QED
    BY <1>1, <2>1, FinishIdles, FinishKeeps
<1> QED
  BY <1>2, <1>3

LEMMA UpsertEffect ==
  ASSUME TypeOK, NEW w \in Workers, UpsertConsent(w)
  PROVE  job[w].pc = "upsert" /\ Moves(w, "code") /\ JobsOK'
<1>1. job[w].pc = "upsert" /\ Goto(w, "code") /\ UNCHANGED <<opened, owner>>
  BY DEF UpsertConsent, browser
<1> QED
  BY <1>1, GotoMoves, MoveKeeps DEF Awaits, Holding

LEMMA CodeEffect ==
  ASSUME TypeOK, NEW w \in Workers, CreateCode(w)
  PROVE  /\ job[w].pc = "code" /\ JobsOK'
         /\ Moves(w, "end_session") \/ Moves(w, "delete_request")
<1>1. /\ job[w].pc = "code" /\ UNCHANGED <<opened, owner>>
      /\ Goto(w, "end_session") \/ Goto(w, "delete_request")
  BY DEF CreateCode, browser
<1> QED
  BY <1>1, GotoMoves, MoveKeeps DEF Awaits, Holding

LEMMA DeleteEffect ==
  ASSUME TypeOK, NEW w \in Workers, DeleteRequest(w)
  PROVE  job[w].pc \in {"delete_request", "deny"} /\ Moves(w, "end_session") /\ JobsOK'
<1>1. /\ job[w].pc \in {"delete_request", "deny"} /\ Goto(w, "end_session")
      /\ UNCHANGED <<opened, owner>>
  BY DEF DeleteRequest, browser
<1> QED
  BY <1>1, GotoMoves, MoveKeeps DEF Awaits, Holding

LEMMA EndEffect ==
  ASSUME TypeOK, NEW w \in Workers, EndSession(w)
  PROVE  job[w].pc = "end_session" /\ job'[w] = Idle /\ Others(w) /\ JobsOK'
<1>1. job[w].pc = "end_session" /\ Finish(w) /\ UNCHANGED <<opened, owner>>
  BY DEF EndSession
<1> QED
  BY <1>1, FinishIdles, FinishKeeps

LEMMA FailEffect ==
  ASSUME TypeOK, NEW w \in Workers, HandlerFails(w)
  PROVE  job'[w] = Idle /\ Others(w) /\ JobsOK'
<1>1. Finish(w) /\ UNCHANGED <<opened, owner>>
  BY DEF HandlerFails, browser
<1> QED
  BY <1>1, FinishIdles, FinishKeeps

-----------------------------------------------------------------------------
(* Type correctness.                                                        *)

LEMMA InitTypes == Init => TypeOK
<1> SUFFICES ASSUME Init PROVE TypeOK
  OBVIOUS
<1>1. Idle \in Job /\ Idle.pc = "idle"
  BY DEF Idle, Job
<1>2. job \in [Workers -> Job] /\ \A w \in Workers : job[w].pc = "idle"
  BY <1>1 DEF Init
<1>3. faults \in 0..MaxFaults
  BY ConsentAssumption DEF Init
<1> QED
  BY <1>2, <1>3 DEF Init, TypeOK, Given, Holding

LEMMA DisturbTypes ==
  ASSUME TypeOK, NEW w \in Workers, NEW s \in Sids, Disturb(w, s)
  PROVE  disturbed' \subseteq Sids
BY DEF TypeOK, Disturb

LEMMA TypeKeeps == TypeOK /\ [Next]_vars => TypeOK'
<1> SUFFICES ASSUME TypeOK, [Next]_vars PROVE TypeOK'
  OBVIOUS
<1> USE DEF JobsOK
<1>1. ASSUME NEW s \in Sids, NEW u \in Subjects, SignIn(s, u) PROVE TypeOK'
  <2>1. owner' \in [Sids -> Subjects \cup {None}] /\ Given' = Given \cup {s}
    BY <1>1, ConsentAssumption DEF SignIn, TypeOK, Given
  <2>2. \A t \in Given : owner'[t] = owner[t]
    BY <1>1 DEF SignIn, TypeOK, Given
  <2>3. JobsOK'
    BY <1>1, <2>2 DEF SignIn, TypeOK, Given
  <2> QED
    BY <1>1, <2>1, <2>3 DEF SignIn, TypeOK, history
<1>2. ASSUME NEW s \in Sids, SessionGone(s) PROVE TypeOK'
  BY <1>2 DEF SessionGone, TypeOK, Given, browser, history
<1>3. ASSUME NEW w \in Workers, NEW r \in Requests, Authorize(w, r) PROVE TypeOK'
  <2>1. JobsOK'
    BY <1>3, AuthorizeEffect
  <2>2. older' \in [Requests -> SUBSET Sids]
    BY <1>3 DEF Authorize, TypeOK, Given
  <2>3. disturbed' \subseteq Sids
    BY <1>3, DisturbTypes DEF Authorize, TypeOK, Given
  <2> QED
    BY <1>3, <2>1, <2>2, <2>3 DEF Authorize, TypeOK, Given, browser
<1>4. ASSUME NEW w \in Workers, NEW r \in Requests, HandoffConsumed(w, r) \/ ShowConsent(w, r)
      PROVE  TypeOK'
  <2>1. JobsOK'
    BY <1>4, ShowEffect
  <2> QED
    BY <1>4, <2>1 DEF HandoffConsumed, ShowConsent, TypeOK, Given, browser, history
<1>5. ASSUME NEW w \in Workers, NEW r \in Requests, NEW allow \in BOOLEAN,
             ConsentBegin(w, r, allow)
      PROVE  TypeOK'
  <2>1. JobsOK'
    BY <1>5, BeginEffect
  <2>2. allowed' \subseteq Requests \X (Sids \cup {None})
    BY <1>5 DEF ConsentBegin, TypeOK
  <2> QED
    BY <1>5, <2>1, <2>2 DEF ConsentBegin, TypeOK, Given, browser
<1>6. ASSUME NEW w \in Workers, DropSession(w) PROVE TypeOK'
  <2>1. JobsOK'
    BY <1>6, DropEffect
  <2> QED
    BY <1>6, <2>1 DEF DropSession, TypeOK, Given, browser, history
<1>7. ASSUME NEW w \in Workers, OpenRequest(w) PROVE TypeOK'
  <2>1. JobsOK' /\ job[w].req \in opened /\ job[w].req \in Requests
    BY <1>7, OpenEffect, JobFields
  <2>2. ttl' \in [Requests -> Nat] /\ \A r \in Requests : ttl'[r] > 0 => r \in opened
    BY <1>7, <2>1, ConsentAssumption DEF OpenRequest, TypeOK
  <2> QED
    BY <1>7, <2>1, <2>2 DEF OpenRequest, TypeOK, Given, history
<1>8. ASSUME NEW w \in Workers, HasConsent(w) PROVE TypeOK'
  <2>1. JobsOK'
    BY <1>8, HasConsentEffect
  <2> QED
    BY <1>8, <2>1 DEF HasConsent, TypeOK, Given, browser, history
<1>9. ASSUME NEW w \in Workers, ExtendRead(w) \/ ExtendSave(w) PROVE TypeOK'
  <2>1. JobsOK' /\ job[w].req \in opened /\ job[w].req \in Requests
    BY <1>9, ExtendEffect, JobFields
  <2>2. ttl' \in [Requests -> Nat] /\ \A r \in Requests : ttl'[r] > 0 => r \in opened
    BY <1>9, <2>1, ConsentAssumption DEF ExtendRead, ExtendSave, TypeOK
  <2> QED
    BY <1>9, <2>1, <2>2 DEF ExtendRead, ExtendSave, TypeOK, Given, browser, history
<1>10. ASSUME NEW w \in Workers, RenderConsent(w) PROVE TypeOK'
  <2>1. JobsOK' /\ job[w].req \in opened /\ job[w].req \in Requests
    BY <1>10, RenderEffect, JobFields
  <2>2. form' \in [Requests -> Nat] /\ shown' \subseteq opened
    BY <1>10, <2>1, ConsentAssumption DEF RenderConsent, TypeOK
  <2> QED
    BY <1>10, <2>1, <2>2 DEF RenderConsent, TypeOK, Given, history
<1>11. ASSUME NEW w \in Workers, ConsentSession(w) PROVE TypeOK'
  <2>1. JobsOK'
    BY <1>11, SessionEffect
  <2>2. answers' \in [Sids -> Nat] /\ disturbed' \subseteq Sids
    BY <1>11, SessionEffect, DisturbTypes DEF TypeOK
  <2> QED
    BY <1>11, <2>1, <2>2 DEF ConsentSession, TypeOK, Given, browser
<1>12. ASSUME NEW w \in Workers, UpsertConsent(w) PROVE TypeOK'
  <2>1. JobsOK' /\ job[w].req \in Requests /\ owner[job[w].sid] \in Subjects
    BY <1>12, UpsertEffect, JobFields DEF Holding
  <2>2. consents' \subseteq Subjects \X Clients \X Scopes
    BY <1>12, <2>1, RowsAreRows DEF UpsertConsent, TypeOK
  <2> QED
    BY <1>12, <2>1, <2>2 DEF UpsertConsent, TypeOK, Given, browser, history
<1>13. ASSUME NEW w \in Workers, CreateCode(w) PROVE TypeOK'
  <2>1. JobsOK' /\ job[w].req \in opened /\ job[w].sid \in Sids
    BY <1>13, CodeEffect, JobFields DEF Holding
  <2>1a. job[w].sid \in Given
    BY <1>13, <2>1, CodeEffect, JobFields, ConsentAssumption DEF Holding, Given
  <2>2. codes' \subseteq opened \X Given /\ answers' \in [Sids -> Nat]
    BY <1>13, <2>1, <2>1a DEF CreateCode, TypeOK
  <2> QED
    BY <1>13, <2>1, <2>2 DEF CreateCode, TypeOK, Given, browser
<1>14. ASSUME NEW w \in Workers, DeleteRequest(w) PROVE TypeOK'
  <2>1. JobsOK' /\ job[w].req \in Requests
    BY <1>14, DeleteEffect, JobFields
  <2>2. ttl' \in [Requests -> Nat] /\ \A r \in Requests : ttl'[r] > 0 => r \in opened
    BY <1>14, <2>1 DEF DeleteRequest, TypeOK
  <2> QED
    BY <1>14, <2>1, <2>2 DEF DeleteRequest, TypeOK, Given, browser, history
<1>15. ASSUME NEW w \in Workers, EndSession(w) PROVE TypeOK'
  <2>1. JobsOK'
    BY <1>15, EndEffect
  <2> QED
    BY <1>15, <2>1 DEF EndSession, TypeOK, Given, history
<1>16. ASSUME NEW w \in Workers, HandlerFails(w) PROVE TypeOK'
  <2>1. JobsOK'
    BY <1>16, FailEffect
  <2>2. disturbed' \subseteq Sids
    BY <1>16 DEF HandlerFails, TypeOK
  <2>3. faults' \in 0..MaxFaults
    BY <1>16, ConsentAssumption DEF HandlerFails, TypeOK
  <2>4. consents' \subseteq Subjects \X Clients \X Scopes
    <3>1. CASE job[w].pc = "upsert"
      <4>1. job[w].req \in Requests /\ owner[job[w].sid] \in Subjects
        BY <3>1, JobFields DEF Holding
      <4> QED
        BY <1>16, <3>1, <4>1, RowsAreRows DEF HandlerFails, TypeOK
    <3>2. CASE job[w].pc # "upsert"
      BY <1>16, <3>2 DEF HandlerFails, TypeOK
    <3> QED
      BY <3>1, <3>2
  <2> QED
    BY <1>16, <2>1, <2>2, <2>3, <2>4 DEF HandlerFails, TypeOK, Given, browser
<1>17. CASE Tick
  <2>1. ttl' \in [Requests -> Nat] /\ form' \in [Requests -> Nat]
    BY <1>17 DEF Tick, TypeOK
  <2>2. \A r \in Requests : ttl'[r] > 0 => r \in opened
    BY <1>17 DEF Tick, TypeOK
  <2> QED
    BY <1>17, <2>1, <2>2 DEF Tick, TypeOK, Given, history
<1>18. CASE RestartInMemory
  <2>1. Idle \in Job /\ Idle.pc = "idle"
    BY DEF Idle, Job
  <2>2. JobsOK'
    BY <1>18, <2>1 DEF RestartInMemory, Holding
  <2>3. faults' \in 0..MaxFaults
    BY <1>18, ConsentAssumption DEF RestartInMemory, TypeOK
  <2> QED
    BY <1>18, <2>2, <2>3 DEF RestartInMemory, TypeOK, Given, browser
<1>19. CASE FallBackToMemory
  <2>1. faults' \in 0..MaxFaults
    BY <1>19, ConsentAssumption DEF FallBackToMemory, TypeOK
  <2> QED
    BY <1>19, <2>1 DEF FallBackToMemory, TypeOK, Given, browser, history
<1>20. CASE UNCHANGED vars
  BY <1>20 DEF vars, TypeOK, Given
<1> QED
  BY <1>1, <1>2, <1>3, <1>4, <1>5, <1>6, <1>7, <1>8, <1>9, <1>10, <1>11, <1>12, <1>13,
     <1>14, <1>15, <1>16, <1>17, <1>18, <1>19, <1>20 DEF Next, Handler

-----------------------------------------------------------------------------
(* A code goes back to a consent.                                           *)

ConsentPart == CodesAreConsented /\ \A w \in Workers : Consented(w)

LEMMA IdleFields ==
  /\ Idle.pc = "idle" /\ Idle.req = None /\ Idle.sid = None
  /\ Idle.allow = FALSE /\ Idle.page = FALSE
BY DEF Idle

\* Consents and Continue clicks are never taken back, and a session stays with
\* its account: only the handlers that move can upset the rest.
LEMMA ConsentFrame ==
  ASSUME TypeOK, ConsentPart,
         \A v \in Workers : job'[v] = job[v] \/ Consented(v)',
         \A s \in Sids : owner[s] # None => owner'[s] = owner[s],
         consents \subseteq consents', allowed \subseteq allowed', codes' = codes
  PROVE  ConsentPart'
<1>1. ASSUME NEW c \in codes
      PROVE  /\ Rows(c[1], c[2])' \subseteq consents'
             /\ c[1] \in Forced => c \in allowed'
  <2>1. /\ Rows(c[1], c[2]) \subseteq consents
        /\ c[1] \in Forced => c \in allowed
    BY DEF ConsentPart, CodesAreConsented
  <2>2. c[2] \in Sids /\ owner[c[2]] # None
    BY DEF TypeOK, Given
  <2>3. Rows(c[1], c[2])' = Rows(c[1], c[2])
    BY <2>2 DEF Rows
  <2> QED
    BY <2>1, <2>2, <2>3
<1>2. ASSUME NEW v \in Workers PROVE Consented(v)'
  <2>1. CASE Consented(v)'
    BY <2>1
  <2>2. CASE job'[v] = job[v]
    <3>1. job'[v] = job[v] /\ Consented(v)
      BY <2>2 DEF ConsentPart
    <3>2. job[v].pc = "code" => owner'[job[v].sid] = owner[job[v].sid]
      BY JobFields DEF TypeOK, Holding
    <3>3. job[v].pc = "code" => Rows(job[v].req, job[v].sid)' = Rows(job[v].req, job[v].sid)
      BY <2>2, <3>2 DEF Rows
    <3> QED
      BY <3>1, <3>3 DEF Consented
  <2> QED
    BY <2>1, <2>2
<1> QED
  BY <1>1, <1>2 DEF ConsentPart, CodesAreConsented

\* The same for a step of one handler.
LEMMA ConsentOne ==
  ASSUME TypeOK, ConsentPart, NEW w \in Workers, Others(w), owner' = owner,
         consents \subseteq consents', allowed \subseteq allowed', codes' = codes,
         Consented(w)'
  PROVE  ConsentPart'
<1>1. \A v \in Workers : job'[v] = job[v] \/ Consented(v)'
  BY DEF Others
<1> QED
  BY <1>1, ConsentFrame

LEMMA ConsentKeeps == TypeOK /\ ConsentPart /\ [Next]_vars => ConsentPart'
<1> SUFFICES ASSUME TypeOK, ConsentPart, [Next]_vars PROVE ConsentPart'
  OBVIOUS
<1>1. ASSUME UNCHANGED job, \A s \in Sids : owner[s] # None => owner'[s] = owner[s],
             UNCHANGED <<consents, allowed, codes>>
      PROVE  ConsentPart'
  <2>1. \A v \in Workers : job'[v] = job[v] \/ Consented(v)'
    BY <1>1
  <2> QED
    BY <1>1, <2>1, ConsentFrame
<1>2. CASE \/ \E s \in Sids, u \in Subjects : SignIn(s, u)
           \/ \E s \in Sids : SessionGone(s)
           \/ Tick \/ FallBackToMemory \/ UNCHANGED vars
  BY <1>1, <1>2
     DEF SignIn, SessionGone, Tick, FallBackToMemory, vars, browser, history, TypeOK
<1>3. ASSUME NEW w \in Workers, job'[w].pc \notin {"code", "has_consent", "upsert", "session"},
             Others(w), owner' = owner, UNCHANGED <<consents, allowed, codes>>
      PROVE  ConsentPart'
  <2>1. Consented(w)'
    BY <1>3 DEF Consented
  <2> QED
    BY <1>3, <2>1, ConsentOne
<1>4. ASSUME NEW w \in Workers, NEW r \in Requests, Authorize(w, r) PROVE ConsentPart'
  <2>1. Consented(w)'
    BY <1>4, AuthorizeEffect DEF Consented
  <2> QED
    BY <1>4, <2>1, ConsentOne, AuthorizeEffect DEF Authorize, browser
<1>5. ASSUME NEW w \in Workers, NEW r \in Requests, HandoffConsumed(w, r) \/ ShowConsent(w, r)
      PROVE  ConsentPart'
  BY <1>3, <1>5, ShowEffect DEF HandoffConsumed, ShowConsent, browser, history
<1>6. ASSUME NEW w \in Workers, NEW r \in Requests, NEW allow \in BOOLEAN,
             ConsentBegin(w, r, allow)
      PROVE  ConsentPart'
  <2>1. Consented(w)'
    BY <1>6, BeginEffect DEF Consented, ConsentBegin
  <2> QED
    BY <1>6, <2>1, ConsentOne, BeginEffect DEF ConsentBegin, browser
<1>7. ASSUME NEW w \in Workers,
             \/ DropSession(w) \/ OpenRequest(w) \/ ExtendRead(w) \/ ExtendSave(w)
             \/ RenderConsent(w) \/ DeleteRequest(w) \/ EndSession(w)
      PROVE  ConsentPart'
  <2>1. job'[w].pc \in {"idle", "open", "extend_save", "render", "end_session"} /\ Others(w)
    BY <1>7, IdleFields, DropEffect, OpenEffect, ExtendEffect, RenderEffect, DeleteEffect,
       EndEffect DEF Moves
  <2>2. UNCHANGED <<owner, consents, allowed, codes>>
    BY <1>7 DEF DropSession, OpenRequest, ExtendRead, ExtendSave, RenderConsent,
       DeleteRequest, EndSession, browser, history
  <2> QED
    BY <1>3, <2>1, <2>2
<1>7a. ASSUME NEW w \in Workers, HandlerFails(w) PROVE ConsentPart'
  <2>1. Consented(w)' /\ Others(w)
    BY <1>7a, FailEffect, IdleFields DEF Consented
  <2>2. UNCHANGED <<owner, allowed, codes>> /\ consents \subseteq consents'
    BY <1>7a DEF HandlerFails, browser
  <2> QED
    BY <2>1, <2>2, ConsentOne
<1>8. ASSUME NEW w \in Workers, HasConsent(w) PROVE ConsentPart'
  <2>1. UNCHANGED <<owner, consents, allowed, codes>>
    BY <1>8 DEF HasConsent, browser, history
  <2>2. Consented(w) /\ job[w].pc = "has_consent"
    BY <1>8 DEF ConsentPart, HasConsent
  <2>3. Consented(w)' /\ Others(w)
    BY <1>8, <2>1, <2>2, HasConsentEffect DEF Consented, Moves, Rows
  <2> QED
    BY <2>1, <2>3, ConsentOne
<1>9. ASSUME NEW w \in Workers, ConsentSession(w) PROVE ConsentPart'
  <2>1. UNCHANGED <<owner, consents, allowed, codes>>
    BY <1>9 DEF ConsentSession, browser
  <2>2. Consented(w) /\ job[w].pc = "session"
    BY <1>9 DEF ConsentPart, ConsentSession
  <2>3. Consented(w)' /\ Others(w)
    BY <1>9, <2>1, <2>2, SessionEffect, IdleFields DEF Consented, Moves
  <2> QED
    BY <2>1, <2>3, ConsentOne
<1>10. ASSUME NEW w \in Workers, UpsertConsent(w) PROVE ConsentPart'
  <2>1. /\ UNCHANGED <<owner, allowed, codes>>
        /\ consents' = consents \cup Rows(job[w].req, job[w].sid)
    BY <1>10 DEF UpsertConsent, browser, history
  <2>2. Consented(w) /\ job[w].pc = "upsert"
    BY <1>10 DEF ConsentPart, UpsertConsent
  <2>3. Consented(w)' /\ Others(w)
    BY <1>10, <2>1, <2>2, UpsertEffect DEF Consented, Moves, Rows
  <2> QED
    BY <2>1, <2>3, ConsentOne
<1>11. ASSUME NEW w \in Workers, CreateCode(w) PROVE ConsentPart'
  <2>1. /\ UNCHANGED <<owner, consents, allowed>>
        /\ codes' = codes \cup {<<job[w].req, job[w].sid>>}
    BY <1>11 DEF CreateCode, browser
  <2>2. Consented(w) /\ job[w].pc = "code"
    BY <1>11 DEF ConsentPart, CreateCode
  <2>3. CodesAreConsented'
    BY <2>1, <2>2 DEF ConsentPart, CodesAreConsented, Consented, Rows
  <2>4. ASSUME NEW v \in Workers PROVE Consented(v)'
    <3>1. CASE v = w
      BY <1>11, <3>1, CodeEffect DEF Consented, Moves
    <3>2. CASE v # w
      BY <1>11, <2>1, <3>2, CodeEffect DEF ConsentPart, Consented, Moves, Others, Rows
    <3> QED
      BY <3>1, <3>2
  <2> QED
    BY <2>3, <2>4 DEF ConsentPart
<1>12. CASE RestartInMemory
  <2>1. \A v \in Workers : job'[v] = Idle
    BY <1>12 DEF RestartInMemory
  <2>2. \A v \in Workers : Consented(v)'
    BY <2>1, IdleFields DEF Consented
  <2> QED
    BY <1>12, <2>1, <2>2, ConsentFrame DEF RestartInMemory, browser
<1> QED
  BY <1>2, <1>4, <1>5, <1>6, <1>7, <1>7a, <1>8, <1>9, <1>10, <1>11, <1>12 DEF Next, Handler

-----------------------------------------------------------------------------
(* A session is for one answer.                                             *)

OnePart ==
  /\ OneAnswerPerSession
  /\ \A s \in Sids : owner[s] = None => answers[s] = 0
  /\ \A s \in Sids \ disturbed : HeldByOne(s)

\* A step of one handler that neither takes session s nor answers for it, and
\* that lets go of it, if at all, unanswered or for good.
LEMMA HeldKeeps ==
  ASSUME TypeOK, NEW w \in Workers, NEW s \in Sids, HeldByOne(s), Others(w),
         Holds(w, s)' => Holds(w, s), Answers(w, s)' => Answers(w, s),
         answers'[s] = answers[s], s \in live' => s \in live,
         Holds(w, s) /\ s \in live' /\ answers[s] # 0 => Holds(w, s)'
  PROVE  HeldByOne(s)'
<1>1. ASSUME NEW v \in Workers
      PROVE  /\ Holds(v, s)' => Holds(v, s)
             /\ Answers(v, s)' => Answers(v, s)
             /\ Holds(v, s) /\ s \in live' /\ answers[s] # 0 => Holds(v, s)'
  <2>1. CASE v = w
    BY <2>1
  <2>2. CASE v # w
    BY <2>2 DEF Others, Holds, Answers
  <2> QED
    BY <2>1, <2>2
<1>2. \A u, v \in Workers : Holds(u, s)' /\ Holds(v, s)' => u = v
  BY <1>1 DEF HeldByOne
<1>3. \A v \in Workers : Answers(v, s)' => answers'[s] = 0
  BY <1>1 DEF HeldByOne
<1>4. s \in live' /\ answers'[s] # 0 => \E v \in Workers : Holds(v, s)'
  BY <1>1 DEF HeldByOne
<1> QED
  BY <1>2, <1>3, <1>4 DEF HeldByOne

\* A live session nobody holds is unanswered: the handler that reads it now is
\* its only one.
LEMMA FirstToRead ==
  ASSUME TypeOK, OnePart, NEW w \in Workers, NEW s \in Sids, s \notin disturbed',
         Disturb(w, s), s \in live, job[w].pc \notin Holding
  PROVE  s \notin disturbed /\ answers[s] = 0 /\ \A v \in Workers : ~ Holds(v, s)
<1>1. s \notin disturbed /\ ~ Overlaps(w, s)
  BY DEF Disturb
<1>2. \A v \in Workers : ~ Holds(v, s)
  BY <1>1 DEF Overlaps, Holds
<1> QED
  BY <1>1, <1>2 DEF OnePart, HeldByOne

\* The reader becomes the holder; whether it answered at once or will.
LEMMA ReaderHolds ==
  ASSUME TypeOK, NEW w \in Workers, NEW s \in Sids, Others(w),
         \A v \in Workers : ~ Holds(v, s),
         Answers(w, s)' => answers'[s] = 0, Holds(w, s)'
  PROVE  HeldByOne(s)'
<1>1. \A v \in Workers \ {w} : ~ Holds(v, s)' /\ ~ Answers(v, s)'
  BY DEF Others, Holds, Answers, Holding
<1> QED
  BY <1>1 DEF HeldByOne

\* Steps that leave the answers and the disturbed sessions as they are, take no
\* session and let none go unless it is unanswered or ends.
LEMMA OneFrame ==
  ASSUME TypeOK, OnePart, NEW w \in Workers, Others(w),
         UNCHANGED <<owner, answers>>, disturbed \subseteq disturbed', live' \subseteq live,
         \A s \in Sids \ disturbed' :
           /\ Holds(w, s)' => Holds(w, s)
           /\ Answers(w, s)' => Answers(w, s)
           /\ Holds(w, s) /\ s \in live' /\ answers[s] # 0 => Holds(w, s)'
  PROVE  OnePart'
<1>1. \A s \in Sids \ disturbed' : HeldByOne(s)'
  BY HeldKeeps DEF OnePart
<1> QED
  BY <1>1 DEF OnePart, OneAnswerPerSession

LEMMA OneKeeps == TypeOK /\ OnePart /\ [Next]_vars => OnePart'
<1> SUFFICES ASSUME TypeOK, OnePart, [Next]_vars PROVE OnePart'
  OBVIOUS
<1>1. ASSUME UNCHANGED <<job, answers, disturbed>>,
             \A s \in Sids : /\ owner'[s] = None => owner[s] = None
                             /\ s \in live' => s \in live \/ owner[s] = None
      PROVE  OnePart'
  <2>1. ASSUME NEW s \in Sids \ disturbed PROVE HeldByOne(s)'
    <3>1. HeldByOne(s) /\ (owner[s] = None => answers[s] = 0)
      BY DEF OnePart
    <3> QED
      BY <1>1, <3>1 DEF HeldByOne, Holds, Answers
  <2> QED
    BY <1>1, <2>1 DEF OnePart, OneAnswerPerSession
<1>2. ASSUME NEW s \in Sids, NEW u \in Subjects, SignIn(s, u) PROVE OnePart'
  <2>1. UNCHANGED <<job, answers, disturbed>> /\ owner[s] = None /\ u # None
    BY <1>2, ConsentAssumption DEF SignIn, history
  <2>2. \A t \in Sids : /\ owner'[t] = None => owner[t] = None
                        /\ t \in live' => t \in live \/ owner[t] = None
    BY <1>2, <2>1 DEF SignIn, TypeOK
  <2> QED
    BY <1>1, <2>1, <2>2
<1>3. CASE (\E s \in Sids : SessionGone(s)) \/ Tick \/ FallBackToMemory \/ UNCHANGED vars
  BY <1>1, <1>3 DEF SessionGone, Tick, FallBackToMemory, vars, browser, history
<1>4. ASSUME NEW w \in Workers, NEW r \in Requests, Authorize(w, r) PROVE OnePart'
  <2>1. UNCHANGED <<owner, answers, live>> /\ job[w].pc = "idle" /\ Others(w)
    BY <1>4, AuthorizeEffect DEF Authorize, browser
  <2>2. CASE r \notin Forced /\ cookie \in live
    <3>1. cookie \in Sids /\ Disturb(w, cookie) /\ disturbed \subseteq disturbed'
      BY <1>4, <2>2 DEF Authorize, Disturb, TypeOK, Given
    <3>2. ASSUME NEW s \in Sids \ disturbed' PROVE HeldByOne(s)'
      <4>1. CASE s = cookie
        <5>1. answers[s] = 0 /\ \A v \in Workers : ~ Holds(v, s)
          BY <2>1, <2>2, <3>1, <4>1, FirstToRead DEF Holding
        <5>2. CASE Holds(w, s)'
          BY <2>1, <5>1, <5>2, ReaderHolds
        <5>3. CASE ~ Holds(w, s)'
          <6>1. ~ Answers(w, s)'
            BY <5>3 DEF Holds, Answers, Holding
          <6>2. HeldByOne(s)
            BY <3>1 DEF OnePart
          <6> QED
            BY <2>1, <5>1, <5>3, <6>1, <6>2, HeldKeeps
        <5> QED
          BY <5>2, <5>3
      <4>2. CASE s # cookie
        <5>1. ~ Holds(w, s)' /\ ~ Answers(w, s)' /\ ~ Holds(w, s)
          BY <1>4, <2>1, <4>2, AuthorizeEffect DEF Holds, Answers, Holding
        <5>2. HeldByOne(s)
          BY <3>1 DEF OnePart
        <5> QED
          BY <2>1, <5>1, <5>2, HeldKeeps
      <4> QED
        BY <4>1, <4>2
    <3> QED
      BY <2>1, <3>1, <3>2 DEF OnePart, OneAnswerPerSession
  <2>3. CASE ~ (r \notin Forced /\ cookie \in live)
    <3>1. disturbed' = disturbed /\ job'[w].pc \notin Holding
      BY <1>4, <2>3, AuthorizeEffect DEF Authorize, Holding
    <3>2. \A s \in Sids : ~ Holds(w, s)' /\ ~ Answers(w, s)' /\ ~ Holds(w, s)
      BY <2>1, <3>1 DEF Holds, Answers, Holding
    <3> QED
      BY <2>1, <3>1, <3>2, OneFrame
  <2> QED
    BY <2>2, <2>3
<1>5. ASSUME NEW w \in Workers, Others(w), job[w].pc \notin Holding, job'[w].pc \notin Holding,
             UNCHANGED <<owner, answers, disturbed>>, live' \subseteq live
      PROVE  OnePart'
  <2>1. \A s \in Sids : ~ Holds(w, s)' /\ ~ Answers(w, s)' /\ ~ Holds(w, s)
    BY <1>5 DEF Holds, Answers, Holding
  <2> QED
    BY <1>5, <2>1, OneFrame
<1>6. ASSUME NEW w \in Workers, NEW r \in Requests, HandoffConsumed(w, r) \/ ShowConsent(w, r)
      PROVE  OnePart'
  BY <1>5, <1>6, ShowEffect DEF HandoffConsumed, ShowConsent, browser, history, Holding
<1>7. ASSUME NEW w \in Workers, NEW r \in Requests, NEW allow \in BOOLEAN,
             ConsentBegin(w, r, allow)
      PROVE  OnePart'
  BY <1>5, <1>7, BeginEffect DEF ConsentBegin, browser, Holding
<1>8. ASSUME NEW w \in Workers,
             DropSession(w) \/ OpenRequest(w) \/ ExtendRead(w) \/ ExtendSave(w) \/ RenderConsent(w)
      PROVE  OnePart'
  <2>1. job[w].pc \notin Holding /\ job'[w].pc \notin Holding /\ Others(w)
    BY <1>8, IdleFields, DropEffect, OpenEffect, ExtendEffect, RenderEffect DEF Moves, Holding
  <2>2. UNCHANGED <<owner, answers, disturbed>> /\ live' \subseteq live
    BY <1>8 DEF DropSession, OpenRequest, ExtendRead, ExtendSave, RenderConsent,
       browser, history
  <2> QED
    BY <1>5, <2>1, <2>2
<1>9. ASSUME NEW w \in Workers, HasConsent(w) \/ UpsertConsent(w) PROVE OnePart'
  <2>1. UNCHANGED <<owner, answers, disturbed, live>> /\ Others(w)
    BY <1>9, HasConsentEffect, UpsertEffect
       DEF HasConsent, UpsertConsent, browser, history, Moves
  <2>2. /\ job[w].pc \in {"has_consent", "upsert"} /\ job'[w].pc \in {"code", "open"}
        /\ job'[w].sid = job[w].sid
    BY <1>9, HasConsentEffect, UpsertEffect DEF Moves
  <2>3. ASSUME NEW s \in Sids \ disturbed'
        PROVE  /\ Holds(w, s)' => Holds(w, s)
               /\ Answers(w, s)' => Answers(w, s)
               /\ Holds(w, s) /\ s \in live' /\ answers[s] # 0 => Holds(w, s)'
    <3>1. Holds(w, s) => answers[s] = 0
      BY <2>1, <2>2 DEF OnePart, HeldByOne, Holds, Answers
    <3> QED
      BY <2>2, <3>1 DEF Holds, Answers, Holding
  <2> QED
    BY <2>1, <2>3, OneFrame
<1>10. ASSUME NEW w \in Workers, DeleteRequest(w) PROVE OnePart'
  <2>1. UNCHANGED <<owner, answers, disturbed, live>> /\ Others(w)
    BY <1>10, DeleteEffect DEF DeleteRequest, browser, history, Moves
  <2>2. \A s \in Sids : (Holds(w, s)' <=> Holds(w, s)) /\ ~ Answers(w, s)'
    BY <1>10, DeleteEffect DEF Moves, Holds, Answers, Holding
  <2> QED
    BY <2>1, <2>2, OneFrame
<1>11. ASSUME NEW w \in Workers, EndSession(w) PROVE OnePart'
  <2>1. UNCHANGED <<owner, answers, disturbed>> /\ live' = live \ {job[w].sid} /\ Others(w)
    BY <1>11, EndEffect DEF EndSession, history
  <2>2. \A s \in Sids : ~ Holds(w, s)' /\ ~ Answers(w, s)' /\ (Holds(w, s) => s \notin live')
    BY <1>11, <2>1, EndEffect, IdleFields DEF Holds, Answers, Holding
  <2> QED
    BY <2>1, <2>2, OneFrame
<1>12. ASSUME NEW w \in Workers, HandlerFails(w) PROVE OnePart'
  <2>1. UNCHANGED <<owner, answers, live>> /\ disturbed \subseteq disturbed' /\ Others(w)
    BY <1>12, FailEffect DEF HandlerFails, browser
  <2>2. \A s \in Sids \ disturbed' : ~ Holds(w, s)' /\ ~ Answers(w, s)' /\ ~ Holds(w, s)
    BY <1>12, FailEffect, IdleFields DEF HandlerFails, Holds, Answers, Holding
  <2> QED
    BY <2>1, <2>2, OneFrame
<1>13. ASSUME NEW w \in Workers, ConsentSession(w) PROVE OnePart'
  <2>1. job[w].pc = "session" /\ UNCHANGED <<owner, live>>
    BY <1>13 DEF ConsentSession, browser
  <2>2. CASE job'[w] = Idle /\ Others(w) /\ UNCHANGED <<disturbed, answers>>
    BY <1>5, <2>1, <2>2, IdleFields DEF Holding
  <2>3. CASE /\ job[w].sid \in live /\ job[w].sid \in Sids /\ Disturb(w, job[w].sid)
             /\ \/ job[w].allow /\ Moves(w, "upsert") /\ answers' = answers
                \/ /\ Moves(w, "end_session") \/ Moves(w, "deny")
                   /\ answers' = [answers EXCEPT ![job[w].sid] = @ + 1]
    <3> PICK t \in Sids : t = job[w].sid
      BY <2>3
    <3>1. /\ Others(w) /\ job'[w].sid = t /\ job'[w].pc \in {"upsert", "end_session", "deny"}
          /\ disturbed \subseteq disturbed' /\ t \in Sids /\ answers[t] \in Nat
      BY <2>3 DEF Moves, Disturb, TypeOK
    <3>2. ASSUME NEW s \in Sids, s # t PROVE answers'[s] = answers[s]
      BY <2>3, <3>2 DEF TypeOK
    <3>3. t \notin disturbed' => HeldByOne(t)' /\ answers'[t] <= 1
      <4> SUFFICES ASSUME t \notin disturbed' PROVE HeldByOne(t)' /\ answers'[t] <= 1
        OBVIOUS
      <4>1. answers[t] = 0 /\ \A v \in Workers : ~ Holds(v, t)
        BY <2>1, <2>3, FirstToRead DEF Holding
      <4>2. answers'[t] <= 1
        BY <2>3, <3>1, <4>1 DEF TypeOK
      <4>3. Answers(w, t)' => answers'[t] = 0
        BY <2>3, <4>1 DEF Answers, Moves
      <4>4. Holds(w, t)'
        BY <3>1 DEF Holds, Holding
      <4>5. HeldByOne(t)'
        BY <3>1, <4>1, <4>3, <4>4, ReaderHolds
      <4> QED
        BY <4>2, <4>5
    <3>4. ASSUME NEW s \in Sids \ disturbed' PROVE HeldByOne(s)' /\ answers'[s] <= 1
      <4>1. CASE s = t
        BY <3>3, <4>1
      <4>2. CASE s # t
        <5>1. HeldByOne(s) /\ answers[s] <= 1
          BY <3>1 DEF OnePart, OneAnswerPerSession
        <5>2. ~ Holds(w, s)' /\ ~ Answers(w, s)' /\ ~ Holds(w, s)
          BY <2>1, <3>1, <4>2 DEF Holds, Answers, Holding
        <5> QED
          BY <2>1, <3>1, <3>2, <4>2, <5>1, <5>2, HeldKeeps
      <4> QED
        BY <4>1, <4>2
    <3>5. owner[t] # None
      BY <2>3 DEF TypeOK, Given
    <3> QED
      BY <2>1, <3>2, <3>4, <3>5 DEF OnePart, OneAnswerPerSession
  <2> QED
    BY <1>13, <2>2, <2>3, SessionEffect
<1>14. ASSUME NEW w \in Workers, CreateCode(w) PROVE OnePart'
  <2> PICK t \in Sids : t = job[w].sid
    BY <1>14, CodeEffect, JobFields DEF Holding
  <2>1. UNCHANGED <<owner, live, disturbed>> /\ answers' = [answers EXCEPT ![t] = @ + 1]
    BY <1>14 DEF CreateCode, browser
  <2>2. /\ job[w].pc = "code" /\ Others(w) /\ job'[w].sid = t
        /\ job'[w].pc \in {"end_session", "delete_request"}
        /\ t \in Sids /\ owner[t] # None /\ answers[t] \in Nat
    BY <1>14, CodeEffect, JobFields, ConsentAssumption DEF Moves, Holding, TypeOK
  <2>3. \A s \in Sids : s # t => answers'[s] = answers[s]
    BY <2>1 DEF TypeOK
  <2>4. t \notin disturbed => HeldByOne(t)' /\ answers'[t] <= 1
    <3> SUFFICES ASSUME t \notin disturbed PROVE HeldByOne(t)' /\ answers'[t] <= 1
      OBVIOUS
    <3>1. HeldByOne(t) /\ Answers(w, t) /\ Holds(w, t)
      BY <2>2 DEF OnePart, Answers, Holds, Holding
    <3>2. answers[t] = 0 /\ \A v \in Workers \ {w} : ~ Holds(v, t)
      BY <3>1 DEF HeldByOne
    <3>3. answers'[t] <= 1
      BY <2>1, <2>2, <3>2 DEF TypeOK
    <3>4. Holds(w, t)' /\ ~ Answers(w, t)'
      BY <2>2 DEF Holds, Answers, Holding
    <3>5. \A v \in Workers \ {w} : ~ Holds(v, t)' /\ ~ Answers(v, t)'
      BY <2>2, <3>2 DEF Others, Holds, Answers, Holding
    <3>6. HeldByOne(t)'
      BY <3>4, <3>5 DEF HeldByOne
    <3> QED
      BY <3>3, <3>6
  <2>5. ASSUME NEW s \in Sids \ disturbed PROVE HeldByOne(s)' /\ answers'[s] <= 1
    <3>1. CASE s = t
      BY <2>4, <3>1
    <3>2. CASE s # t
      <4>1. HeldByOne(s) /\ answers[s] <= 1
        BY DEF OnePart, OneAnswerPerSession
      <4>2. ~ Holds(w, s)' /\ ~ Answers(w, s)' /\ ~ Holds(w, s)
        BY <2>2, <3>2 DEF Holds, Answers
      <4> QED
        BY <2>1, <2>2, <2>3, <3>2, <4>1, <4>2, HeldKeeps
    <3> QED
      BY <3>1, <3>2
  <2> QED
    BY <2>1, <2>2, <2>3, <2>5 DEF OnePart, OneAnswerPerSession
<1>15. CASE RestartInMemory
  <2>1. /\ UNCHANGED <<owner, answers>> /\ live' = {} /\ disturbed \subseteq disturbed'
        /\ \A w \in Workers : job'[w] = Idle
    BY <1>15 DEF RestartInMemory, browser
  <2>2. \A w \in Workers, s \in Sids : ~ Holds(w, s)' /\ ~ Answers(w, s)'
    BY <2>1, IdleFields DEF Holds, Answers, Holding
  <2>3. \A s \in Sids : HeldByOne(s)'
    BY <2>1, <2>2 DEF HeldByOne
  <2> QED
    BY <2>1, <2>3 DEF OnePart, OneAnswerPerSession
<1> QED
  BY <1>2, <1>3, <1>4, <1>6, <1>7, <1>8, <1>9, <1>10, <1>11, <1>12, <1>13, <1>14, <1>15
     DEF Next, Handler

-----------------------------------------------------------------------------
(* A forced login is fresh.                                                 *)

FreshPart ==
  /\ FreshLogin
  /\ \A r \in opened : older[r] \subseteq Given
  /\ \A r \in Requests : ttl[r] > 0 \/ r \in shown => ~ Stale(r)
  /\ \A w \in Workers : Fresh(w)

\* The browser's session only ever becomes none, or one nobody had before.
Younger == cookie' \in {cookie, None} \cup {s \in Sids : owner[s] = None}

LEMMA StaysFresh ==
  ASSUME TypeOK, FreshPart, Younger, NEW r \in opened, older'[r] = older[r], ~ Stale(r)
  PROVE  ~ Stale(r)'
<1>1. older[r] \subseteq Given
  BY DEF FreshPart
<1>2. None \notin Given /\ \A s \in Sids : owner[s] = None => s \notin Given
  BY ConsentAssumption DEF Given
<1> QED
  BY <1>1, <1>2 DEF Younger, Stale

LEMMA FreshFrame ==
  ASSUME TypeOK, FreshPart, Younger,
         \A v \in Workers : job'[v] = job[v] \/ Fresh(v)',
         \A s \in Sids : owner[s] # None => owner'[s] # None,
         \A r \in opened : older'[r] = older[r],
         \A r \in opened' \ opened : older'[r] \subseteq Given,
         \A r \in Requests : ttl'[r] > 0 \/ r \in shown'
                               => r \in opened /\ (ttl[r] > 0 \/ r \in shown \/ ~ Stale(r)),
         \A c \in codes' : c \in codes \/ (c[1] \in Forced => c[2] \notin older'[c[1]])
  PROVE  FreshPart'
<1>1. FreshLogin'
  BY DEF FreshPart, FreshLogin, TypeOK
<1>2. \A r \in opened' : older'[r] \subseteq Given'
  BY DEF FreshPart, Given
<1>3. ASSUME NEW r \in Requests, ttl'[r] > 0 \/ r \in shown' PROVE ~ Stale(r)'
  <2>1. r \in opened /\ ~ Stale(r)
    BY <1>3 DEF FreshPart
  <2> QED
    BY <2>1, StaysFresh
<1>4. ASSUME NEW v \in Workers PROVE Fresh(v)'
  <2>1. CASE Fresh(v)'
    BY <2>1
  <2>2. CASE job'[v] = job[v]
    <3>1. job'[v] = job[v] /\ Fresh(v)
      BY <2>2 DEF FreshPart
    <3>2. CASE job[v].pc = "idle"
      BY <3>1, <3>2 DEF Fresh, Holding
    <3>3. CASE job[v].pc # "idle"
      <4>1. job[v].req \in opened /\ older'[job[v].req] = older[job[v].req]
        BY <3>3, JobFields
      <4>2. ~ Stale(job[v].req) => ~ (job[v].req \in Forced /\ cookie' \in older'[job[v].req])
        BY <4>1, StaysFresh DEF Stale
      <4> QED
        BY <3>1, <4>1, <4>2 DEF Fresh, Stale
    <3> QED
      BY <3>2, <3>3
  <2> QED
    BY <2>1, <2>2
<1> QED
  BY <1>1, <1>2, <1>3, <1>4 DEF FreshPart

\* The same for a step of one handler that opens no request.
LEMMA FreshOne ==
  ASSUME TypeOK, FreshPart, Younger, NEW w \in Workers, Others(w), Fresh(w)',
         UNCHANGED <<opened, owner, older>>,
         \A r \in Requests : ttl'[r] > 0 \/ r \in shown'
                               => ttl[r] > 0 \/ r \in shown \/ (r \in opened /\ ~ Stale(r)),
         \A c \in codes' : c \in codes \/ (c[1] \in Forced => c[2] \notin older[c[1]])
  PROVE  FreshPart'
<1>1. \A v \in Workers : job'[v] = job[v] \/ Fresh(v)'
  BY DEF Others
<1>2. \A r \in Requests : ttl[r] > 0 \/ r \in shown => r \in opened
  BY DEF TypeOK
<1>3. /\ \A s \in Sids : owner[s] # None => owner'[s] # None
      /\ \A r \in opened : older'[r] = older[r]
      /\ \A r \in opened' \ opened : older'[r] \subseteq Given'
  OBVIOUS
<1>4. \A r \in Requests : ttl'[r] > 0 \/ r \in shown'
                               => r \in opened /\ (ttl[r] > 0 \/ r \in shown \/ ~ Stale(r))
  BY <1>2
<1>5. \A c \in codes' : c \in codes \/ (c[1] \in Forced => c[2] \notin older'[c[1]])
  OBVIOUS
<1> QED
  BY <1>1, <1>3, <1>4, <1>5, FreshFrame

LEMMA FreshKeeps == TypeOK /\ FreshPart /\ [Next]_vars => FreshPart'
<1> SUFFICES ASSUME TypeOK, FreshPart, [Next]_vars PROVE FreshPart'
  OBVIOUS
<1>1. ASSUME Younger, UNCHANGED <<job, opened, older, codes>>,
             \A s \in Sids : owner[s] # None => owner'[s] # None,
             \A r \in Requests : ttl'[r] > 0 \/ r \in shown' => ttl[r] > 0 \/ r \in shown
      PROVE  FreshPart'
  <2>1. \A v \in Workers : job'[v] = job[v] \/ Fresh(v)'
    BY <1>1
  <2>2. \A r \in Requests : ttl[r] > 0 \/ r \in shown => r \in opened
    BY DEF TypeOK
  <2> QED
    BY <1>1, <2>1, <2>2, FreshFrame
<1>2. CASE \/ \E s \in Sids, u \in Subjects : SignIn(s, u)
           \/ \E s \in Sids : SessionGone(s)
           \/ Tick \/ FallBackToMemory \/ UNCHANGED vars
  <2>1. Younger /\ UNCHANGED <<job, opened, older, codes>>
    BY <1>2 DEF SignIn, SessionGone, Tick, FallBackToMemory, vars, browser, history, Younger
  <2>2. \A s \in Sids : owner[s] # None => owner'[s] # None
    BY <1>2 DEF SignIn, SessionGone, Tick, FallBackToMemory, vars, browser, history, TypeOK
  <2>3. \A r \in Requests : ttl'[r] > 0 \/ r \in shown' => ttl[r] > 0 \/ r \in shown
    BY <1>2 DEF SignIn, SessionGone, Tick, FallBackToMemory, vars, browser, history, TypeOK
  <2> QED
    BY <1>1, <2>1, <2>2, <2>3
<1>3. ASSUME NEW w \in Workers, NEW r \in Requests, Authorize(w, r) PROVE FreshPart'
  <2>1. /\ r \notin opened /\ opened' = opened \cup {r}
        /\ older' = [older EXCEPT ![r] = IF r \in Forced THEN Given ELSE {}]
        /\ UNCHANGED <<owner, cookie, ttl, shown, codes>> /\ Others(w)
    BY <1>3, AuthorizeEffect DEF Authorize, browser
  <2>2. /\ older'[r] \subseteq Given
        /\ \A q \in opened : older'[q] = older[q]
        /\ \A q \in opened' \ opened : older'[q] \subseteq Given'
    BY <2>1 DEF TypeOK, Given
  <2>3. Fresh(w)'
    <3>1. /\ job'[w].pc = "drop_session" => job'[w].sid # None
          /\ job'[w].pc = "has_consent" => r \notin Forced
      BY <1>3, AuthorizeEffect
    <3>2. job'[w].pc = "open" => ~ Stale(r)'
      <4>1. cookie' = cookie /\ None \notin older'[r]
        BY <2>1, <2>2, ConsentAssumption DEF Given
      <4> QED
        BY <1>3, <4>1, AuthorizeEffect DEF Stale
    <3> QED
      BY <1>3, <3>1, <3>2, AuthorizeEffect DEF Fresh, Stale, Holding
  <2>4. Younger /\ \A v \in Workers : job'[v] = job[v] \/ Fresh(v)'
    BY <2>1, <2>3 DEF Younger, Others
  <2>5. \A q \in Requests : ttl[q] > 0 \/ q \in shown => q \in opened
    BY DEF TypeOK
  <2> QED
    BY <2>1, <2>2, <2>4, <2>5, FreshFrame
<1>4. ASSUME NEW w \in Workers, NEW r \in Requests, HandoffConsumed(w, r) \/ ShowConsent(w, r)
      PROVE  FreshPart'
  <2>1. /\ UNCHANGED <<opened, owner, older, cookie, ttl, shown, codes>> /\ Others(w)
        /\ job'[w].pc = "extend_read" /\ job'[w].req = r /\ (job'[w].page => ttl[r] > 0)
    BY <1>4, ShowEffect DEF HandoffConsumed, ShowConsent, browser, history
  <2>2. Fresh(w)'
    BY <2>1 DEF FreshPart, Fresh, Stale, Holding
  <2> QED
    BY <2>1, <2>2, FreshOne DEF Younger
<1>5. ASSUME NEW w \in Workers, NEW r \in Requests, NEW allow \in BOOLEAN,
             ConsentBegin(w, r, allow)
      PROVE  FreshPart'
  <2>1. /\ UNCHANGED <<opened, owner, older, cookie, ttl, shown, codes>> /\ Others(w)
        /\ job'[w].pc = "session" /\ job'[w].req = r /\ job'[w].sid = cookie /\ r \in shown
    BY <1>5, BeginEffect DEF ConsentBegin, browser
  <2>2. ~ Stale(r)
    BY <2>1 DEF FreshPart
  <2>3. Fresh(w)'
    BY <2>1, <2>2 DEF Fresh, Stale, Holding
  <2> QED
    BY <2>1, <2>3, FreshOne DEF Younger
<1>6. ASSUME NEW w \in Workers, DropSession(w) PROVE FreshPart'
  <2>1. /\ UNCHANGED <<opened, owner, older, cookie, ttl, shown, codes>> /\ Others(w)
        /\ job[w].pc = "drop_session" /\ job'[w].pc = "open" /\ job'[w].sid = job[w].sid
    BY <1>6, DropEffect DEF DropSession, browser, history, Moves
  <2>2. Fresh(w)'
    BY <2>1 DEF FreshPart, Fresh, Holding
  <2> QED
    BY <2>1, <2>2, FreshOne DEF Younger
<1>7. ASSUME NEW w \in Workers, job'[w] = Idle PROVE Fresh(w)'
  BY <1>7, IdleFields DEF Fresh, Holding
<1>8. ASSUME NEW w \in Workers, OpenRequest(w) PROVE FreshPart'
  <2>1. /\ UNCHANGED <<opened, owner, older, shown, codes>> /\ Others(w)
        /\ job[w].pc = "open" /\ job[w].req \in opened /\ job[w].req \in Requests
        /\ ttl' = [ttl EXCEPT ![job[w].req] = RequestTtl]
        /\ cookie' = IF job[w].req \in Forced /\ job[w].sid # None THEN None ELSE cookie
    BY <1>8, OpenEffect, JobFields DEF OpenRequest, history
  <2>2. CASE job[w].req \in Forced /\ job[w].sid # None
    \* the request goes out together with a cleared cookie
    <3>1. cookie' = None /\ Fresh(w)'
      BY <1>7, <1>8, <2>1, <2>2, OpenEffect
    <3>2. Younger
      BY <3>1 DEF Younger
    <3>3. ASSUME NEW r \in Requests, ttl'[r] > 0 \/ r \in shown'
          PROVE  ~ Stale(r)'
      <4>1. r \in opened
        BY <2>1, <3>3 DEF TypeOK
      <4> QED
        BY <2>1, <3>1, <4>1, ConsentAssumption DEF FreshPart, Stale, Given
    <3>4. FreshLogin' /\ \A r \in opened' : older'[r] \subseteq Given'
      BY <2>1 DEF FreshPart, FreshLogin, Given
    <3>5. ASSUME NEW v \in Workers PROVE Fresh(v)'
      <4>1. CASE v = w
        BY <3>1, <4>1
      <4>2. CASE v # w
        <5>1. job'[v] = job[v] /\ Fresh(v)
          BY <2>1, <4>2 DEF Others, FreshPart
        <5>2. CASE job[v].pc = "idle"
          BY <5>1, <5>2 DEF Fresh, Holding
        <5>3. CASE job[v].pc # "idle"
          <6>1. ~ Stale(job[v].req)'
            BY <2>1, <3>1, <5>1, <5>3, JobFields, ConsentAssumption DEF FreshPart, Stale, Given
          <6> QED
            BY <2>1, <5>1, <6>1 DEF Fresh
        <5> QED
          BY <5>2, <5>3
      <4> QED
        BY <4>1, <4>2
    <3> QED
      BY <3>3, <3>4, <3>5 DEF FreshPart
  <2>3. CASE ~ (job[w].req \in Forced /\ job[w].sid # None)
    <3>1. ~ Stale(job[w].req)
      BY <2>1, <2>3 DEF FreshPart, Fresh, Stale
    <3>2. \A r \in Requests : ttl'[r] > 0 \/ r \in shown'
                                => ttl[r] > 0 \/ r \in shown \/ (r \in opened /\ ~ Stale(r))
      BY <2>1, <3>1 DEF TypeOK
    <3>3. Younger /\ Fresh(w)'
      BY <1>7, <1>8, <2>1, <2>3, OpenEffect DEF Younger
    <3> QED
      BY <2>1, <3>2, <3>3, FreshOne
  <2> QED
    BY <2>2, <2>3
<1>9. ASSUME NEW w \in Workers, HasConsent(w) PROVE FreshPart'
  <2>1. /\ UNCHANGED <<opened, owner, older, cookie, ttl, shown, codes>> /\ Others(w)
        /\ job[w].pc = "has_consent" /\ job'[w].pc \in {"code", "open"}
        /\ job'[w].sid = job[w].sid /\ job'[w].req = job[w].req
    BY <1>9, HasConsentEffect DEF HasConsent, browser, history, Moves
  <2>2. Fresh(w)'
    BY <2>1 DEF FreshPart, Fresh, Stale, Holding
  <2> QED
    BY <2>1, <2>2, FreshOne DEF Younger
<1>10. ASSUME NEW w \in Workers, ExtendRead(w) \/ ExtendSave(w) PROVE FreshPart'
  <2>1. /\ UNCHANGED <<opened, owner, older, cookie, shown, codes>> /\ Others(w)
        /\ job[w].req \in opened /\ job[w].req \in Requests /\ Fresh(w)
    BY <1>10, ExtendEffect, JobFields
       DEF ExtendRead, ExtendSave, browser, history, Moves, FreshPart
  <2>2. Fresh(w)'
    <3>1. ASSUME ExtendRead(w), ttl[job[w].req] > 0, Moves(w, "extend_save") PROVE Fresh(w)'
      <4>1. ~ Stale(job[w].req)
        BY <2>1, <3>1 DEF FreshPart
      <4> QED
        BY <2>1, <3>1, <4>1 DEF Fresh, Stale, Holding, Moves
    <3>2. ASSUME job[w].pc \in {"extend_read", "extend_save"}, job[w].page, Moves(w, "render")
          PROVE  Fresh(w)'
      BY <2>1, <3>2 DEF Fresh, Stale, Holding, Moves
    <3> QED
      BY <1>7, <1>10, <3>1, <3>2, ExtendEffect
  <2>3. \A r \in Requests : ttl'[r] > 0 \/ r \in shown'
                              => ttl[r] > 0 \/ r \in shown \/ (r \in opened /\ ~ Stale(r))
    <3>1. CASE ExtendRead(w)
      BY <2>1, <3>1 DEF ExtendRead
    <3>2. CASE ExtendSave(w)
      <4>1. ~ Stale(job[w].req)
        BY <2>1, <3>2 DEF ExtendSave, Fresh
      <4> QED
        BY <2>1, <3>2, <4>1 DEF ExtendSave, TypeOK
    <3> QED
      BY <1>10, <3>1, <3>2
  <2> QED
    BY <2>1, <2>2, <2>3, FreshOne DEF Younger
<1>11. ASSUME NEW w \in Workers, RenderConsent(w) PROVE FreshPart'
  <2>1. /\ UNCHANGED <<opened, owner, older, cookie, ttl, codes>> /\ Others(w)
        /\ shown' \subseteq shown \cup {job[w].req} /\ job[w].req \in opened
        /\ Fresh(w)'
    BY <1>7, <1>11, RenderEffect, JobFields DEF RenderConsent, history
  <2>2. ~ Stale(job[w].req)
    BY <1>11, RenderEffect DEF FreshPart, Fresh
  <2>3. \A r \in Requests : ttl'[r] > 0 \/ r \in shown'
                              => ttl[r] > 0 \/ r \in shown \/ (r \in opened /\ ~ Stale(r))
    BY <2>1, <2>2
  <2> QED
    BY <2>1, <2>3, FreshOne DEF Younger
<1>12. ASSUME NEW w \in Workers, ConsentSession(w) PROVE FreshPart'
  <2>1. /\ UNCHANGED <<opened, owner, older, cookie, ttl, shown, codes>> /\ Others(w)
        /\ job[w].pc = "session" /\ Fresh(w)
    BY <1>12, SessionEffect DEF ConsentSession, browser, Moves, FreshPart
  <2>2. CASE job'[w] = Idle
    BY <1>7, <2>1, <2>2, FreshOne DEF Younger
  <2>3. CASE /\ job'[w].pc \in {"upsert", "end_session", "deny"}
             /\ job'[w].sid = job[w].sid /\ job'[w].req = job[w].req
    <3>1. Fresh(w)'
      BY <2>1, <2>3 DEF Fresh, Stale, Holding
    <3> QED
      BY <2>1, <3>1, FreshOne DEF Younger
  <2> QED
    BY <1>12, <2>2, <2>3, SessionEffect DEF Moves
<1>13. ASSUME NEW w \in Workers, UpsertConsent(w) PROVE FreshPart'
  <2>1. /\ UNCHANGED <<opened, owner, older, cookie, ttl, shown, codes>> /\ Others(w)
        /\ job[w].pc = "upsert" /\ job'[w].pc = "code" /\ Fresh(w)
        /\ job'[w].sid = job[w].sid /\ job'[w].req = job[w].req
    BY <1>13, UpsertEffect DEF UpsertConsent, browser, history, Moves, FreshPart
  <2>2. Fresh(w)'
    BY <2>1 DEF Fresh, Stale, Holding
  <2> QED
    BY <2>1, <2>2, FreshOne DEF Younger
<1>14. ASSUME NEW w \in Workers, CreateCode(w) PROVE FreshPart'
  <2>1. /\ UNCHANGED <<opened, owner, older, cookie, ttl, shown>> /\ Others(w)
        /\ codes' = codes \cup {<<job[w].req, job[w].sid>>}
        /\ job[w].pc = "code" /\ job'[w].pc \in {"end_session", "delete_request"} /\ Fresh(w)
        /\ job'[w].sid = job[w].sid /\ job'[w].req = job[w].req
    BY <1>14, CodeEffect DEF CreateCode, browser, Moves, FreshPart
  <2>2. Fresh(w)'
    BY <2>1 DEF Fresh, Stale, Holding
  <2>3. \A c \in codes' : c \in codes \/ (c[1] \in Forced => c[2] \notin older[c[1]])
    BY <2>1 DEF Fresh, Holding
  <2> QED
    BY <2>1, <2>2, <2>3, FreshOne DEF Younger
<1>15. ASSUME NEW w \in Workers, DeleteRequest(w) PROVE FreshPart'
  <2>1. /\ UNCHANGED <<opened, owner, older, cookie, shown, codes>> /\ Others(w)
        /\ job[w].pc \in {"delete_request", "deny"} /\ job'[w].pc = "end_session" /\ Fresh(w)
        /\ job'[w].sid = job[w].sid /\ job'[w].req = job[w].req
        /\ ttl' = [ttl EXCEPT ![job[w].req] = 0]
    BY <1>15, DeleteEffect DEF DeleteRequest, browser, history, Moves, FreshPart
  <2>2. Fresh(w)'
    BY <2>1 DEF Fresh, Stale, Holding
  <2>3. \A r \in Requests : ttl'[r] > 0 \/ r \in shown' => ttl[r] > 0 \/ r \in shown
    BY <2>1 DEF TypeOK
  <2> QED
    BY <2>1, <2>2, <2>3, FreshOne DEF Younger
<1>16. ASSUME NEW w \in Workers, EndSession(w) \/ HandlerFails(w) PROVE FreshPart'
  <2>1. /\ UNCHANGED <<opened, owner, older, ttl, shown, codes>> /\ Others(w)
        /\ cookie' \in {cookie, None} /\ Fresh(w)'
    BY <1>7, <1>16, EndEffect, FailEffect DEF EndSession, HandlerFails, browser, history
  <2> QED
    BY <2>1, FreshOne DEF Younger
<1>17. CASE RestartInMemory
  <2>1. /\ UNCHANGED <<opened, owner, older, cookie, shown, codes>>
        /\ ttl' = [r \in Requests |-> 0] /\ \A v \in Workers : job'[v] = Idle
    BY <1>17 DEF RestartInMemory, browser
  <2>2. \A v \in Workers : Fresh(v)'
    BY <1>7, <2>1
  <2>3. \A r \in Requests : ttl'[r] > 0 \/ r \in shown'
                              => r \in opened /\ (ttl[r] > 0 \/ r \in shown \/ ~ Stale(r))
    BY <2>1 DEF TypeOK
  <2>4. Younger
    BY <2>1 DEF Younger
  <2> QED
    BY <2>1, <2>2, <2>3, <2>4, FreshFrame
<1> QED
  BY <1>2, <1>3, <1>4, <1>5, <1>6, <1>8, <1>9, <1>10, <1>11, <1>12, <1>13, <1>14, <1>15,
     <1>16, <1>17 DEF Next, Handler

-----------------------------------------------------------------------------
(* The theorems.                                                            *)

LEMMA InitHolds == Init => IInv
<1> SUFFICES ASSUME Init PROVE IInv
  OBVIOUS
<1>1. TypeOK
  BY InitTypes
<1>2. \A w \in Workers : job[w].pc = "idle"
  BY IdleFields DEF Init
<1>3. \A w \in Workers : Consented(w) /\ Fresh(w)
  BY <1>2 DEF Consented, Fresh, Holding
<1>4. \A s \in Sids : HeldByOne(s)
  BY <1>2 DEF Init, HeldByOne, Holds, Answers, Holding
<1> QED
  BY <1>1, <1>3, <1>4
     DEF Init, IInv, CodesAreConsented, OneAnswerPerSession, FreshLogin

LEMMA Inductive == Spec => []IInv
<1>1. IInv /\ [Next]_vars => IInv'
  BY TypeKeeps, ConsentKeeps, OneKeeps, FreshKeeps DEF IInv, ConsentPart, OnePart, FreshPart
<1> QED
  BY InitHolds, <1>1, PTL DEF Spec

\* Every value keeps its type: in particular no handler of /oauth2/authorize or
\* /oauth2/consent goes on with a session that was never given or a request that
\* was never opened.
THEOREM TypeCorrect == Spec => []TypeOK
<1>1. IInv => TypeOK
  BY DEF IInv
<1> QED
  BY <1>1, Inductive, PTL

\* POST /oauth2/consent and the shortcut of /oauth2/authorize: every scope of a code
\* goes back to a consent recorded for the session's user and the request's client (a
\* request without scopes needs none, as in hasConsent), and behind a forced login the
\* code goes back to a Continue pressed on that request in that session, however many
\* handlers of however many requests interleave and break off.
THEOREM ConsentBeforeCode == Spec => []CodesAreConsented
<1>1. IInv => CodesAreConsented
  BY DEF IInv
<1> QED
  BY <1>1, Inductive, PTL

\* A session whose handlers neither overlapped nor broke off is good for one code or
\* one denial: deleteSession comes before the next handler reads it, and a signed form
\* that outlives it buys nothing.
THEOREM SessionsAnswerOnce == Spec => []OneAnswerPerSession
<1>1. IInv => OneAnswerPerSession
  BY DEF IInv
<1> QED
  BY <1>1, Inductive, PTL

\* prompt=login: no session signed in before /oauth2/authorize was called is ever good
\* for that request, because the answer that lets the request out clears the cookie.
THEOREM ForcedLoginIsFresh == Spec => []FreshLogin
<1>1. IInv => FreshLogin
  BY DEF IInv
<1> QED
  BY <1>1, Inductive, PTL
=============================================================================
