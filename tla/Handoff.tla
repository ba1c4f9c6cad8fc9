------------------------------- MODULE Handoff -------------------------------
(***************************************************************************)
(* The desktop/phone handoff of zauth-core: a desktop page opens a handoff  *)
(* and polls it, a signed-in phone approves or denies it, and the poll that *)
(* finds it approved consumes it and receives the desktop session.          *)
(*                                                                         *)
(* Every HTTP request runs in a worker.  A handler is cut at its awaits:    *)
(* each action ends where the code waits for the cache, so that other       *)
(* requests interleave there as they do on Node's event loop.  The cache    *)
(* offers single reads and single writes and nothing atomic across both,    *)
(* so a write may overwrite a record that is no longer the one its handler  *)
(* read.  The history variable clobbered remembers for which handoffs that  *)
(* has happened; the guarantees below are stated up to that point.          *)
(***************************************************************************)
EXTENDS Naturals

CONSTANTS
  Handoffs,    \* handoff ids (each with its approval code)
  Workers,     \* HTTP requests the server can have in flight at once
  Subjects,    \* accounts
  Enrolled,    \* accounts that completed the face and ZK enrollment
  Receipts,    \* verified proof receipts: <<subject, handoff>>
  Sids,        \* ids of the sessions phones sign in with
  Requests,    \* OAuth authorization requests
  RequireZk,   \* config.authRequireZkForLogin
  MaxFaults,   \* bound: crashes and lost replies in one behaviour
  None         \* absent subject, session, handoff or request

ASSUME ConstantsAssumption ==
  /\ Enrolled \subseteq Subjects
  /\ Receipts \subseteq Subjects \X Handoffs
  /\ RequireZk \in BOOLEAN
  /\ MaxFaults \in Nat
  /\ None \notin Handoffs \cup Subjects \cup Sids \cup Requests

VARIABLES
  rec,       \* the record last written for a handoff; "unborn" before it exists
  stored,    \* handoffs whose record the cache still holds
  late,      \* handoffs past their expiresAt
  phone,     \* phone sessions: the subject, or None when absent
  signedIn,  \* ids given to a phone session so far
  authreq,   \* authorization requests the cache holds
  job,       \* what each worker is doing
  page,      \* what the desktop page that waits for a handoff shows
  pollDone,  \* handoffs whose page has stopped polling
  faults,    \* crashes and lost replies so far
  made,      \* history: desktop sessions created from a handoff
  granted,   \* history: those sessions' subject and assurance
  verdicts,  \* history: approvals and denials written for a handoff
  clobbered  \* history: handoffs that suffered a lost update

vars == <<rec, stored, late, phone, signedIn, authreq, job, page, pollDone,
          faults, made, granted, verdicts, clobbered>>
history == <<made, granted, verdicts, clobbered>>
waitPage == <<page, pollDone>>

Aals == {"aal2", "zk"}
NoAal == "none"

Record == [status : {"unborn", "pending", "approved", "denied", "consumed"},
           who : Subjects \cup {None}, aal : Aals \cup {NoAal},
           req : Requests \cup {None}]

\* A worker's program counter names the await it stands at, or the reply on
\* its way to the desktop page.
Awaits == {"approve_read", "approve_save", "approve_end", "deny_save",
           "consume_read", "consume_save", "extend_read", "extend_save",
           "create_session"}
Replies == {"pending", "denied", "consumed", "approved", "expired", "retry"}

Job == [pc : {"idle"} \cup Awaits \cup Replies, h : Handoffs \cup {None},
        sid : Sids \cup {None}, who : Subjects \cup {None},
        aal : Aals \cup {NoAal}]
Idle == [pc |-> "idle", h |-> None, sid |-> None, who |-> None, aal |-> NoAal]

\* The texts that claim an outcome, and those that ask for patience.
Outcomes == {"redirected", "denied", "consumed", "expired"}
Pages == {"none", "waiting", "retrying", "left"} \cup Outcomes

Unborn == [status |-> "unborn", who |-> None, aal |-> NoAal, req |-> None]

\* What a decision writes: an approver and an assurance, or neither.
Verdicts == (Subjects \cup {None}) \X (Aals \cup {NoAal})
Denial == <<None, NoAal>>

-----------------------------------------------------------------------------
Init ==
  /\ rec = [h \in Handoffs |-> Unborn]
  /\ stored = {}
  /\ late = {}
  /\ phone = [s \in Sids |-> None]
  /\ signedIn = {}
  /\ authreq = Requests
  /\ job = [w \in Workers |-> Idle]
  /\ page = [h \in Handoffs |-> "none"]
  /\ pollDone = {}
  /\ faults = 0
  /\ made = [h \in Handoffs |-> 0]
  /\ granted = {}
  /\ verdicts = [h \in Handoffs |-> {}]
  /\ clobbered = {}

Goto(w, pc) == job' = [job EXCEPT ![w].pc = pc]
Finish(w)   == job' = [job EXCEPT ![w] = Idle]

\* The check of approveHandoffByCode, denyHandoffByCode and
\* consumeApprovedHandoff: the record is there, not expired and in status st.
Readable(h, st) ==
  /\ h \in stored
  /\ h \notin late
  /\ rec[h].status = st

\* save(): write the whole record back.  seen is the status the handler read;
\* the cache does not compare, so a record that changed or vanished meanwhile
\* is overwritten all the same.  ttl = max(1, ...) puts an expired or evicted
\* record back too.
Save(h, seen, st, who, aal) ==
  /\ rec' = [rec EXCEPT ![h].status = st, ![h].who = who, ![h].aal = aal]
  /\ stored' = stored \cup {h}
  /\ clobbered' = IF h \in stored /\ rec[h].status = seen
                  THEN clobbered ELSE clobbered \cup {h}

-----------------------------------------------------------------------------
(* The desktop: POST /auth/handoff/start, then the wait page opens.         *)

StartHandoff(h, r) ==
  /\ rec[h].status = "unborn"
  /\ r # None => r \in authreq              \* else 410 request_expired
  /\ rec' = [rec EXCEPT ![h].status = "pending", ![h].req = r]
  /\ stored' = stored \cup {h}
  /\ page' = [page EXCEPT ![h] = "waiting"]
  /\ pollDone' = pollDone \ {h}
  /\ UNCHANGED <<late, phone, signedIn, authreq, job, faults, history>>

\* The user presses Restart on the wait page, which stops polling and
\* navigates away.
LeavePage(h) ==
  /\ page[h] \notin {"none", "redirected", "left"}
  /\ page' = [page EXCEPT ![h] = "left"]
  /\ pollDone' = pollDone \cup {h}
  /\ UNCHANGED <<rec, stored, late, phone, signedIn, authreq, job, faults, history>>

-----------------------------------------------------------------------------
(* The phone: passkey sign-in, then approve or deny.                        *)

\* POST /auth/webauthn/login/verify creates the phone's session.
PhoneLogin(s, u) ==
  /\ s \notin signedIn
  /\ signedIn' = signedIn \cup {s}
  /\ phone' = [phone EXCEPT ![s] = u]
  /\ UNCHANGED <<rec, stored, late, authreq, job, waitPage, faults, history>>

\* A mistake to be found: the receipt counts whoever got it.
ApproveBeginAnyReceipt(w, s, h, withProof) ==
  /\ job[w].pc = "idle"
  /\ phone[s] \in Enrolled
  /\ h \in stored
  /\ RequireZk => withProof
  /\ withProof => \E u \in Subjects : <<u, h>> \in Receipts
  /\ job' = [job EXCEPT ![w] =
       [pc |-> "approve_read", h |-> h, sid |-> s, who |-> phone[s],
        aal |-> IF withProof THEN "zk" ELSE "aal2"]]
  /\ UNCHANGED <<rec, stored, late, phone, signedIn, authreq, waitPage, faults, history>>

\* POST /auth/handoff/approve, the checks before approveHandoffByCode: a live
\* session of an enrolled account, a liveness session the server verified (an
\* input here), the record found by its code, and, if a proof is sent, a
\* receipt of this subject for this handoff.
ApproveBegin(w, s, h, withProof) ==
  /\ job[w].pc = "idle"
  /\ phone[s] \in Enrolled
  /\ h \in stored
  /\ RequireZk => withProof
  /\ withProof => <<phone[s], h>> \in Receipts
  /\ job' = [job EXCEPT ![w] =
       [pc |-> "approve_read", h |-> h, sid |-> s, who |-> phone[s],
        aal |-> IF withProof THEN "zk" ELSE "aal2"]]
  /\ UNCHANGED <<rec, stored, late, phone, signedIn, authreq, waitPage, faults, history>>

ApproveRead(w) ==
  /\ job[w].pc = "approve_read"
  /\ IF Readable(job[w].h, "pending") THEN Goto(w, "approve_save")
                                      ELSE Finish(w)       \* 404
  /\ UNCHANGED <<rec, stored, late, phone, signedIn, authreq, waitPage, faults, history>>

\* A mistake to be found: the spread of the old record wins over the status.
ApproveSaveStaysPending(w) ==
  LET j == job[w] IN
  /\ j.pc = "approve_save"
  /\ Save(j.h, "pending", "pending", j.who, j.aal)
  /\ verdicts' = [verdicts EXCEPT ![j.h] = @ \cup {<<j.who, j.aal>>}]
  /\ Goto(w, "approve_end")
  /\ UNCHANGED <<late, phone, signedIn, authreq, waitPage, faults, made, granted>>

ApproveSave(w) ==
  LET j == job[w] IN
  /\ j.pc = "approve_save"
  /\ Save(j.h, "pending", "approved", j.who, j.aal)
  /\ verdicts' = [verdicts EXCEPT ![j.h] = @ \cup {<<j.who, j.aal>>}]
  /\ Goto(w, "approve_end")
  /\ UNCHANGED <<late, phone, signedIn, authreq, waitPage, faults, made, granted>>

\* deleteSession(sid): the phone's session ends with the approval.
ApproveEnd(w) ==
  /\ job[w].pc = "approve_end"
  /\ phone' = [phone EXCEPT ![job[w].sid] = None]
  /\ Finish(w)
  /\ UNCHANGED <<rec, stored, late, signedIn, authreq, waitPage, faults, history>>

\* POST /auth/handoff/deny needs no session.
DenyRead(w, h) ==
  /\ job[w].pc = "idle"
  /\ Readable(h, "pending")                              \* else 404
  /\ job' = [job EXCEPT ![w] = [Idle EXCEPT !.pc = "deny_save", !.h = h]]
  /\ UNCHANGED <<rec, stored, late, phone, signedIn, authreq, waitPage, faults, history>>

\* The record read was pending, so its spread carries no approver.
DenySave(w) ==
  LET j == job[w] IN
  /\ j.pc = "deny_save"
  /\ Save(j.h, "pending", "denied", None, NoAal)
  /\ verdicts' = [verdicts EXCEPT ![j.h] = @ \cup {Denial}]
  /\ Finish(w)
  /\ UNCHANGED <<late, phone, signedIn, authreq, waitPage, faults, made, granted>>

-----------------------------------------------------------------------------
(* GET /auth/handoff/status, sent by the page every two seconds whether or  *)
(* not the previous answer is back.                                         *)

Polling(h) == page[h] # "none" /\ h \notin pollDone

StatusReply(h) ==
  IF h \notin stored THEN "retry"                        \* 404
  ELSE IF h \in late THEN "expired"                      \* 410
  ELSE rec[h].status

\* A mistake to be found: an approved record is reported but never consumed.
PollReadNeverConsumes(w, h) ==
  /\ job[w].pc = "idle"
  /\ Polling(h)
  /\ job' = [job EXCEPT ![w] = [Idle EXCEPT !.h = h,
       !.pc = IF Readable(h, "approved") THEN "pending" ELSE StatusReply(h)]]
  /\ UNCHANGED <<rec, stored, late, phone, signedIn, authreq, waitPage, faults, history>>

PollRead(w, h) ==
  /\ job[w].pc = "idle"
  /\ Polling(h)
  /\ job' = [job EXCEPT ![w] = [Idle EXCEPT !.h = h,
       !.pc = IF Readable(h, "approved") THEN "consume_read"
                                         ELSE StatusReply(h)]]
  /\ UNCHANGED <<rec, stored, late, phone, signedIn, authreq, waitPage, faults, history>>

\* consumeApprovedHandoff reads the record a second time.
ConsumeRead(w) ==
  LET h == job[w].h IN
  /\ job[w].pc = "consume_read"
  /\ IF Readable(h, "approved")
     THEN job' = [job EXCEPT ![w].pc = "consume_save",
                             ![w].who = rec[h].who, ![w].aal = rec[h].aal]
     ELSE Goto(w, "retry")                               \* 400 invalid_state
  /\ UNCHANGED <<rec, stored, late, phone, signedIn, authreq, waitPage, faults, history>>

\* Mistakes to be found: the record is saved without the new status, and a
\* handoff that belongs to no request is extended all the same.
ConsumeSaveStaysApproved(w) ==
  LET j == job[w] IN
  /\ j.pc = "consume_save"
  /\ Save(j.h, "approved", "approved", j.who, j.aal)
  /\ Goto(w, IF rec[j.h].req = None THEN "create_session" ELSE "extend_read")
  /\ UNCHANGED <<late, phone, signedIn, authreq, waitPage, faults, made, granted, verdicts>>

ConsumeSaveAlwaysExtends(w) ==
  LET j == job[w] IN
  /\ j.pc = "consume_save"
  /\ Save(j.h, "approved", "consumed", j.who, j.aal)
  /\ Goto(w, "extend_read")
  /\ UNCHANGED <<late, phone, signedIn, authreq, waitPage, faults, made, granted, verdicts>>

ConsumeSave(w) ==
  LET j == job[w] IN
  /\ j.pc = "consume_save"
  /\ Save(j.h, "approved", "consumed", j.who, j.aal)
  /\ Goto(w, IF rec[j.h].req = None THEN "create_session" ELSE "extend_read")
  /\ UNCHANGED <<late, phone, signedIn, authreq, waitPage, faults, made, granted, verdicts>>

\* extendAuthRequest(requestId, 600): get, then set with a new TTL, which puts
\* the request back if it went in between.
ExtendRead(w) ==
  /\ job[w].pc = "extend_read"
  /\ Goto(w, IF rec[job[w].h].req \in authreq THEN "extend_save"
                                              ELSE "create_session")
  /\ UNCHANGED <<rec, stored, late, phone, signedIn, authreq, waitPage, faults, history>>

ExtendSave(w) ==
  /\ job[w].pc = "extend_save"
  /\ authreq' = authreq \cup {rec[job[w].h].req}
  /\ Goto(w, "create_session")
  /\ UNCHANGED <<rec, stored, late, phone, signedIn, waitPage, faults, history>>

\* A mistake to be found: createSession is left to its default assurance.
CreateSessionDefault(w) ==
  LET j == job[w] IN
  /\ j.pc = "create_session"
  /\ made' = [made EXCEPT ![j.h] = @ + 1]
  /\ granted' = granted \cup {[h |-> j.h, grant |-> <<j.who, "aal2">>]}
  /\ Goto(w, "approved")
  /\ UNCHANGED <<rec, stored, late, phone, signedIn, authreq, waitPage, faults,
                 verdicts, clobbered>>

\* createSession for the approver, with the assurance the approval carried.
CreateSession(w) ==
  LET j == job[w] IN
  /\ j.pc = "create_session"
  /\ made' = [made EXCEPT ![j.h] = @ + 1]
  /\ granted' = granted \cup {[h |-> j.h, grant |-> <<j.who, j.aal>>]}
  /\ Goto(w, "approved")
  /\ UNCHANGED <<rec, stored, late, phone, signedIn, authreq, waitPage, faults,
                 verdicts, clobbered>>

-----------------------------------------------------------------------------
(* The answers travel back to the page, in any order, and may be lost.      *)

\* A mistake to be found: a handoff some other poll consumed counts as signed in.
AfterReplyTrustsConsumed(p, reply) ==
  IF p \in {"redirected", "left"} THEN p
  ELSE CASE reply \in {"approved", "consumed"} -> "redirected"
         [] reply \in {"denied", "expired"}    -> reply
         [] reply = "pending"                  -> "waiting"
         [] reply = "retry"                    -> "retrying"

\* poll()'s reaction.  It looks at pollDone only before it sends, so a reply
\* that arrives after another one settled the page still acts on it: the text
\* of a page that polls no more may turn into "Waiting" or "Retrying".  Only a
\* redirect or a restart navigates away and drops what is on its way.
AfterReply(p, reply) ==
  IF p \in {"redirected", "left"} THEN p
  ELSE CASE reply = "approved"                          -> "redirected"
         [] reply \in {"denied", "consumed", "expired"} -> reply
         [] reply = "pending"                           -> "waiting"
         [] reply = "retry"                             -> "retrying"

\* The answers that end the polling.
Final == {"approved", "denied", "consumed", "expired"}

Deliver(w) == LET h == job[w].h  reply == job[w].pc IN
  /\ reply \in Replies
  /\ page' = [page EXCEPT ![h] = AfterReply(@, reply)]
  /\ pollDone' = IF reply \in Final THEN pollDone \cup {h} ELSE pollDone
  /\ Finish(w)
  /\ UNCHANGED <<rec, stored, late, phone, signedIn, authreq, faults, history>>

\* The answer is lost: fetch() fails, and the page says it will try again.
LoseReply(w) ==
  /\ job[w].pc \in Replies \ {"retry"}
  /\ faults < MaxFaults
  /\ faults' = faults + 1
  /\ Goto(w, "retry")
  /\ UNCHANGED <<rec, stored, late, phone, signedIn, authreq, waitPage, history>>

-----------------------------------------------------------------------------
(* Time and failures.                                                       *)

\* expiresAt passes.
Deadline(h) ==
  /\ rec[h].status # "unborn"
  /\ h \notin late
  /\ late' = late \cup {h}
  /\ UNCHANGED <<rec, stored, phone, signedIn, authreq, job, waitPage, faults, history>>

\* The cache drops the key when its TTL ends.  The TTL is the remaining time
\* rounded down to seconds, so that can be shortly before expiresAt as well.
Evict(h) ==
  /\ h \in stored
  /\ stored' = stored \ {h}
  /\ UNCHANGED <<rec, late, phone, signedIn, authreq, job, waitPage, faults, history>>

\* A phone session ends by its TTL or by logout.
PhoneLogout(s) ==
  /\ phone[s] # None
  /\ phone' = [phone EXCEPT ![s] = None]
  /\ UNCHANGED <<rec, stored, late, signedIn, authreq, job, waitPage, faults, history>>

\* The authorization request's TTL ends, or the consent handler deletes it.
RequestGone(r) ==
  /\ r \in authreq
  /\ authreq' = authreq \ {r}
  /\ UNCHANGED <<rec, stored, late, phone, signedIn, job, waitPage, faults, history>>

\* zauth-core stops: whatever is in flight is gone, what Redis holds is not.
\* A page whose poll was in flight sees its fetch() fail.
PollAwaits == {"consume_read", "consume_save", "extend_read", "extend_save",
               "create_session"}

CrashedJob(w) ==
  IF job[w].pc \in PollAwaits \cup Replies
  THEN [Idle EXCEPT !.pc = "retry", !.h = job[w].h] ELSE Idle

Crash ==
  /\ faults < MaxFaults
  /\ faults' = faults + 1
  /\ job' = [w \in Workers |-> CrashedJob(w)]
  /\ UNCHANGED <<rec, stored, late, phone, signedIn, authreq, waitPage, history>>

-----------------------------------------------------------------------------
Handler(w) ==
  \/ ApproveRead(w) \/ ApproveSave(w) \/ ApproveEnd(w) \/ DenySave(w)
  \/ ConsumeRead(w) \/ ConsumeSave(w) \/ ExtendRead(w) \/ ExtendSave(w)
  \/ CreateSession(w)

Next ==
  \/ \E h \in Handoffs, r \in Requests \cup {None} : StartHandoff(h, r)
  \/ \E h \in Handoffs : LeavePage(h) \/ Deadline(h) \/ Evict(h)
  \/ \E s \in Sids, u \in Subjects : PhoneLogin(s, u)
  \/ \E s \in Sids : PhoneLogout(s)
  \/ \E w \in Workers, s \in Sids, h \in Handoffs, withProof \in BOOLEAN :
       ApproveBegin(w, s, h, withProof)
  \/ \E w \in Workers, h \in Handoffs : DenyRead(w, h) \/ PollRead(w, h)
  \/ \E w \in Workers : Handler(w) \/ Deliver(w) \/ LoseReply(w)
  \/ \E r \in Requests : RequestGone(r)
  \/ Crash

Spec == Init /\ [][Next]_vars

\* The event loop resumes every handler, an answer that is not lost arrives,
\* and setInterval keeps the page polling.  Nobody has to approve, deny or
\* stay, and no clock has to run out.  Polling is strongly fair because a full
\* set of Workers is a bound of the model: Node accepts every request.
Fairness ==
  /\ \A w \in Workers : WF_vars(Handler(w)) /\ WF_vars(Deliver(w))
  /\ \A h \in Handoffs : SF_vars(\E w \in Workers : PollRead(w, h))

FairSpec == Spec /\ Fairness

-----------------------------------------------------------------------------
\* A worker's job is a job, and one in flight knows its handoff.
JobsOK ==
  /\ job \in [Workers -> Job]
  /\ \A w \in Workers : job[w].pc # "idle" => job[w].h \in Handoffs

\* Every variable stays in its domain.
TypeOK ==
  /\ rec \in [Handoffs -> Record]
  /\ stored \subseteq {h \in Handoffs : rec[h].status # "unborn"}
  /\ late \subseteq Handoffs
  /\ phone \in [Sids -> Subjects \cup {None}]
  /\ signedIn \subseteq Sids
  /\ authreq \subseteq Requests
  /\ JobsOK
  /\ page \in [Handoffs -> Pages]
  /\ pollDone \subseteq Handoffs
  /\ faults \in 0..MaxFaults
  /\ made \in [Handoffs -> Nat]
  /\ granted \subseteq [h : Handoffs, grant : Verdicts]
  /\ verdicts \in [Handoffs -> SUBSET Verdicts]
  /\ clobbered \subseteq Handoffs

\* No handler has overwritten an update of this handoff it had not seen.
Intact(h) == h \notin clobbered

\* consumeApprovedHandoff is there so that an approval signs in one desktop
\* once.  Whatever the overlap of polls, crashes and lost replies, a handoff
\* whose record no handler ever overwrote unseen yields at most one session.
SingleLogin ==
  \A h \in Handoffs : Intact(h) => made[h] <= 1

\* The phone decides once: without a lost update a handoff never collects two
\* verdicts, so a denial excludes every session of that handoff.
OneVerdict ==
  \A h \in Handoffs : Intact(h) =>
    /\ \A v1, v2 \in verdicts[h] : v1 = v2
    /\ Denial \in verdicts[h] => made[h] = 0

\* What the approve handler asks of an approval before it grants it.
Earned(h, v) ==
  /\ v[1] \in Enrolled
  /\ v[2] \in Aals
  /\ v[2] = "zk" => <<v[1], h>> \in Receipts
  /\ RequireZk => v[2] = "zk"

\* Even with lost updates, a desktop session carries exactly the subject and
\* assurance that some approval of this handoff granted: an enrolled account,
\* never a denial, and the zk level only with that account's receipt for this
\* very handoff, or always when the configuration requires it.
EarnedLogin ==
  \A g \in granted : g.grant \in verdicts[g.h] /\ Earned(g.h, g.grant)

\* What an outcome claims of its handoff.
Happened(h, outcome) ==
  /\ outcome \in {"approved", "redirected"} => made[h] > 0
  /\ outcome = "denied"                     => Denial \in verdicts[h]
  /\ outcome = "consumed"                   => verdicts[h] \ {Denial} # {}
  /\ outcome = "expired"                    => h \in late

\* However late and out of order the answers of overlapping polls arrive, an
\* outcome the wait page shows has happened, a page that shows one no longer
\* polls, and a page stops polling only for an outcome or because its user
\* left.  The page may not go on showing it: see AfterReply.
PageTellsTruth ==
  \A h \in Handoffs :
    /\ Happened(h, page[h])
    /\ page[h] \in Outcomes => h \in pollDone
    /\ h \in pollDone =>
         page[h] = "left" \/ \E outcome \in Outcomes : Happened(h, outcome)

\* The handlers, awaits, crashes and stray replies together keep the promise
\* of HandoffPromise to every handoff that has not suffered a lost update.
Phase(h) ==
  IF ~Intact(h) THEN "void"
  ELSE CASE rec[h].status = "unborn"   -> "closed"
         [] rec[h].status = "pending"  -> "open"
         [] rec[h].status = "approved" -> "granted"
         [] rec[h].status = "denied"   -> "refused"
         [] OTHER                      -> IF made[h] = 0 THEN "spent" ELSE "signed_in"

Promise == INSTANCE HandoffPromise WITH
  Grants  <- Enrolled \X Aals,
  NoGrant <- Denial,
  phase   <- [h \in Handoffs |-> Phase(h)],
  grant   <- [h \in Handoffs |-> IF Intact(h) THEN <<rec[h].who, rec[h].aal>>
                                               ELSE Denial],
  logins  <- {g \in granted : Intact(g.h)}

KeepsPromise == Promise!Spec

\* An approved handoff does not leave its page hanging: while the record lives
\* the polls reach it and the page settles.
ApprovalReachesPage ==
  \A h \in Handoffs :
    (Readable(h, "approved") /\ Polling(h))
      ~> (h \in pollDone \/ h \in late \/ h \notin stored)

-----------------------------------------------------------------------------
(* The inductive invariant behind the safety properties: what the jobs in   *)
(* flight and the record still carry, besides what the properties say.      *)

\* The awaits between save(consumed) and createSession.
Signing == {"extend_read", "extend_save", "create_session"}

\* A poll extends only the authorization request its handoff was started with.
ExtendsItsRequest ==
  \A w \in Workers : job[w].pc \in {"extend_read", "extend_save"} =>
    rec[job[w].h].status # "unborn" /\ rec[job[w].h].req \in Requests

\* Holds with or without lost updates: whoever is on the way to the record or
\* to a session carries an approval that was earned.
JobBacked(w) == LET j == job[w] IN
  /\ j.pc \in {"approve_read", "approve_save"} => Earned(j.h, <<j.who, j.aal>>)
  /\ j.pc \in {"consume_save"} \cup Signing =>
       <<j.who, j.aal>> \in verdicts[j.h] \ {Denial}

RecordBacked(h) ==
  /\ \A v \in verdicts[h] : v = Denial \/ Earned(h, v)
  /\ rec[h].status \in {"approved", "consumed"} =>
       <<rec[h].who, rec[h].aal>> \in verdicts[h] \ {Denial}
  /\ rec[h].status = "denied" => Denial \in verdicts[h]

Backed == (\A w \in Workers : JobBacked(w)) /\ (\A h \in Handoffs : RecordBacked(h))

\* What an intact record says is all that happened to its handoff.
HistoryOf(h) ==
  /\ rec[h].status \in {"unborn", "pending"} =>
       verdicts[h] = {} /\ <<rec[h].who, rec[h].aal>> = Denial
  /\ rec[h].status = "denied" =>
       verdicts[h] = {Denial} /\ <<rec[h].who, rec[h].aal>> = Denial
  /\ rec[h].status \in {"approved", "consumed"} =>
       verdicts[h] = {<<rec[h].who, rec[h].aal>>}
  /\ rec[h].status # "consumed" => made[h] = 0
  /\ made[h] <= 1

RecordIsHistory == \A h \in Handoffs : Intact(h) => HistoryOf(h)

\* At most one poll stands between consuming an intact record and creating
\* its session, and it carries what the record says.
Consistent(w) == LET h == job[w].h IN
  /\ job[w].pc \in {"consume_save"} \cup Signing =>
       /\ rec[h].status \in {"approved", "consumed"}
       /\ job[w].who = rec[h].who /\ job[w].aal = rec[h].aal
  /\ job[w].pc \in Signing =>
       /\ rec[h].status = "consumed" /\ made[h] = 0
       /\ \A v \in Workers : job[v].pc \in Signing /\ job[v].h = h => v = w

OneSigner ==
  \A w \in Workers : job[w].h \in Handoffs /\ Intact(job[w].h) => Consistent(w)

\* An answer on its way to the page is true already.
RepliesTrue == \A w \in Workers : Happened(job[w].h, job[w].pc)

IInv ==
  /\ TypeOK
  /\ ExtendsItsRequest
  /\ Backed
  /\ RecordIsHistory
  /\ OneSigner
  /\ RepliesTrue
  /\ EarnedLogin
  /\ PageTellsTruth
=============================================================================
