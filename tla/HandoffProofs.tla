---------------------------- MODULE HandoffProofs ----------------------------
(***************************************************************************)
(* Proofs about Handoff for every number of handoffs, workers, accounts,    *)
(* sessions, requests and faults: type correctness, then its safety.  IInv   *)
(* is inductive, so its properties hold of any number of polls, approvals,   *)
(* denials, crashes and lost replies, and the handoff implements             *)
(* HandoffPromise.                                                          *)
(*                                                                         *)
(* The proofs of safety do not treat the twenty actions one by one.          *)
(* StepShapes sorts every step into one of seven shapes, and each part of    *)
(* the invariant is preserved by each shape.                                *)
(***************************************************************************)
EXTENDS Handoff, TLAPS


PCs == {"idle"} \cup Awaits \cup Replies

-----------------------------------------------------------------------------
(* How the helpers on jobs keep their type.                                 *)

LEMMA IdleJob == Idle \in Job /\ Idle.pc = "idle"
BY DEF Idle, Job

LEMMA NewJob ==
  ASSUME JobsOK, NEW w \in Workers, NEW j \in Job, j.pc # "idle" => j.h \in Handoffs,
         job' = [job EXCEPT ![w] = j]
  PROVE  JobsOK'
BY DEF JobsOK

LEMMA FinishJob ==
  ASSUME JobsOK, NEW w \in Workers, Finish(w)
  PROVE  JobsOK'
BY NewJob, IdleJob DEF Finish

LEMMA GotoIsNewJob ==
  ASSUME JobsOK, NEW w \in Workers, NEW pc \in PCs, Goto(w, pc), job[w].pc # "idle"
  PROVE  JobsOK'
<1>1. job[w] \in Job /\ job[w].h \in Handoffs
  BY DEF JobsOK
<1>2. [job[w] EXCEPT !.pc = pc] \in Job
  BY <1>1 DEF Job, PCs
<1>3. [job[w] EXCEPT !.pc = pc].h = job[w].h
  BY <1>1 DEF Job
<1>4. job' = [job EXCEPT ![w] = [job[w] EXCEPT !.pc = pc]]
  BY DEF Goto, JobsOK
<1> QED
  BY <1>1, <1>2, <1>3, <1>4, NewJob

\* What a crash leaves of a job: nothing, or a poll that failed.
LEMMA CrashJob ==
  ASSUME JobsOK, NEW w \in Workers
  PROVE  /\ CrashedJob(w) \in Job
         /\ CrashedJob(w).pc \in {"idle", "retry"}
         /\ CrashedJob(w).pc # "idle" => CrashedJob(w).h \in Handoffs
<1>1. CASE job[w].pc \in PollAwaits \cup Replies
  <2>1. job[w].h \in Handoffs
    BY <1>1 DEF JobsOK, PollAwaits, Replies
  <2> QED
    BY <1>1, <2>1 DEF CrashedJob, Idle, Job, Replies
<1>2. CASE job[w].pc \notin PollAwaits \cup Replies
  BY <1>2, IdleJob DEF CrashedJob
<1> QED
  BY <1>1, <1>2

LEMMA SaveKeepsTypes ==
  ASSUME TypeOK, NEW h \in Handoffs, NEW seen,
         NEW st \in {"approved", "denied", "consumed"},
         NEW who \in Subjects \cup {None}, NEW aal \in Aals \cup {NoAal},
         Save(h, seen, st, who, aal)
  PROVE  /\ rec' \in [Handoffs -> Record]
         /\ stored' \subseteq {k \in Handoffs : rec'[k].status # "unborn"}
         /\ clobbered' \subseteq Handoffs
         /\ \A k \in Handoffs : rec'[k].req = rec[k].req
         /\ \A k \in Handoffs : rec'[k].status = IF k = h THEN st ELSE rec[k].status
<1>1. rec \in [Handoffs -> Record]
  BY DEF TypeOK
<1>2. rec' = [rec EXCEPT ![h] = [rec[h] EXCEPT !.status = st, !.who = who, !.aal = aal]]
  BY <1>1 DEF Save
<1>3. [rec[h] EXCEPT !.status = st, !.who = who, !.aal = aal] \in Record
  BY <1>1 DEF Record
<1>4. [rec[h] EXCEPT !.status = st, !.who = who, !.aal = aal].status = st
  BY <1>1 DEF Record
<1>6. [rec[h] EXCEPT !.status = st, !.who = who, !.aal = aal].req = rec[h].req
  BY <1>1 DEF Record
<1>5. \A k \in Handoffs : rec'[k].status = IF k = h THEN st ELSE rec[k].status
  BY <1>1, <1>2, <1>4
<1>7. \A k \in Handoffs : rec'[k].req = rec[k].req
  BY <1>1, <1>2, <1>6
<1> QED
  BY <1>1, <1>2, <1>3, <1>5, <1>7 DEF Save, TypeOK

-----------------------------------------------------------------------------
(* Type correctness.                                                        *)

LEMMA TypeInit == Init => TypeOK
<1> SUFFICES ASSUME Init PROVE TypeOK
  OBVIOUS
<1>1. JobsOK
  BY IdleJob DEF Init, JobsOK
<1>2. rec \in [Handoffs -> Record]
  BY DEF Init, Unborn, Record
<1>3. faults \in 0..MaxFaults
  BY ConstantsAssumption DEF Init
<1>4. /\ made \in [Handoffs -> Nat]
      /\ verdicts \in [Handoffs -> SUBSET Verdicts]
      /\ page \in [Handoffs -> Pages] /\ pollDone = {}
      /\ phone \in [Sids -> Subjects \cup {None}]
  BY DEF Init, Pages
<1>5. /\ stored = {} /\ late = {} /\ signedIn = {} /\ authreq = Requests
      /\ granted = {} /\ clobbered = {}
  BY DEF Init
<1> QED
  BY <1>1, <1>2, <1>3, <1>4, <1>5 DEF TypeOK

LEMMA TypeStep == TypeOK /\ ExtendsItsRequest /\ [Next]_vars => TypeOK'
<1> SUFFICES ASSUME TypeOK, ExtendsItsRequest, [Next]_vars PROVE TypeOK'
  OBVIOUS
<1> USE ConstantsAssumption DEF history, waitPage
<1>0. \A w \in Workers : job[w].pc # "idle" => job[w] \in Job /\ job[w].h \in Handoffs
  BY DEF TypeOK, JobsOK
<1>1. ASSUME NEW h \in Handoffs, NEW r \in Requests \cup {None}, StartHandoff(h, r)
      PROVE  TypeOK'
  <2>0. rec \in [Handoffs -> Record]
    BY DEF TypeOK
  <2>1. rec' = [rec EXCEPT ![h] = [rec[h] EXCEPT !.status = "pending", !.req = r]]
    BY <1>1, <2>0 DEF StartHandoff
  <2>2. /\ [rec[h] EXCEPT !.status = "pending", !.req = r] \in Record
        /\ [rec[h] EXCEPT !.status = "pending", !.req = r].status = "pending"
    BY <2>0 DEF Record
  <2>3. /\ rec' \in [Handoffs -> Record]
        /\ \A k \in Handoffs : rec'[k].status = IF k = h THEN "pending" ELSE rec[k].status
    BY <2>0, <2>1, <2>2
  <2> QED
    BY <1>1, <2>3 DEF StartHandoff, TypeOK, JobsOK, Pages
<1>2. ASSUME NEW h \in Handoffs, LeavePage(h) \/ Deadline(h) \/ Evict(h)
      PROVE  TypeOK'
  BY <1>2 DEF LeavePage, Deadline, Evict, TypeOK, JobsOK, Pages
<1>3. ASSUME NEW s \in Sids, NEW u \in Subjects, PhoneLogin(s, u)
      PROVE  TypeOK'
  BY <1>3 DEF PhoneLogin, TypeOK, JobsOK
<1>4. ASSUME NEW s \in Sids, PhoneLogout(s)
      PROVE  TypeOK'
  BY <1>4 DEF PhoneLogout, TypeOK, JobsOK
<1>5. ASSUME NEW w \in Workers, NEW s \in Sids, NEW h \in Handoffs,
             NEW withProof \in BOOLEAN, ApproveBegin(w, s, h, withProof)
      PROVE  TypeOK'
  <2> DEFINE j == [pc |-> "approve_read", h |-> h, sid |-> s, who |-> phone[s],
                   aal |-> IF withProof THEN "zk" ELSE "aal2"]
  <2>1. j \in Job /\ j.pc # "idle" /\ j.h \in Handoffs
    BY DEF TypeOK, Job, Awaits, Aals
  <2>2. JobsOK'
    BY <1>5, <2>1, NewJob DEF ApproveBegin, TypeOK
  <2> QED
    BY <1>5, <2>2 DEF ApproveBegin, TypeOK
<1>6. ASSUME NEW w \in Workers, NEW h \in Handoffs, DenyRead(w, h)
      PROVE  TypeOK'
  <2> DEFINE j == [Idle EXCEPT !.pc = "deny_save", !.h = h]
  <2>1. j \in Job /\ j.pc # "idle" /\ j.h \in Handoffs
    BY DEF Idle, Job, Awaits
  <2>2. JobsOK'
    BY <1>6, <2>1, NewJob DEF DenyRead, TypeOK
  <2> QED
    BY <1>6, <2>2 DEF DenyRead, TypeOK
<1>7. ASSUME NEW w \in Workers, NEW h \in Handoffs, PollRead(w, h)
      PROVE  TypeOK'
  <2> DEFINE pc == IF Readable(h, "approved") THEN "consume_read" ELSE StatusReply(h)
             j == [Idle EXCEPT !.h = h, !.pc = pc]
  <2>1. pc \in PCs /\ pc # "idle"
    \* An unborn record is not stored, and a readable approved one is no reply.
    BY <1>7 DEF PollRead, Readable, StatusReply, TypeOK, Record, PCs, Awaits, Replies
  <2>2. j \in Job /\ j.pc # "idle" /\ j.h \in Handoffs
    BY <2>1 DEF Idle, Job, PCs
  <2>3. JobsOK'
    BY <1>7, <2>2, NewJob DEF PollRead, TypeOK
  <2> QED
    BY <1>7, <2>3 DEF PollRead, TypeOK
<1>8. ASSUME NEW w \in Workers, ApproveRead(w) PROVE TypeOK'
  <2>1. job[w].pc = "approve_read" /\ (Goto(w, "approve_save") \/ Finish(w))
    BY <1>8 DEF ApproveRead
  <2>2. JobsOK'
    BY <2>1, GotoIsNewJob, FinishJob DEF TypeOK, PCs, Awaits
  <2> QED
    BY <1>8, <2>2 DEF ApproveRead, TypeOK
<1>9. ASSUME NEW w \in Workers, ApproveSave(w) PROVE TypeOK'
  <2>1. job[w].pc = "approve_save" /\ Goto(w, "approve_end")
    BY <1>9 DEF ApproveSave
  <2>2. JobsOK'
    BY <2>1, GotoIsNewJob DEF TypeOK, PCs, Awaits
  <2>3. job[w].h \in Handoffs /\ <<job[w].who, job[w].aal>> \in Verdicts
    BY <1>0, <2>1 DEF Job, Verdicts
  <2>4. /\ rec' \in [Handoffs -> Record]
        /\ stored' \subseteq {k \in Handoffs : rec'[k].status # "unborn"}
        /\ clobbered' \subseteq Handoffs
    BY <1>0, <1>9, <2>3, SaveKeepsTypes DEF ApproveSave, Verdicts
  <2>5. verdicts' \in [Handoffs -> SUBSET Verdicts]
    BY <1>9, <2>3 DEF ApproveSave, TypeOK
  <2> QED
    BY <1>9, <2>2, <2>4, <2>5 DEF ApproveSave, TypeOK
<1>10. ASSUME NEW w \in Workers, ApproveEnd(w) PROVE TypeOK'
  <2>1. JobsOK'
    BY <1>10, FinishJob DEF ApproveEnd, TypeOK
  <2> QED
    BY <1>10, <2>1 DEF ApproveEnd, TypeOK
<1>11. ASSUME NEW w \in Workers, DenySave(w) PROVE TypeOK'
  <2>1. JobsOK'
    BY <1>11, FinishJob DEF DenySave, TypeOK
  <2>2. job[w].h \in Handoffs /\ Denial \in Verdicts
    BY <1>0, <1>11 DEF DenySave, Denial, Verdicts
  <2>3. /\ rec' \in [Handoffs -> Record]
        /\ stored' \subseteq {k \in Handoffs : rec'[k].status # "unborn"}
        /\ clobbered' \subseteq Handoffs
    BY <1>11, <2>2, SaveKeepsTypes DEF DenySave
  <2>4. verdicts' \in [Handoffs -> SUBSET Verdicts]
    BY <1>11, <2>2 DEF DenySave, TypeOK
  <2> QED
    BY <1>11, <2>1, <2>3, <2>4 DEF DenySave, TypeOK
<1>12. ASSUME NEW w \in Workers, ConsumeRead(w) PROVE TypeOK'
  <2>1. job[w].pc = "consume_read" /\ job[w] \in Job /\ job[w].h \in Handoffs
    BY <1>0, <1>12 DEF ConsumeRead
  <2>2. CASE ~Readable(job[w].h, "approved")
    <3>1. JobsOK'
      BY <1>12, <2>1, <2>2, GotoIsNewJob DEF ConsumeRead, TypeOK, PCs, Replies
    <3> QED
      BY <1>12, <3>1 DEF ConsumeRead, TypeOK
  <2>3. CASE Readable(job[w].h, "approved")
    <3> DEFINE r == rec[job[w].h]
               j == [job[w] EXCEPT !.pc = "consume_save", !.who = r.who, !.aal = r.aal]
    <3>1. r \in Record
      BY <2>1 DEF TypeOK
    <3>2. j \in Job /\ j.pc # "idle" /\ j.h \in Handoffs
      BY <2>1, <3>1 DEF Job, Record, Awaits
    <3>3. job' = [job EXCEPT ![w] = j]
      BY <1>12, <2>3 DEF ConsumeRead, TypeOK, JobsOK
    <3>4. JobsOK'
      BY <3>2, <3>3, NewJob DEF TypeOK
    <3> QED
      BY <1>12, <3>4 DEF ConsumeRead, TypeOK
  <2> QED
    BY <2>2, <2>3
<1>13. ASSUME NEW w \in Workers, ConsumeSave(w) PROVE TypeOK'
  <2>1. job[w].pc = "consume_save"
    BY <1>13 DEF ConsumeSave
  <2>2. JobsOK'
    BY <1>13, <2>1, GotoIsNewJob DEF ConsumeSave, TypeOK, PCs, Awaits
  <2>3. job[w].h \in Handoffs /\ <<job[w].who, job[w].aal>> \in Verdicts
    BY <1>0, <2>1 DEF Job, Verdicts
  <2>4. /\ rec' \in [Handoffs -> Record]
        /\ stored' \subseteq {k \in Handoffs : rec'[k].status # "unborn"}
        /\ clobbered' \subseteq Handoffs
    BY <1>13, <2>3, SaveKeepsTypes DEF ConsumeSave, Verdicts
  <2> QED
    BY <1>13, <2>2, <2>4 DEF ConsumeSave, TypeOK
<1>14. ASSUME NEW w \in Workers, ExtendRead(w) PROVE TypeOK'
  <2>1. JobsOK'
    BY <1>14, GotoIsNewJob DEF ExtendRead, TypeOK, PCs, Awaits
  <2> QED
    BY <1>14, <2>1 DEF ExtendRead, TypeOK
<1>15. ASSUME NEW w \in Workers, ExtendSave(w) PROVE TypeOK'
  <2>1. JobsOK'
    BY <1>15, GotoIsNewJob DEF ExtendSave, TypeOK, PCs, Awaits
  <2>2. authreq' \subseteq Requests
    BY <1>15 DEF ExtendSave, TypeOK, ExtendsItsRequest
  <2> QED
    BY <1>15, <2>1, <2>2 DEF ExtendSave, TypeOK
<1>16. ASSUME NEW w \in Workers, CreateSession(w) PROVE TypeOK'
  <2>1. job[w].pc = "create_session"
    BY <1>16 DEF CreateSession
  <2>2. JobsOK'
    BY <1>16, <2>1, GotoIsNewJob DEF CreateSession, TypeOK, PCs, Replies
  <2>3. job[w].h \in Handoffs /\ <<job[w].who, job[w].aal>> \in Verdicts
    BY <1>0, <2>1 DEF Job, Verdicts
  <2> QED
    BY <1>16, <2>2, <2>3 DEF CreateSession, TypeOK
<1>17. ASSUME NEW w \in Workers, Deliver(w) PROVE TypeOK'
  <2>1. JobsOK'
    BY <1>17, FinishJob DEF Deliver, TypeOK
  <2>2. \A p \in Pages, reply \in Replies : AfterReply(p, reply) \in Pages
    BY DEF AfterReply, Pages, Outcomes, Replies
  <2>3. page' \in [Handoffs -> Pages]
    BY <1>17, <2>2 DEF Deliver, TypeOK
  <2>4. pollDone' \subseteq Handoffs
    BY <1>0, <1>17 DEF Deliver, Replies, TypeOK
  <2> QED
    BY <1>17, <2>1, <2>3, <2>4 DEF Deliver, TypeOK
<1>18. ASSUME NEW w \in Workers, LoseReply(w) PROVE TypeOK'
  <2>1. JobsOK'
    BY <1>18, GotoIsNewJob DEF LoseReply, TypeOK, PCs, Replies
  <2> QED
    BY <1>18, <2>1 DEF LoseReply, TypeOK
<1>19. ASSUME NEW r \in Requests, RequestGone(r) PROVE TypeOK'
  BY <1>19 DEF RequestGone, TypeOK, JobsOK
<1>20. ASSUME Crash PROVE TypeOK'
  <2>1. JobsOK'
    BY <1>20, CrashJob DEF Crash, TypeOK, JobsOK
  <2> QED
    BY <1>20, <2>1 DEF Crash, TypeOK
<1>21. ASSUME UNCHANGED vars PROVE TypeOK'
  BY <1>21 DEF vars, TypeOK, JobsOK
<1> QED
  BY <1>1, <1>2, <1>3, <1>4, <1>5, <1>6, <1>7, <1>8, <1>9, <1>10, <1>11, <1>12,
     <1>13, <1>14, <1>15, <1>16, <1>17, <1>18, <1>19, <1>20, <1>21
     DEF Next, Handler

\* A step other than the start and the saves changes neither the status nor
\* the request of a record.
LEMMA ExtendStep == TypeOK /\ ExtendsItsRequest /\ [Next]_vars => ExtendsItsRequest'
<1> SUFFICES ASSUME TypeOK, ExtendsItsRequest, [Next]_vars PROVE ExtendsItsRequest'
  OBVIOUS
<1>0. \A w \in Workers : job[w].pc # "idle" => job[w] \in Job /\ job[w].h \in Handoffs
  BY DEF TypeOK, JobsOK
<1>0a. job \in [Workers -> Job] /\ rec \in [Handoffs -> Record]
  BY DEF TypeOK, JobsOK
<1>1. ASSUME NEW h \in Handoffs, NEW r \in Requests \cup {None}, StartHandoff(h, r)
      PROVE  ExtendsItsRequest'
  <2>1. job' = job /\ rec[h].status = "unborn"
        /\ \A k \in Handoffs : k # h => rec'[k] = rec[k]
    BY <1>0a, <1>1 DEF StartHandoff
  <2> QED
    BY <1>0, <2>1 DEF ExtendsItsRequest
<1>2. ASSUME NEW w \in Workers, NEW h \in Handoffs, NEW st \in {"approved", "denied"},
             NEW who \in Subjects \cup {None}, NEW aal \in Aals \cup {NoAal},
             Save(h, "pending", st, who, aal),
             Finish(w) \/ Goto(w, "approve_end")
      PROVE  ExtendsItsRequest'
  <2>1. /\ \A k \in Handoffs : rec'[k].req = rec[k].req
        /\ \A k \in Handoffs : rec'[k].status # "unborn" \/ rec'[k].status = rec[k].status
    BY <1>2, SaveKeepsTypes
  <2>2. \A v \in Workers : job'[v].pc \in {"extend_read", "extend_save"} =>
          job'[v] = job[v]
    BY <1>0a, <1>2 DEF Finish, Goto, Idle, Job
  <2> QED
    BY <1>0, <2>1, <2>2 DEF ExtendsItsRequest
<1>3. ASSUME NEW w \in Workers, ConsumeSave(w)
      PROVE  ExtendsItsRequest'
  <2> DEFINE h == job[w].h
  <2>1. h \in Handoffs /\ job[w].who \in Subjects \cup {None}
        /\ job[w].aal \in Aals \cup {NoAal}
    BY <1>0, <1>3 DEF ConsumeSave, Job
  <2>2. /\ \A k \in Handoffs : rec'[k].req = rec[k].req
        /\ \A k \in Handoffs : rec'[k].status = IF k = h THEN "consumed" ELSE rec[k].status
    BY <1>3, <2>1, SaveKeepsTypes DEF ConsumeSave
  <2>3. \A v \in Workers : v # w => job'[v] = job[v]
    BY <1>0a, <1>3 DEF ConsumeSave, Goto
  <2>4. job'[w].h = h /\ job'[w].pc = IF rec[h].req = None THEN "create_session"
                                                           ELSE "extend_read"
    BY <1>0a, <1>3 DEF ConsumeSave, Goto, Job
  <2>5. rec[h].req \in Requests \cup {None}
    BY <1>0a, <2>1 DEF Record
  <2> QED
    BY <1>0, <2>1, <2>2, <2>3, <2>4, <2>5 DEF ExtendsItsRequest
<1>4. ASSUME UNCHANGED rec,
             \A v \in Workers : job'[v].pc \in {"extend_read", "extend_save"} =>
               /\ job[v].pc \in {"extend_read", "extend_save"}
               /\ job'[v].h = job[v].h
      PROVE  ExtendsItsRequest'
  BY <1>4 DEF ExtendsItsRequest
<1>5. ASSUME UNCHANGED rec, UNCHANGED job PROVE ExtendsItsRequest'
  BY <1>4, <1>5
<1>6. ASSUME UNCHANGED rec, NEW w \in Workers, NEW j \in Job,
             job' = [job EXCEPT ![w] = j], j.pc \notin {"extend_read", "extend_save"}
      PROVE  ExtendsItsRequest'
  BY <1>0a, <1>4, <1>6
<1>7. ASSUME UNCHANGED rec, NEW w \in Workers, Finish(w) PROVE ExtendsItsRequest'
  BY <1>6, <1>7, IdleJob DEF Finish
<1>8. ASSUME UNCHANGED rec, NEW w \in Workers, NEW pc, Goto(w, pc),
             pc \notin {"extend_read", "extend_save"} \/ job[w].pc = "extend_read"
      PROVE  ExtendsItsRequest'
  BY <1>0a, <1>4, <1>8 DEF Goto, Job
<1>9. ASSUME NEW w \in Workers, Handler(w) PROVE ExtendsItsRequest'
  <2>1. CASE ApproveRead(w) \/ ApproveEnd(w) \/ ExtendRead(w) \/ ExtendSave(w)
             \/ CreateSession(w)
    BY <2>1, <1>7, <1>8 DEF ApproveRead, ApproveEnd, ExtendRead, ExtendSave, CreateSession
  <2>2. CASE ApproveSave(w)
    <3>1. job[w].h \in Handoffs /\ job[w].who \in Subjects \cup {None}
          /\ job[w].aal \in Aals \cup {NoAal}
      BY <1>0, <2>2 DEF ApproveSave, Job
    <3> QED
      BY <2>2, <3>1, <1>2 DEF ApproveSave
  <2>3. CASE DenySave(w)
    BY <2>3, <1>0, <1>2 DEF DenySave
  <2>4. CASE ConsumeRead(w)
    BY <2>4, <1>0a, <1>4 DEF ConsumeRead, Goto, Job
  <2>5. CASE ConsumeSave(w)
    BY <2>5, <1>3
  <2> QED
    BY <1>9, <2>1, <2>2, <2>3, <2>4, <2>5 DEF Handler
<1>10. ASSUME NEW w \in Workers, NEW s \in Sids, NEW h \in Handoffs,
              NEW withProof \in BOOLEAN, ApproveBegin(w, s, h, withProof)
       PROVE  ExtendsItsRequest'
  BY <1>10, <1>0a, <1>4 DEF ApproveBegin
<1>11. ASSUME NEW w \in Workers, NEW h \in Handoffs, DenyRead(w, h) \/ PollRead(w, h)
       PROVE  ExtendsItsRequest'
  <2>1. CASE DenyRead(w, h)
    BY <2>1, <1>0a, <1>4 DEF DenyRead, Idle
  <2>2. CASE PollRead(w, h)
    <3>1. StatusReply(h) \notin {"extend_read", "extend_save"}
      BY <1>0a DEF StatusReply, Record
    <3> QED
      BY <2>2, <3>1, <1>0a, <1>4 DEF PollRead, Idle
  <2> QED
    BY <1>11, <2>1, <2>2
<1>12. ASSUME Crash PROVE ExtendsItsRequest'
  <2>1. \A w \in Workers : job'[w].pc \in {"idle", "retry"}
    BY <1>12, CrashJob DEF Crash, TypeOK
  <2> QED
    BY <1>4, <1>12, <2>1 DEF Crash
<1>13. ASSUME NEW w \in Workers, LoseReply(w) PROVE ExtendsItsRequest'
  BY <1>8, <1>13 DEF LoseReply
<1> QED
  BY <1>1, <1>5, <1>7, <1>9, <1>10, <1>11, <1>12, <1>13
     DEF Next, vars, LeavePage, Deadline, Evict, PhoneLogin, PhoneLogout, Deliver,
         RequestGone

\* Every variable of the handoff stays in its domain, a job in flight knows its
\* handoff, and the cache never holds a handoff that was not started.
THEOREM TypeCorrect == Spec => []TypeOK
<1>1. Init => TypeOK /\ ExtendsItsRequest
  BY TypeInit DEF Init, Idle, ExtendsItsRequest
<1>2. TypeOK /\ ExtendsItsRequest /\ [Next]_vars => TypeOK' /\ ExtendsItsRequest'
  BY TypeStep, ExtendStep
<1> QED
  BY <1>1, <1>2, PTL DEF Spec

-----------------------------------------------------------------------------
(* Safety: the shapes a step has.                                           *)

core == <<rec, made, granted, verdicts, clobbered>>

\* A step outside the server, or one of its clocks: no record, no job.
Quiet ==
  /\ UNCHANGED <<core, job>>
  /\ late \subseteq late'
  /\ \A h \in Handoffs :
       \/ page'[h] = page[h] /\ (h \in pollDone' <=> h \in pollDone)
       \/ page'[h] = "left" /\ h \in pollDone'

\* The page of h takes an answer in.
Reacts(h, reply) ==
  /\ reply \in Replies
  /\ page' = [page EXCEPT ![h] = AfterReply(@, reply)]
  /\ pollDone' = IF reply \in Final THEN pollDone \cup {h} ELSE pollDone

\* A step in which worker w only reads, or ends.
JobMove(w) == LET i == job[w]  j == job'[w] IN
  /\ UNCHANGED <<core, late>>
  /\ \A v \in Workers : v # w => job'[v] = job[v]
  /\ j.pc # "idle" => j.h \in Handoffs
  /\ j.pc \in {"approve_read", "approve_save"} => Earned(j.h, <<j.who, j.aal>>)
  /\ j.pc = "consume_save" =>
       /\ rec[j.h].status = "approved"
       /\ j.who = rec[j.h].who /\ j.aal = rec[j.h].aal
  /\ j.pc \in Signing =>
       /\ i.pc \in Signing
       /\ j.h = i.h /\ j.who = i.who /\ j.aal = i.aal
  /\ j.pc \notin {"approved", "redirected"}
  /\ j.pc \in {"denied", "consumed"} => rec[j.h].status = j.pc
  /\ j.pc = "expired" => j.h \in late
  /\ \/ UNCHANGED waitPage
     \/ Reacts(i.h, i.pc)

-----------------------------------------------------------------------------
LEMMA StepShapes ==
  ASSUME TypeOK, Backed, [Next]_vars
  PROVE  \/ Quiet
         \/ \E w \in Workers : JobMove(w)
         \/ Crash
         \/ \E h \in Handoffs, r \in Requests \cup {None} : StartHandoff(h, r)
         \/ \E w \in Workers : ApproveSave(w) \/ DenySave(w)
         \/ \E w \in Workers : ConsumeSave(w)
         \/ \E w \in Workers : CreateSession(w)
<1> USE DEF history, waitPage
<1>0. /\ job \in [Workers -> Job]
      /\ rec \in [Handoffs -> Record]
      /\ page \in [Handoffs -> Pages]
      /\ \A w \in Workers : job[w].pc # "idle" => job[w].h \in Handoffs
  BY DEF TypeOK, JobsOK
<1>1. ASSUME UNCHANGED vars PROVE Quiet
  BY <1>1 DEF vars, Quiet, core
<1>2. ASSUME NEW h \in Handoffs, LeavePage(h) \/ Deadline(h) \/ Evict(h) PROVE Quiet
  BY <1>0, <1>2 DEF LeavePage, Deadline, Evict, Quiet, core
<1>3. ASSUME NEW s \in Sids,
             PhoneLogout(s) \/ \E u \in Subjects : PhoneLogin(s, u)
      PROVE  Quiet
  BY <1>3 DEF PhoneLogin, PhoneLogout, Quiet, core
<1>4. ASSUME NEW r \in Requests, RequestGone(r) PROVE Quiet
  BY <1>4 DEF RequestGone, Quiet, core
<1>5. ASSUME NEW w \in Workers, NEW s \in Sids, NEW h \in Handoffs,
             NEW withProof \in BOOLEAN, ApproveBegin(w, s, h, withProof)
      PROVE  JobMove(w)
  <2> DEFINE j == [pc |-> "approve_read", h |-> h, sid |-> s, who |-> phone[s],
                   aal |-> IF withProof THEN "zk" ELSE "aal2"]
  <2>1. Earned(h, <<j.who, j.aal>>)
    BY <1>5, ConstantsAssumption DEF ApproveBegin, Earned, Aals
  <2>2. job' = [job EXCEPT ![w] = j] /\ UNCHANGED <<core, late, waitPage>>
    BY <1>5 DEF ApproveBegin, core
  <2> QED
    BY <1>0, <2>1, <2>2 DEF JobMove, Signing
<1>6. ASSUME NEW w \in Workers, ApproveRead(w) PROVE JobMove(w)
  <2>1. CASE Goto(w, "approve_save")
    BY <1>0, <1>6, <2>1 DEF ApproveRead, Goto, JobMove, Signing, core, Backed, JobBacked, Job
  <2>2. CASE Finish(w)
    BY <1>0, <1>6, <2>2 DEF ApproveRead, Finish, Idle, JobMove, Signing, core
  <2> QED
    BY <1>6, <2>1, <2>2 DEF ApproveRead
<1>7. ASSUME NEW w \in Workers, ApproveEnd(w) \/ Deliver(w) PROVE JobMove(w)
  <2>1. Finish(w) /\ UNCHANGED <<core, late>>
    BY <1>7 DEF ApproveEnd, Deliver, core
  <2>2. UNCHANGED waitPage \/ Reacts(job[w].h, job[w].pc)
    BY <1>7 DEF ApproveEnd, Deliver, Reacts
  <2>3. job'[w] = Idle /\ \A v \in Workers : v # w => job'[v] = job[v]
    BY <1>0, <2>1 DEF Finish
  <2> QED
    BY <2>1, <2>2, <2>3 DEF JobMove, Idle, Signing
<1>7a. ASSUME NEW w \in Workers, LoseReply(w) PROVE JobMove(w)
  BY <1>0, <1>7a DEF LoseReply, Replies, Goto, JobMove, Signing, core, Job
<1>8. ASSUME NEW w \in Workers, NEW h \in Handoffs, DenyRead(w, h) PROVE JobMove(w)
  BY <1>0, <1>8 DEF DenyRead, Idle, JobMove, Signing, core
<1>9. ASSUME NEW w \in Workers, NEW h \in Handoffs, PollRead(w, h) PROVE JobMove(w)
  <2> DEFINE pc == IF Readable(h, "approved") THEN "consume_read" ELSE StatusReply(h)
             j == [Idle EXCEPT !.h = h, !.pc = pc]
  <2>1. job' = [job EXCEPT ![w] = j] /\ UNCHANGED <<core, late, waitPage>>
    BY <1>9 DEF PollRead, core
  <2>2. /\ pc \in {"consume_read", "retry", "expired", "unborn", "pending", "denied", "consumed"}
        /\ pc = "expired" => h \in late
        /\ pc \in {"denied", "consumed"} => rec[h].status = pc
    BY <1>0 DEF Readable, StatusReply, Record
  <2>3. j.h = h /\ j.pc = pc
    BY DEF Idle
  <2> HIDE DEF pc, j
  <2> QED
    BY <1>0, <2>1, <2>2, <2>3 DEF JobMove, Signing
<1>10. ASSUME NEW w \in Workers, ConsumeRead(w) PROVE JobMove(w)
  <2>1. CASE ~Readable(job[w].h, "approved")
    BY <1>0, <1>10, <2>1 DEF ConsumeRead, Goto, JobMove, Signing, core, Job
  <2>2. CASE Readable(job[w].h, "approved")
    BY <1>0, <1>10, <2>2 DEF ConsumeRead, Readable, JobMove, Signing, core, Job
  <2> QED
    BY <2>1, <2>2
<1>11. ASSUME NEW w \in Workers, ExtendRead(w) \/ ExtendSave(w) PROVE JobMove(w)
  <2>1. PICK pc \in {"extend_save", "create_session"} : Goto(w, pc)
    BY <1>11 DEF ExtendRead, ExtendSave
  <2>2. job[w].pc \in Signing /\ UNCHANGED <<core, late, waitPage>>
    BY <1>11 DEF ExtendRead, ExtendSave, core, Signing
  <2> QED
    BY <1>0, <2>1, <2>2 DEF Goto, JobMove, Signing, Job
<1> QED
  BY <1>1, <1>2, <1>3, <1>4, <1>5, <1>6, <1>7, <1>7a, <1>8, <1>9,
     <1>10, <1>11
     DEF Next, Handler

-----------------------------------------------------------------------------
(* What the steps that do change a record leave behind.                     *)

LEMMA SaveEffect ==
  ASSUME TypeOK, NEW h \in Handoffs, NEW seen,
         NEW st, NEW who, NEW aal, Save(h, seen, st, who, aal)
  PROVE  /\ rec'[h].status = st /\ rec'[h].who = who /\ rec'[h].aal = aal
         /\ \A k \in Handoffs : k # h => rec'[k] = rec[k] /\ (Intact(k)' <=> Intact(k))
         /\ Intact(h)' => Intact(h) /\ rec[h].status = seen
BY DEF TypeOK, Record, Save, Intact

LEMMA ApproveSaveEffect ==
  ASSUME TypeOK, NEW w \in Workers, ApproveSave(w)
  PROVE  LET h == job[w].h  g == <<job[w].who, job[w].aal>> IN
         /\ h \in Handoffs
         /\ Save(h, "pending", "approved", job[w].who, job[w].aal)
         /\ verdicts' = [verdicts EXCEPT ![h] = @ \cup {g}]
         /\ UNCHANGED <<made, granted, waitPage, late>>
         /\ \A v \in Workers : v # w => job'[v] = job[v]
         /\ job'[w].pc = "approve_end"
BY DEF TypeOK, JobsOK, ApproveSave, Goto, Job

LEMMA DenySaveEffect ==
  ASSUME TypeOK, NEW w \in Workers, DenySave(w)
  PROVE  LET h == job[w].h IN
         /\ h \in Handoffs
         /\ Save(h, "pending", "denied", None, NoAal)
         /\ verdicts' = [verdicts EXCEPT ![h] = @ \cup {Denial}]
         /\ UNCHANGED <<made, granted, waitPage, late>>
         /\ \A v \in Workers : v # w => job'[v] = job[v]
         /\ job'[w].pc = "idle"
BY DEF TypeOK, JobsOK, DenySave, Finish, Idle

LEMMA ConsumeSaveEffect ==
  ASSUME TypeOK, NEW w \in Workers, ConsumeSave(w)
  PROVE  LET h == job[w].h  j == job'[w] IN
         /\ h \in Handoffs
         /\ Save(h, "approved", "consumed", job[w].who, job[w].aal)
         /\ UNCHANGED <<made, granted, verdicts, waitPage, late>>
         /\ \A v \in Workers : v # w => job'[v] = job[v]
         /\ j.pc \in {"extend_read", "create_session"}
         /\ j.h = h /\ j.who = job[w].who /\ j.aal = job[w].aal
BY DEF TypeOK, JobsOK, ConsumeSave, Goto, Job

LEMMA CreateSessionEffect ==
  ASSUME TypeOK, NEW w \in Workers, CreateSession(w)
  PROVE  LET h == job[w].h  g == <<job[w].who, job[w].aal>> IN
         /\ h \in Handoffs
         /\ UNCHANGED <<rec, clobbered, verdicts, waitPage, late>>
         /\ made' = [made EXCEPT ![h] = @ + 1]
         /\ granted' = granted \cup {[h |-> h, grant |-> g]}
         /\ \A v \in Workers : v # w => job'[v] = job[v]
         /\ job'[w].pc = "approved" /\ job'[w].h = h
BY DEF TypeOK, JobsOK, CreateSession, Goto, Job

LEMMA StartEffect ==
  ASSUME TypeOK, NEW h \in Handoffs, NEW r \in Requests \cup {None}, StartHandoff(h, r)
  PROVE  /\ rec[h].status = "unborn"
         /\ rec'[h].status = "pending" /\ rec'[h].who = rec[h].who /\ rec'[h].aal = rec[h].aal
         /\ \A k \in Handoffs : k # h => rec'[k] = rec[k]
         /\ UNCHANGED <<made, granted, verdicts, clobbered, job, late>>
         /\ page' = [page EXCEPT ![h] = "waiting"] /\ pollDone' = pollDone \ {h}
BY DEF TypeOK, Record, StartHandoff, history

LEMMA CrashEffect ==
  ASSUME TypeOK, Crash
  PROVE  /\ UNCHANGED <<core, waitPage, late>>
         /\ \A w \in Workers : job'[w].pc \in {"idle", "retry"}
<1>1. \A w \in Workers : job'[w] = CrashedJob(w)
  BY DEF Crash
<1>2. \A w \in Workers : CrashedJob(w).pc \in {"idle", "retry"}
  BY CrashJob DEF TypeOK
<1> QED
  BY <1>1, <1>2 DEF Crash, core, history, waitPage

-----------------------------------------------------------------------------
(* Every session and every job on its way to one carries an earned approval.*)

\* A job that does not change stays backed, for verdicts are never taken back.
LEMMA BackedJobs ==
  ASSUME TypeOK, Backed, NEW w \in Workers, job'[w] = job[w],
         \A h \in Handoffs : verdicts[h] \subseteq verdicts'[h]
  PROVE  JobBacked(w)'
BY DEF Backed, JobBacked, TypeOK, JobsOK, Signing

LEMMA BackedStep == TypeOK /\ Backed /\ [Next]_vars => Backed'
<1> SUFFICES ASSUME TypeOK, Backed, [Next]_vars PROVE Backed'
  OBVIOUS
<1>0. /\ \A w \in Workers : JobBacked(w)
      /\ \A h \in Handoffs : RecordBacked(h)
      /\ verdicts \in [Handoffs -> SUBSET Verdicts]
      /\ \A w \in Workers : job[w].pc # "idle" => job[w].h \in Handoffs
  BY DEF Backed, TypeOK, JobsOK
<1>1. CASE Quiet
  BY <1>0, <1>1 DEF Quiet, core, Backed, JobBacked, RecordBacked
<1>2. ASSUME NEW w \in Workers, JobMove(w) PROVE Backed'
  <2>1. \A h \in Handoffs : RecordBacked(h)'
    BY <1>0, <1>2 DEF JobMove, core, RecordBacked
  <2>2. \A v \in Workers : v # w => JobBacked(v)'
    BY <1>2, BackedJobs DEF JobMove, core
  <2>3. JobBacked(w)'
    BY <1>0, <1>2 DEF JobMove, core, JobBacked, RecordBacked, Signing
  <2> QED
    BY <2>1, <2>2, <2>3 DEF Backed
<1>3. CASE Crash
  BY <1>0, <1>3, CrashEffect DEF core, Backed, JobBacked, RecordBacked, Idle, Signing
<1>4. ASSUME NEW h \in Handoffs, NEW r \in Requests \cup {None}, StartHandoff(h, r)
      PROVE  Backed'
  <2>1. \A w \in Workers : JobBacked(w)'
    BY <1>4, StartEffect, BackedJobs
  <2>2. \A k \in Handoffs : RecordBacked(k)'
    BY <1>0, <1>4, StartEffect DEF RecordBacked
  <2> QED
    BY <2>1, <2>2 DEF Backed
<1>5. ASSUME NEW w \in Workers, ApproveSave(w) PROVE Backed'
  <2> DEFINE h == job[w].h
             g == <<job[w].who, job[w].aal>>
  <2>1. Earned(h, g) /\ g # Denial /\ h \in Handoffs
    BY <1>0, <1>5, ConstantsAssumption
       DEF ApproveSave, JobBacked, Earned, Denial
  <2>2. /\ verdicts'[h] = verdicts[h] \cup {g}
        /\ \A k \in Handoffs : k # h => verdicts'[k] = verdicts[k]
    BY <1>0, <1>5, <2>1, ApproveSaveEffect
  <2>3. \A v \in Workers : v # w => JobBacked(v)'
    BY <1>5, <2>2, ApproveSaveEffect, BackedJobs
  <2>4. JobBacked(w)'
    BY <1>5, ApproveSaveEffect DEF JobBacked, Signing
  <2>5. Save(h, "pending", "approved", job[w].who, job[w].aal)
    BY <1>5, ApproveSaveEffect
  <2>6. /\ rec'[h].status = "approved" /\ <<rec'[h].who, rec'[h].aal>> = g
        /\ \A k \in Handoffs : k # h => rec'[k] = rec[k]
    BY <2>1, <2>5, SaveEffect
  <2>7. \A k \in Handoffs : RecordBacked(k)'
    BY <1>0, <2>1, <2>2, <2>6 DEF RecordBacked, Earned
  <2> QED
    BY <2>3, <2>4, <2>7 DEF Backed
<1>6. ASSUME NEW w \in Workers, DenySave(w) PROVE Backed'
  <2> DEFINE h == job[w].h
  <2>1. h \in Handoffs
    BY <1>6, DenySaveEffect
  <2>2. /\ verdicts'[h] = verdicts[h] \cup {Denial}
        /\ \A k \in Handoffs : k # h => verdicts'[k] = verdicts[k]
    BY <1>0, <1>6, <2>1, DenySaveEffect
  <2>3. \A v \in Workers : v # w => JobBacked(v)'
    BY <1>6, <2>2, DenySaveEffect, BackedJobs
  <2>4. JobBacked(w)'
    BY <1>6, DenySaveEffect DEF JobBacked, Signing
  <2>5. Save(h, "pending", "denied", None, NoAal)
    BY <1>6, DenySaveEffect
  <2>6. /\ rec'[h].status = "denied"
        /\ \A k \in Handoffs : k # h => rec'[k] = rec[k]
    BY <2>1, <2>5, SaveEffect
  <2>7. \A k \in Handoffs : RecordBacked(k)'
    BY <1>0, <2>1, <2>2, <2>6 DEF RecordBacked, Earned
  <2> QED
    BY <2>3, <2>4, <2>7 DEF Backed
<1>7. ASSUME NEW w \in Workers, ConsumeSave(w) PROVE Backed'
  <2> DEFINE h == job[w].h
             g == <<job[w].who, job[w].aal>>
  <2>1. g \in verdicts[h] \ {Denial}
    BY <1>0, <1>7 DEF ConsumeSave, JobBacked
  <2>2. \A v \in Workers : v # w => JobBacked(v)'
    BY <1>7, ConsumeSaveEffect, BackedJobs
  <2>3. JobBacked(w)'
    BY <1>7, <2>1, ConsumeSaveEffect DEF JobBacked, Signing
  <2>4. Save(h, "approved", "consumed", job[w].who, job[w].aal) /\ h \in Handoffs
    BY <1>7, ConsumeSaveEffect
  <2>5. /\ rec'[h].status = "consumed" /\ <<rec'[h].who, rec'[h].aal>> = g
        /\ \A k \in Handoffs : k # h => rec'[k] = rec[k]
    BY <2>4, SaveEffect
  <2>6. verdicts' = verdicts
    BY <1>7, ConsumeSaveEffect
  <2>7. \A k \in Handoffs : RecordBacked(k)'
    BY <1>0, <2>1, <2>5, <2>6 DEF RecordBacked, Earned
  <2> QED
    BY <2>2, <2>3, <2>7 DEF Backed
<1>8. ASSUME NEW w \in Workers, CreateSession(w) PROVE Backed'
  <2>1. \A v \in Workers : v # w => JobBacked(v)'
    BY <1>8, CreateSessionEffect, BackedJobs
  <2>2. JobBacked(w)'
    BY <1>8, CreateSessionEffect DEF JobBacked, Signing
  <2>3. \A k \in Handoffs : RecordBacked(k)'
    BY <1>0, <1>8, CreateSessionEffect DEF RecordBacked
  <2> QED
    BY <2>1, <2>2, <2>3 DEF Backed
<1> QED
  BY <1>1, <1>2, <1>3, <1>4, <1>5, <1>6, <1>7, <1>8, StepShapes

\* The verdicts and sessions of a handoff only accumulate, and no deadline is
\* taken back.
LEMMA HistoryGrows ==
  ASSUME TypeOK, Backed, [Next]_vars
  PROVE  /\ late \subseteq late'
         /\ \A h \in Handoffs : /\ verdicts[h] \subseteq verdicts'[h]
                               /\ made'[h] \in Nat /\ made'[h] >= made[h]
<1>0. /\ verdicts \in [Handoffs -> SUBSET Verdicts] /\ made \in [Handoffs -> Nat]
  BY DEF TypeOK
<1>1. late \subseteq late'
  BY StepShapes, StartEffect, CrashEffect, ApproveSaveEffect, DenySaveEffect,
     ConsumeSaveEffect, CreateSessionEffect DEF Quiet, JobMove
<1>2. ASSUME verdicts' = verdicts, made' = made
      PROVE  \A h \in Handoffs : /\ verdicts[h] \subseteq verdicts'[h]
                                /\ made'[h] \in Nat /\ made'[h] >= made[h]
  BY <1>0, <1>2
<1>3. CASE Quiet \/ (\E w \in Workers : JobMove(w)) \/ Crash
  <2>1. verdicts' = verdicts /\ made' = made
    BY <1>3, CrashEffect DEF Quiet, JobMove, core
  <2> QED
    BY <1>1, <1>2, <2>1
<1>4. CASE \E h \in Handoffs, r \in Requests \cup {None} : StartHandoff(h, r)
  BY <1>1, <1>2, <1>4, StartEffect
<1>5. ASSUME NEW w \in Workers, ApproveSave(w) \/ DenySave(w) \/ ConsumeSave(w)
      PROVE  \A h \in Handoffs : /\ verdicts[h] \subseteq verdicts'[h]
                                /\ made'[h] \in Nat /\ made'[h] >= made[h]
  <2>1. job[w].h \in Handoffs /\ made' = made
    BY <1>5, ApproveSaveEffect, DenySaveEffect, ConsumeSaveEffect
  <2>2. \/ verdicts' = verdicts
        \/ \E g : verdicts' = [verdicts EXCEPT ![job[w].h] = @ \cup {g}]
    BY <1>5, ApproveSaveEffect, DenySaveEffect, ConsumeSaveEffect
  <2> QED
    BY <1>0, <2>1, <2>2
<1>6. ASSUME NEW w \in Workers, CreateSession(w)
      PROVE  \A h \in Handoffs : /\ verdicts[h] \subseteq verdicts'[h]
                                /\ made'[h] \in Nat /\ made'[h] >= made[h]
  BY <1>0, <1>6, CreateSessionEffect
<1> QED
  BY <1>1, <1>3, <1>4, <1>5, <1>6, StepShapes

-----------------------------------------------------------------------------
(* An intact record is the whole history of its handoff, and one poll at    *)
(* most stands between consuming it and creating the session.               *)

LEMMA IntactStep ==
  TypeOK /\ Backed /\ RecordIsHistory /\ OneSigner /\ [Next]_vars
    => RecordIsHistory' /\ OneSigner'
<1> SUFFICES ASSUME TypeOK, Backed, RecordIsHistory, OneSigner, [Next]_vars
             PROVE  RecordIsHistory' /\ OneSigner'
  OBVIOUS
<1> USE DEF Intact
<1>0. /\ \A h \in Handoffs : Intact(h) => HistoryOf(h)
      /\ \A w \in Workers : job[w].h \in Handoffs /\ Intact(job[w].h) => Consistent(w)
      /\ \A w \in Workers : job[w].pc # "idle" => job[w].h \in Handoffs
      /\ verdicts \in [Handoffs -> SUBSET Verdicts]
      /\ made \in [Handoffs -> Nat]
      /\ rec \in [Handoffs -> Record]
  BY DEF RecordIsHistory, OneSigner, TypeOK, JobsOK
<1>1. CASE Quiet
  BY <1>0, <1>1 DEF Quiet, core, RecordIsHistory, OneSigner, HistoryOf, Consistent, Intact
<1>2. ASSUME NEW w \in Workers, JobMove(w) PROVE RecordIsHistory' /\ OneSigner'
  <2>1. UNCHANGED core /\ \A v \in Workers : v # w => job'[v] = job[v]
    BY <1>2 DEF JobMove
  <2>2. RecordIsHistory'
    BY <1>0, <2>1 DEF core, RecordIsHistory, HistoryOf, Intact
  \* A signing job was already signing for the same handoff.
  <2>3. \A v \in Workers : job'[v].pc \in Signing =>
          /\ job[v].pc \in Signing /\ job'[v].h = job[v].h
          /\ job'[v].who = job[v].who /\ job'[v].aal = job[v].aal
    BY <1>2 DEF JobMove
  <2>4. \A v \in Workers : job'[v].pc = "consume_save" =>
          \/ job'[v] = job[v]
          \/ /\ rec[job'[v].h].status = "approved"
             /\ job'[v].who = rec[job'[v].h].who /\ job'[v].aal = rec[job'[v].h].aal
    BY <1>2 DEF JobMove
  <2>5. ASSUME NEW v \in Workers, job'[v].h \in Handoffs, Intact(job[v].h)'
        PROVE  Consistent(v)'
    <3>1. job'[v].h \notin clobbered
      BY <2>1, <2>5 DEF core, Intact
    <3>2. CASE job'[v].pc \in Signing
      BY <1>0, <2>1, <2>3, <2>5, <3>1, <3>2 DEF Consistent, core
    <3>3. CASE job'[v].pc = "consume_save"
      BY <1>0, <2>1, <2>4, <2>5, <3>1, <3>3 DEF Consistent, core, Signing
    <3> QED
      BY <3>2, <3>3 DEF Consistent
  <2> QED
    BY <2>2, <2>5 DEF OneSigner
<1>3. CASE Crash
  BY <1>0, <1>3, CrashEffect
     DEF core, RecordIsHistory, OneSigner, HistoryOf, Consistent, Intact, Idle, Signing
<1>4. ASSUME NEW h \in Handoffs, NEW r \in Requests \cup {None}, StartHandoff(h, r)
      PROVE  RecordIsHistory' /\ OneSigner'
  <2>1. /\ rec[h].status = "unborn"
        /\ rec'[h].status = "pending" /\ rec'[h].who = rec[h].who /\ rec'[h].aal = rec[h].aal
        /\ \A k \in Handoffs : k # h => rec'[k] = rec[k]
        /\ UNCHANGED <<made, verdicts, clobbered, job>>
    BY <1>4, StartEffect
  <2>2. RecordIsHistory'
    BY <1>0, <2>1 DEF RecordIsHistory, HistoryOf, Intact
  <2>3. ASSUME NEW v \in Workers, job'[v].h \in Handoffs, Intact(job[v].h)'
        PROVE  Consistent(v)'
    <3>1. Consistent(v) /\ job'[v] = job[v]
      BY <1>0, <2>1, <2>3 DEF Intact
    <3> QED
      BY <2>1, <2>3, <3>1 DEF Consistent
  <2> QED
    BY <2>2, <2>3 DEF OneSigner
<1>5. ASSUME NEW w \in Workers, NEW st \in {"approved", "denied"},
             NEW who, NEW aal, NEW g,
             job[w].h \in Handoffs,
             Save(job[w].h, "pending", st, who, aal),
             <<who, aal>> = g, st = "denied" => g = Denial,
             verdicts' = [verdicts EXCEPT ![job[w].h] = @ \cup {g}],
             made' = made,
             \A v \in Workers : v # w => job'[v] = job[v],
             job'[w].pc \in {"approve_end", "idle"}
      PROVE  RecordIsHistory' /\ OneSigner'
  <2> PICK h \in Handoffs : h = job[w].h
    BY <1>5
  <2>1. /\ rec'[h].status = st /\ rec'[h].who = who /\ rec'[h].aal = aal
        /\ \A k \in Handoffs : k # h => rec'[k] = rec[k] /\ (Intact(k)' <=> Intact(k))
        /\ Intact(h)' => Intact(h) /\ rec[h].status = "pending"
    BY <1>5, SaveEffect
  <2>2. /\ verdicts'[h] = verdicts[h] \cup {g}
        /\ \A k \in Handoffs : k # h => verdicts'[k] = verdicts[k]
    BY <1>0, <1>5
  <2>3. Intact(h)' => HistoryOf(h)'
    BY <1>0, <1>5, <2>1, <2>2 DEF HistoryOf
  <2>4. \A k \in Handoffs : k # h /\ Intact(k)' => HistoryOf(k)'
    BY <1>0, <1>5, <2>1, <2>2 DEF HistoryOf
  <2>5. ASSUME NEW v \in Workers, job'[v].h \in Handoffs, Intact(job[v].h)',
               job'[v].pc \in {"consume_save"} \cup Signing
        PROVE  Consistent(v)'
    <3>1. v # w /\ job'[v] = job[v]
      BY <1>5, <2>5 DEF Signing
    <3>2. Intact(job[v].h) /\ Consistent(v)
      BY <1>0, <2>1, <2>5, <3>1
    <3>3. job[v].h # h
      BY <2>1, <2>5, <3>1, <3>2 DEF Consistent
    <3> QED
      BY <1>5, <2>1, <2>5, <3>1, <3>2, <3>3 DEF Consistent, Signing
  <2>6. \A v \in Workers : job'[v].pc \notin {"consume_save"} \cup Signing => Consistent(v)'
    BY DEF Consistent
  <2> QED
    BY <2>3, <2>4, <2>5, <2>6 DEF RecordIsHistory, OneSigner
<1>6. ASSUME NEW w \in Workers, ApproveSave(w) PROVE RecordIsHistory' /\ OneSigner'
  <2> DEFINE g == <<job[w].who, job[w].aal>>
  <2>1. /\ job[w].h \in Handoffs
        /\ Save(job[w].h, "pending", "approved", job[w].who, job[w].aal)
        /\ verdicts' = [verdicts EXCEPT ![job[w].h] = @ \cup {g}]
        /\ made' = made
        /\ \A v \in Workers : v # w => job'[v] = job[v]
        /\ job'[w].pc \in {"approve_end", "idle"}
    BY <1>6, ApproveSaveEffect
  <2> HIDE DEF g
  <2>2. <<job[w].who, job[w].aal>> = g
    BY DEF g
  <2> QED
    BY <1>5, <2>1, <2>2
<1>7. ASSUME NEW w \in Workers, DenySave(w) PROVE RecordIsHistory' /\ OneSigner'
  BY <1>5, <1>7, DenySaveEffect DEF Denial
<1>8. ASSUME NEW w \in Workers, ConsumeSave(w) PROVE RecordIsHistory' /\ OneSigner'
  <2> PICK h \in Handoffs : h = job[w].h
    BY <1>8, ConsumeSaveEffect
  <2>0. /\ job[w].h = h
        /\ Save(h, "approved", "consumed", job[w].who, job[w].aal)
        /\ made' = made /\ verdicts' = verdicts
        /\ \A v \in Workers : v # w => job'[v] = job[v]
        /\ job'[w].h = h /\ job'[w].who = job[w].who /\ job'[w].aal = job[w].aal
        /\ job'[w].pc \in Signing
    BY <1>8, ConsumeSaveEffect DEF Signing
  <2>1. /\ rec'[h].status = "consumed" /\ rec'[h].who = job[w].who /\ rec'[h].aal = job[w].aal
        /\ \A k \in Handoffs : k # h => rec'[k] = rec[k] /\ (Intact(k)' <=> Intact(k))
        /\ Intact(h)' => Intact(h) /\ rec[h].status = "approved"
    BY <2>0, SaveEffect
  \* On an intact handoff the job carries what the record said, and the record
  \* still said approved: nobody is signing for it yet.
  <2>2. Intact(h)' => /\ job[w].who = rec[h].who /\ job[w].aal = rec[h].aal
                      /\ \A v \in Workers : job[v].pc \in Signing => job[v].h # h
    BY <1>0, <1>8, <2>0, <2>1 DEF Consistent, ConsumeSave
  <2>3. Intact(h)' => HistoryOf(h)'
    BY <1>0, <2>0, <2>1, <2>2 DEF HistoryOf
  <2>4. \A k \in Handoffs : k # h /\ Intact(k)' => HistoryOf(k)'
    BY <1>0, <2>0, <2>1 DEF HistoryOf
  <2>5. Intact(h)' => Consistent(w)'
    BY <1>0, <2>0, <2>1, <2>2 DEF Consistent, HistoryOf
  <2>6. ASSUME NEW v \in Workers, v # w, job'[v].h \in Handoffs, Intact(job[v].h)'
        PROVE  Consistent(v)'
    <3>1. job'[v] = job[v] /\ Intact(job[v].h)
      BY <2>0, <2>1, <2>6
    <3>2. Consistent(v)
      BY <1>0, <2>6, <3>1
    <3>3. CASE job[v].h = h
      BY <2>0, <2>1, <2>2, <2>6, <3>1, <3>2, <3>3 DEF Consistent
    <3>4. CASE job[v].h # h
      BY <2>0, <2>1, <2>6, <3>1, <3>2, <3>4 DEF Consistent
    <3> QED
      BY <3>3, <3>4
  <2> QED
    BY <2>0, <2>3, <2>4, <2>5, <2>6 DEF RecordIsHistory, OneSigner
<1>9. ASSUME NEW w \in Workers, CreateSession(w) PROVE RecordIsHistory' /\ OneSigner'
  <2> PICK h \in Handoffs : h = job[w].h
    BY <1>9, CreateSessionEffect
  <2>0. /\ job[w].h = h
        /\ UNCHANGED <<rec, clobbered, verdicts>>
        /\ made'[h] = made[h] + 1
        /\ \A k \in Handoffs : k # h => made'[k] = made[k]
        /\ \A v \in Workers : v # w => job'[v] = job[v]
        /\ job'[w].pc = "approved" /\ job[w].pc \in Signing
    BY <1>0, <1>9, CreateSessionEffect DEF CreateSession, Signing
  <2>1. Intact(h) => /\ rec[h].status = "consumed" /\ made[h] = 0
                     /\ \A v \in Workers : job[v].pc \in Signing /\ job[v].h = h => v = w
    BY <1>0, <2>0 DEF Consistent
  <2>2. \A k \in Handoffs : Intact(k)' <=> Intact(k)
    BY <2>0 DEF Intact
  <2>3. RecordIsHistory'
    BY <1>0, <2>0, <2>1, <2>2 DEF RecordIsHistory, HistoryOf
  <2>4. ASSUME NEW v \in Workers, job'[v].h \in Handoffs, Intact(job[v].h)',
               job'[v].pc \in {"consume_save"} \cup Signing
        PROVE  Consistent(v)'
    <3>1. v # w /\ job'[v] = job[v] /\ Intact(job[v].h)
      BY <2>0, <2>2, <2>4 DEF Signing
    <3>2. Consistent(v)
      BY <1>0, <2>4, <3>1
    <3>3. job[v].pc \in Signing => job[v].h # h
      BY <2>1, <3>1
    <3> QED
      BY <2>0, <2>4, <3>1, <3>2, <3>3 DEF Consistent, Signing
  <2>5. \A v \in Workers : job'[v].pc \notin {"consume_save"} \cup Signing => Consistent(v)'
    BY DEF Consistent
  <2> QED
    BY <2>3, <2>4, <2>5 DEF OneSigner
<1> QED
  BY <1>1, <1>2, <1>3, <1>4, <1>6, <1>7, <1>8, <1>9, StepShapes

-----------------------------------------------------------------------------
(* What the page is told, and the sessions it gets.                         *)

LEMMA EarnedStep ==
  TypeOK /\ Backed /\ EarnedLogin /\ [Next]_vars => EarnedLogin'
<1> SUFFICES ASSUME TypeOK, Backed, EarnedLogin, [Next]_vars PROVE EarnedLogin'
  OBVIOUS
<1>1. \A g \in granted : g.h \in Handoffs /\ g.grant \in verdicts'[g.h]
  BY HistoryGrows DEF EarnedLogin, TypeOK
<1>2. ASSUME granted' = granted PROVE EarnedLogin'
  BY <1>1, <1>2 DEF EarnedLogin
<1>3. ASSUME NEW w \in Workers, CreateSession(w) PROVE EarnedLogin'
  <2> PICK h \in Handoffs : h = job[w].h
    BY <1>3, CreateSessionEffect
  <2> PICK g : g = <<job[w].who, job[w].aal>>
    OBVIOUS
  <2>1. granted' = granted \cup {[h |-> h, grant |-> g]} /\ verdicts' = verdicts
    BY <1>3, CreateSessionEffect
  <2>2. g \in verdicts[h] \ {Denial}
    BY <1>3 DEF CreateSession, Backed, JobBacked, Signing
  <2>3. Earned(h, g)
    BY <2>2 DEF Backed, RecordBacked
  <2> QED
    BY <2>1, <2>2, <2>3 DEF EarnedLogin
<1>4. \/ granted' = granted
      \/ \E w \in Workers : CreateSession(w)
  BY StepShapes, CrashEffect, StartEffect, ApproveSaveEffect, DenySaveEffect,
     ConsumeSaveEffect DEF Quiet, JobMove, core
<1> QED
  BY <1>2, <1>3, <1>4

\* What has happened stays so.
LEMMA HappenedStays ==
  ASSUME TypeOK, Backed, [Next]_vars, NEW h \in Handoffs, NEW outcome, Happened(h, outcome)
  PROVE  Happened(h, outcome)'
BY HistoryGrows DEF Happened, TypeOK

LEMMA RepliesStep ==
  TypeOK /\ Backed /\ RepliesTrue /\ [Next]_vars => RepliesTrue'
<1> SUFFICES ASSUME TypeOK, Backed, RepliesTrue, [Next]_vars PROVE RepliesTrue'
  OBVIOUS
<1> DEFINE True(w) == Happened(job[w].h, job[w].pc)
<1>0. /\ \A w \in Workers : True(w)
      /\ \A w \in Workers : job[w].pc # "idle" => job[w].h \in Handoffs
      /\ made \in [Handoffs -> Nat] /\ verdicts \in [Handoffs -> SUBSET Verdicts]
      /\ job \in [Workers -> Job]
  BY DEF RepliesTrue, TypeOK, JobsOK
<1>3. ASSUME NEW w \in Workers, job'[w] = job[w] PROVE True(w)'
  <2> PICK h, reply : h = job[w].h /\ reply = job[w].pc
    OBVIOUS
  <2>1. CASE h \in Handoffs
    <3>1. Happened(h, reply)'
      BY <1>0, <2>1, HappenedStays
    <3> QED
      BY <1>3, <3>1
  <2>2. CASE h \notin Handoffs
    BY <1>0, <1>3, <2>2 DEF Happened
  <2> QED
    BY <2>1, <2>2
<1>4. ASSUME NEW w \in Workers, job'[w].pc \notin Final \cup {"redirected"}
      PROVE  True(w)'
  BY <1>4 DEF Happened, Final
<1>5. CASE Quiet \/ \E h \in Handoffs, r \in Requests \cup {None} : StartHandoff(h, r)
  BY <1>3, <1>5, StartEffect DEF Quiet, RepliesTrue
<1>6. ASSUME NEW w \in Workers, JobMove(w) PROVE RepliesTrue'
  <2>1. \A v \in Workers : v # w => True(v)'
    BY <1>3, <1>6 DEF JobMove
  <2>2. True(w)'
    BY <1>0, <1>6 DEF JobMove, core, Backed, RecordBacked, Happened
  <2> QED
    BY <2>1, <2>2 DEF RepliesTrue
<1>7. CASE Crash
  BY <1>7, <1>4, CrashEffect DEF Final, RepliesTrue
<1>8. ASSUME NEW w \in Workers, ApproveSave(w) \/ DenySave(w) \/ ConsumeSave(w)
      PROVE  RepliesTrue'
  <2>1. \A v \in Workers : v # w => job'[v] = job[v]
    BY <1>8, ApproveSaveEffect, DenySaveEffect, ConsumeSaveEffect
  <2>2. job'[w].pc \in {"approve_end", "idle", "extend_read", "create_session"}
    BY <1>8, ApproveSaveEffect, DenySaveEffect, ConsumeSaveEffect
  <2> QED
    BY <1>3, <1>4, <2>1, <2>2 DEF RepliesTrue, Final
<1>9. ASSUME NEW w \in Workers, CreateSession(w) PROVE RepliesTrue'
  <2>1. /\ \A v \in Workers : v # w => job'[v] = job[v]
        /\ job'[w].pc = "approved" /\ job'[w].h = job[w].h /\ job[w].h \in Handoffs
        /\ made' = [made EXCEPT ![job[w].h] = @ + 1]
    BY <1>9, CreateSessionEffect
  <2>2. True(w)'
    BY <1>0, <2>1 DEF Happened
  <2> QED
    BY <1>3, <2>1, <2>2 DEF RepliesTrue
<1> QED
  BY <1>5, <1>6, <1>7, <1>8, <1>9, StepShapes

LEMMA PageStep ==
  TypeOK /\ Backed /\ RepliesTrue /\ PageTellsTruth /\ [Next]_vars => PageTellsTruth'
<1> SUFFICES ASSUME TypeOK, Backed, RepliesTrue, PageTellsTruth, [Next]_vars
             PROVE  PageTellsTruth'
  OBVIOUS
<1> DEFINE Settled(h) == \E outcome \in Outcomes : Happened(h, outcome)
           True(h) ==
             /\ Happened(h, page[h])
             /\ page[h] \in Outcomes => h \in pollDone
             /\ h \in pollDone => page[h] = "left" \/ Settled(h)
<1>0. /\ page \in [Handoffs -> Pages]
      /\ \A w \in Workers : job[w].pc # "idle" => job[w].h \in Handoffs
      /\ \A h \in Handoffs : True(h)
  BY DEF TypeOK, JobsOK, PageTellsTruth
<1>1. \A h \in Handoffs : Settled(h) => Settled(h)'
  BY HappenedStays
<1>2. ASSUME NEW h \in Handoffs, page'[h] = page[h], h \in pollDone' <=> h \in pollDone
      PROVE  True(h)'
  <2> PICK text : text = page[h]
    OBVIOUS
  <2>1. Happened(h, text)'
    BY <1>0, HappenedStays
  <2>2. Happened(h, page[h])'
    BY <1>2, <2>1
  <2> QED
    BY <1>0, <1>1, <1>2, <2>2
<1>3. ASSUME NEW h \in Handoffs, page'[h] = "left", h \in pollDone'
      PROVE  True(h)'
  BY <1>3 DEF Happened, Outcomes
<1>4. ASSUME NEW h \in Handoffs, page'[h] = "waiting", h \notin pollDone'
      PROVE  True(h)'
  BY <1>4 DEF Happened, Outcomes
<1>5. ASSUME NEW h \in Handoffs, NEW reply \in Replies, Reacts(h, reply), Happened(h, reply)
      PROVE  True(h)'
  <2>1. page'[h] = AfterReply(page[h], reply)
    BY <1>0, <1>5 DEF Reacts
  <2>2. CASE page[h] \in {"redirected", "left"}
    <3>1. page'[h] = page[h]
      BY <2>1, <2>2 DEF AfterReply
    <3>2. reply \in Final => Settled(h)
      BY <1>5 DEF Final, Outcomes, Happened
    <3>3. pollDone \subseteq pollDone' /\ (h \in pollDone' => h \in pollDone \/ reply \in Final)
      BY <1>5 DEF Reacts
    <3> PICK text : text = page[h]
      OBVIOUS
    <3>4. Happened(h, text)'
      BY <1>0, HappenedStays
    <3>5. Happened(h, page[h])'
      BY <3>1, <3>4
    <3> QED
      BY <1>0, <1>1, <3>1, <3>2, <3>3, <3>5
  <2>3. CASE page[h] \notin {"redirected", "left"} /\ reply \in Final
    <3>1. PICK outcome \in Outcomes :
            outcome = (IF reply = "approved" THEN "redirected" ELSE reply)
      BY <2>3 DEF Final, Outcomes
    <3>2. page'[h] = outcome /\ h \in pollDone'
      BY <1>5, <2>1, <2>3, <3>1 DEF AfterReply, Final, Reacts
    <3>3. Happened(h, outcome)
      BY <1>5, <3>1 DEF Happened
    <3>4. Happened(h, outcome)'
      BY <3>3, HappenedStays
    <3> QED
      BY <3>1, <3>2, <3>4
  <2>4. CASE page[h] \notin {"redirected", "left"} /\ reply \notin Final
    <3>1. page'[h] \in {"waiting", "retrying"} /\ pollDone' = pollDone
      BY <1>5, <2>1, <2>4 DEF AfterReply, Final, Replies, Reacts
    <3> QED
      BY <1>0, <1>1, <2>4, <3>1 DEF Happened, Outcomes
  <2> QED
    BY <2>2, <2>3, <2>4
<1>6. ASSUME NEW w \in Workers, JobMove(w), NEW h \in Handoffs PROVE True(h)'
  <2>1. CASE UNCHANGED waitPage
    BY <1>2, <2>1 DEF waitPage
  <2>2. CASE Reacts(job[w].h, job[w].pc)
    <3> PICK k \in Handoffs, reply \in Replies : k = job[w].h /\ reply = job[w].pc
      BY <1>0, <2>2 DEF Reacts, Replies
    <3>1. Reacts(k, reply) /\ Happened(k, reply)
      BY <2>2 DEF RepliesTrue
    <3>2. h # k => page'[h] = page[h] /\ (h \in pollDone' <=> h \in pollDone)
      BY <1>0, <3>1 DEF Reacts
    <3> QED
      BY <1>2, <1>5, <3>1, <3>2
  <2> QED
    BY <1>6, <2>1, <2>2 DEF JobMove
<1>7. ASSUME Quiet, NEW h \in Handoffs PROVE True(h)'
  BY <1>2, <1>3, <1>7 DEF Quiet
<1>8. ASSUME NEW k \in Handoffs, NEW r \in Requests \cup {None}, StartHandoff(k, r),
             NEW h \in Handoffs
      PROVE  True(h)'
  <2>1. page' = [page EXCEPT ![k] = "waiting"] /\ pollDone' = pollDone \ {k}
    BY <1>8, StartEffect
  <2>2. CASE h = k
    BY <1>0, <1>4, <2>1, <2>2
  <2>3. CASE h # k
    BY <1>0, <1>2, <2>1, <2>3
  <2> QED
    BY <2>2, <2>3
<1>9. ASSUME UNCHANGED waitPage, NEW h \in Handoffs PROVE True(h)'
  BY <1>2, <1>9 DEF waitPage
<1>10. \/ Quiet
       \/ \E w \in Workers : JobMove(w)
       \/ \E k \in Handoffs, r \in Requests \cup {None} : StartHandoff(k, r)
       \/ UNCHANGED waitPage
  BY StepShapes, CrashEffect, ApproveSaveEffect, DenySaveEffect, ConsumeSaveEffect,
     CreateSessionEffect
<1>11. \A h \in Handoffs : True(h)'
  BY <1>6, <1>7, <1>8, <1>9, <1>10
<1> QED
  BY <1>11 DEF PageTellsTruth

-----------------------------------------------------------------------------
(* The theorems.                                                            *)

LEMMA InvariantInit == Init => IInv
<1> SUFFICES ASSUME Init PROVE IInv
  OBVIOUS
<1>1. TypeOK
  BY TypeInit
<1>2. ExtendsItsRequest /\ Backed /\ OneSigner /\ RepliesTrue
  BY DEF Init, Idle, Unborn, ExtendsItsRequest, Backed, JobBacked, RecordBacked,
         OneSigner, Consistent, Signing, RepliesTrue, Happened
<1>3. RecordIsHistory /\ EarnedLogin /\ PageTellsTruth
  BY DEF Init, Unborn, Denial, RecordIsHistory, HistoryOf, EarnedLogin, PageTellsTruth,
         Happened, Outcomes
<1> QED
  BY <1>1, <1>2, <1>3 DEF IInv

LEMMA InvariantStep == IInv /\ [Next]_vars => IInv'
BY TypeStep, ExtendStep, BackedStep, IntactStep, EarnedStep, RepliesStep, PageStep DEF IInv

\* The inductive invariant holds of every behaviour.
THEOREM Inductive == Spec => []IInv
BY InvariantInit, InvariantStep, PTL DEF Spec

\* consumeApprovedHandoff is single-use as long as no update is lost: whatever
\* polls, approvals, denials, crashes and lost answers overlap.
THEOREM SingleLoginHolds == Spec => []SingleLogin
<1>1. IInv => SingleLogin
  BY DEF IInv, RecordIsHistory, HistoryOf, SingleLogin
<1> QED
  BY <1>1, Inductive, PTL

\* A handoff is decided once as long as no update is lost, and a denied one
\* never signs anybody in.
THEOREM OneVerdictHolds == Spec => []OneVerdict
<1>1. ASSUME IInv PROVE OneVerdict
  <2> SUFFICES ASSUME NEW h \in Handoffs, Intact(h)
               PROVE  /\ \A v1, v2 \in verdicts[h] : v1 = v2
                      /\ Denial \in verdicts[h] => made[h] = 0
    BY DEF OneVerdict
  <2>1. HistoryOf(h) /\ RecordBacked(h) /\ rec[h] \in Record
    BY <1>1 DEF IInv, RecordIsHistory, Backed, TypeOK
  <2> QED
    BY <2>1 DEF HistoryOf, RecordBacked, Record
<1> QED
  BY <1>1, Inductive, PTL

\* Lost updates or not, a desktop session has the subject and the assurance of
\* an approval of its handoff, and that approval was earned.
THEOREM EarnedLoginHolds == Spec => []EarnedLogin
<1>1. IInv => EarnedLogin
  BY DEF IInv
<1> QED
  BY <1>1, Inductive, PTL

\* Overlapping polls, late and lost answers never make the wait page show an
\* outcome that did not happen, nor stop polling without one; a late "pending"
\* may take the outcome's text away again.
THEOREM PageTellsTruthHolds == Spec => []PageTellsTruth
<1>1. IInv => PageTellsTruth
  BY DEF IInv
<1> QED
  BY <1>1, Inductive, PTL

-----------------------------------------------------------------------------
(* The handoff implements HandoffPromise.                                   *)

PhaseMap  == [h \in Handoffs |-> Phase(h)]
GrantMap  == [h \in Handoffs |-> IF Intact(h) THEN <<rec[h].who, rec[h].aal>> ELSE Denial]
LoginsMap == {g \in granted : Intact(g.h)}

LEMMA PromiseInit == Init => Promise!Init
BY DEF Init, Promise!Init, Phase, Intact, Unborn, Denial

\* Where nothing but other handoffs' records changes, the picture stays.
LEMMA SamePicture ==
  ASSUME NEW h \in Handoffs, rec'[h] = rec[h], made'[h] = made[h],
         Intact(h)' <=> Intact(h)
  PROVE  Phase(h)' = Phase(h) /\ GrantMap'[h] = GrantMap[h]
<1>1. Phase(h)' = Phase(h)
  BY DEF Phase, Intact
<1>2. GrantMap[h] = IF Intact(h) THEN <<rec[h].who, rec[h].aal>> ELSE Denial
  BY DEF GrantMap
<1>3. GrantMap'[h] = IF Intact(h)' THEN <<rec'[h].who, rec'[h].aal>> ELSE Denial
  BY DEF GrantMap, Intact, Denial
<1> QED
  BY <1>1, <1>2, <1>3

LEMMA StutterPicture ==
  ASSUME UNCHANGED core
  PROVE  UNCHANGED Promise!vars
BY DEF core, Promise!vars, Phase, Intact

LEMMA VoidStep ==
  ASSUME TypeOK, NEW h \in Handoffs, h \in clobbered', granted' = granted, made' = made,
         \A k \in Handoffs : k # h => rec'[k] = rec[k] /\ (Intact(k)' <=> Intact(k))
  PROVE  Promise!Void(h)
<1>1. Phase(h)' = "void" /\ GrantMap'[h] = Denial
  BY DEF Phase, GrantMap, Intact
<1>2. \A k \in Handoffs : k # h => Phase(k)' = Phase(k) /\ GrantMap'[k] = GrantMap[k]
  BY SamePicture
<1>3. PhaseMap' = [PhaseMap EXCEPT ![h] = "void"]
  BY <1>1, <1>2 DEF PhaseMap
<1>4. GrantMap' = [GrantMap EXCEPT ![h] = Denial]
  BY <1>1, <1>2 DEF GrantMap
<1>5. LoginsMap' = {l \in LoginsMap : l.h # h}
  <2>1. \A g \in granted : g.h \in Handoffs
    BY DEF TypeOK
  <2> QED
    BY <2>1 DEF LoginsMap, Intact
<1> QED
  BY <1>3, <1>4, <1>5 DEF Promise!Void, PhaseMap, GrantMap, LoginsMap

LEMMA LoginsKept ==
  ASSUME granted' = granted, clobbered' = clobbered
  PROVE  LoginsMap' = LoginsMap
BY DEF LoginsMap, Intact

LEMMA PromiseStep == IInv /\ [Next]_vars => [Promise!Next]_(Promise!vars)
<1> SUFFICES ASSUME IInv, [Next]_vars PROVE [Promise!Next]_(Promise!vars)
  OBVIOUS
<1>0. /\ TypeOK /\ Backed
      /\ \A h \in Handoffs : Intact(h) => HistoryOf(h)
      /\ \A w \in Workers : job[w].h \in Handoffs /\ Intact(job[w].h) => Consistent(w)
      /\ rec \in [Handoffs -> Record] /\ made \in [Handoffs -> Nat]
  BY DEF IInv, RecordIsHistory, OneSigner, TypeOK
<1>1. CASE Quiet \/ (\E w \in Workers : JobMove(w)) \/ Crash
  BY <1>0, <1>1, CrashEffect, StutterPicture DEF Quiet, JobMove, core
<1>2. ASSUME NEW h \in Handoffs, NEW r \in Requests \cup {None}, StartHandoff(h, r)
      PROVE  [Promise!Next]_(Promise!vars)
  <2>1. /\ rec[h].status = "unborn"
        /\ rec'[h].status = "pending" /\ rec'[h].who = rec[h].who /\ rec'[h].aal = rec[h].aal
        /\ \A k \in Handoffs : k # h => rec'[k] = rec[k]
        /\ made' = made /\ granted' = granted /\ clobbered' = clobbered
    BY <1>0, <1>2, StartEffect
  <2>2. \A k \in Handoffs : k # h => Phase(k)' = Phase(k)
    BY <2>1, SamePicture DEF Intact
  <2>3. GrantMap' = GrantMap
    BY <2>1 DEF GrantMap, Intact
  <2>4. LoginsMap' = LoginsMap
    BY <2>1, LoginsKept
  <2>5. CASE Intact(h)
    <3>1. Phase(h) = "closed" /\ Phase(h)' = "open"
      BY <2>1, <2>5 DEF Phase, Intact
    <3>2. PhaseMap[h] = "closed" /\ PhaseMap' = [PhaseMap EXCEPT ![h] = "open"]
      BY <2>2, <3>1 DEF PhaseMap
    <3>3. Promise!Offer(h)
      BY <2>3, <2>4, <3>2 DEF Promise!Offer, Promise!Move, PhaseMap, GrantMap, LoginsMap
    <3> QED
      BY <3>3 DEF Promise!Next
  <2>6. CASE ~Intact(h)
    <3>1. Phase(h) = "void" /\ Phase(h)' = "void"
      BY <2>1, <2>6 DEF Phase, Intact
    <3>2. PhaseMap' = PhaseMap
      BY <2>2, <3>1 DEF PhaseMap
    <3> QED
      BY <2>3, <2>4, <3>2 DEF Promise!vars, PhaseMap, GrantMap, LoginsMap
  <2> QED
    BY <2>5, <2>6
<1>3. ASSUME NEW h \in Handoffs, NEW seen, NEW st, NEW who, NEW aal,
             Save(h, seen, st, who, aal), made' = made, granted' = granted
      PROVE  \/ Promise!Void(h)
             \/ /\ Intact(h) /\ h \notin clobbered' /\ rec[h].status = seen
                /\ rec'[h].status = st /\ rec'[h].who = who /\ rec'[h].aal = aal
                /\ PhaseMap' = [PhaseMap EXCEPT ![h] = Phase(h)']
                /\ GrantMap' = [GrantMap EXCEPT ![h] = <<who, aal>>]
                /\ LoginsMap' = LoginsMap
  <2>1. /\ rec'[h].status = st /\ rec'[h].who = who /\ rec'[h].aal = aal
        /\ \A k \in Handoffs : k # h => rec'[k] = rec[k] /\ (Intact(k)' <=> Intact(k))
        /\ Intact(h)' => Intact(h) /\ rec[h].status = seen
    BY <1>0, <1>3, SaveEffect
  <2>2. CASE h \in clobbered'
    BY <1>0, <1>3, <2>1, <2>2, VoidStep
  <2>3. CASE h \notin clobbered'
    <3>1. Intact(h) /\ rec[h].status = seen
      BY <2>1, <2>3 DEF Intact
    <3>2. \A k \in Handoffs : k # h => Phase(k)' = Phase(k) /\ GrantMap'[k] = GrantMap[k]
      BY <1>3, <2>1, SamePicture
    <3>3. GrantMap'[h] = <<who, aal>>
      BY <2>1, <2>3 DEF GrantMap, Intact
    <3>4. PhaseMap' = [PhaseMap EXCEPT ![h] = Phase(h)']
      BY <3>2 DEF PhaseMap
    <3>5. GrantMap' = [GrantMap EXCEPT ![h] = <<who, aal>>]
      BY <3>2, <3>3 DEF GrantMap
    <3>6. \A g \in granted : Intact(g.h)' <=> Intact(g.h)
      BY <1>0, <2>1, <2>3, <3>1 DEF TypeOK, Intact
    <3>7. LoginsMap' = LoginsMap
      BY <1>3, <3>6 DEF LoginsMap
    <3> QED
      BY <2>1, <2>3, <3>1, <3>4, <3>5, <3>7
  <2> QED
    BY <2>2, <2>3
<1>4. ASSUME NEW w \in Workers, ApproveSave(w) PROVE [Promise!Next]_(Promise!vars)
  <2> PICK h \in Handoffs : h = job[w].h
    BY <1>0, <1>4, ApproveSaveEffect
  <2> PICK who, aal : who = job[w].who /\ aal = job[w].aal
    OBVIOUS
  <2>1. Save(h, "pending", "approved", who, aal) /\ made' = made /\ granted' = granted
    BY <1>0, <1>4, ApproveSaveEffect
  <2>2. <<who, aal>> \in Enrolled \X Aals
    BY <1>0, <1>4 DEF ApproveSave, Backed, JobBacked, Earned
  <2>3. CASE Promise!Void(h)
    BY <2>3 DEF Promise!Next
  <2>4. CASE ~Promise!Void(h)
    <3>1. /\ Intact(h) /\ h \notin clobbered' /\ rec[h].status = "pending"
          /\ rec'[h].status = "approved"
          /\ PhaseMap' = [PhaseMap EXCEPT ![h] = Phase(h)']
          /\ GrantMap' = [GrantMap EXCEPT ![h] = <<who, aal>>]
          /\ LoginsMap' = LoginsMap
      BY <1>3, <2>1, <2>4
    <3>2. Phase(h) = "open" /\ Phase(h)' = "granted"
      BY <3>1 DEF Phase, Intact
    <3>3. PhaseMap[h] = "open"
      BY <3>2 DEF PhaseMap
    <3>4. Promise!Allow(h)
      BY <2>2, <3>1, <3>2, <3>3
         DEF Promise!Allow, Promise!Move, PhaseMap, GrantMap, LoginsMap
    <3> QED
      BY <3>4 DEF Promise!Next
  <2> QED
    BY <2>3, <2>4
<1>5. ASSUME NEW w \in Workers, DenySave(w) PROVE [Promise!Next]_(Promise!vars)
  <2> PICK h \in Handoffs : h = job[w].h
    BY <1>0, <1>5, DenySaveEffect
  <2>1. Save(h, "pending", "denied", None, NoAal) /\ made' = made /\ granted' = granted
    BY <1>0, <1>5, DenySaveEffect
  <2>3. CASE Promise!Void(h)
    BY <2>3 DEF Promise!Next
  <2>4. CASE ~Promise!Void(h)
    <3>1. /\ Intact(h) /\ h \notin clobbered' /\ rec[h].status = "pending"
          /\ rec'[h].status = "denied"
          /\ PhaseMap' = [PhaseMap EXCEPT ![h] = Phase(h)']
          /\ GrantMap' = [GrantMap EXCEPT ![h] = <<None, NoAal>>]
          /\ LoginsMap' = LoginsMap
      BY <1>3, <2>1, <2>4
    <3>2. Phase(h) = "open" /\ Phase(h)' = "refused"
      BY <3>1 DEF Phase, Intact
    \* A pending record names no approver, so the grant stays the empty one.
    <3>3. GrantMap[h] = <<None, NoAal>> /\ PhaseMap[h] = "open"
      BY <1>0, <3>1, <3>2 DEF HistoryOf, GrantMap, PhaseMap, Denial
    <3>4. GrantMap' = GrantMap
      BY <3>1, <3>3 DEF GrantMap
    <3>5. Promise!Refuse(h)
      BY <3>1, <3>2, <3>3, <3>4
         DEF Promise!Refuse, Promise!Move, PhaseMap, GrantMap, LoginsMap
    <3> QED
      BY <3>5 DEF Promise!Next
  <2> QED
    BY <2>3, <2>4
<1>6. ASSUME NEW w \in Workers, ConsumeSave(w) PROVE [Promise!Next]_(Promise!vars)
  <2> PICK h \in Handoffs : h = job[w].h
    BY <1>0, <1>6, ConsumeSaveEffect
  <2> PICK who, aal : who = job[w].who /\ aal = job[w].aal
    OBVIOUS
  <2>1. Save(h, "approved", "consumed", who, aal) /\ made' = made /\ granted' = granted
    BY <1>0, <1>6, ConsumeSaveEffect
  <2>3. CASE Promise!Void(h)
    BY <2>3 DEF Promise!Next
  <2>4. CASE ~Promise!Void(h)
    <3>1. /\ Intact(h) /\ h \notin clobbered' /\ rec[h].status = "approved"
          /\ rec'[h].status = "consumed"
          /\ PhaseMap' = [PhaseMap EXCEPT ![h] = Phase(h)']
          /\ GrantMap' = [GrantMap EXCEPT ![h] = <<who, aal>>]
          /\ LoginsMap' = LoginsMap
      BY <1>3, <2>1, <2>4
    <3>2. made'[h] = 0
      BY <1>0, <2>1, <3>1 DEF HistoryOf
    <3>3. Phase(h) = "granted" /\ Phase(h)' = "spent"
      BY <3>1, <3>2 DEF Phase, Intact
    \* The poll carries what the intact record says.
    <3>4. GrantMap[h] = <<who, aal>> /\ PhaseMap[h] = "granted"
      BY <1>0, <1>6, <3>1, <3>3 DEF Consistent, ConsumeSave, GrantMap, PhaseMap
    <3>5. GrantMap' = GrantMap
      BY <3>1, <3>4 DEF GrantMap
    <3>6. Promise!Spend(h)
      BY <3>1, <3>3, <3>4, <3>5
         DEF Promise!Spend, Promise!Move, PhaseMap, GrantMap, LoginsMap
    <3> QED
      BY <3>6 DEF Promise!Next
  <2> QED
    BY <2>3, <2>4
<1>7. ASSUME NEW w \in Workers, CreateSession(w) PROVE [Promise!Next]_(Promise!vars)
  <2> PICK h \in Handoffs : h = job[w].h
    BY <1>0, <1>7, CreateSessionEffect
  <2> PICK g : g = <<job[w].who, job[w].aal>>
    OBVIOUS
  <2>1. /\ UNCHANGED <<rec, clobbered>>
        /\ made' = [made EXCEPT ![h] = @ + 1]
        /\ granted' = granted \cup {[h |-> h, grant |-> g]}
    BY <1>0, <1>7, CreateSessionEffect
  <2>2. \A k \in Handoffs : k # h => Phase(k)' = Phase(k)
    BY <1>0, <2>1, SamePicture DEF Intact
  <2>3. GrantMap' = GrantMap
    BY <2>1 DEF GrantMap, Intact
  <2>4. CASE Intact(h)
    <3>1. rec[h].status = "consumed" /\ made[h] = 0 /\ g = <<rec[h].who, rec[h].aal>>
      BY <1>0, <1>7, <2>4 DEF CreateSession, Consistent, Signing
    <3>2. made'[h] = 1
      BY <1>0, <2>1, <3>1
    <3>3. Phase(h) = "spent" /\ Phase(h)' = "signed_in"
      BY <2>1, <2>4, <3>1, <3>2 DEF Phase, Intact
    <3>4. PhaseMap[h] = "spent" /\ PhaseMap' = [PhaseMap EXCEPT ![h] = "signed_in"]
      BY <2>2, <3>3 DEF PhaseMap
    <3>5. GrantMap[h] = g
      BY <2>4, <3>1 DEF GrantMap
    <3>6. LoginsMap' = LoginsMap \cup {[h |-> h, grant |-> GrantMap[h]]}
      BY <2>1, <2>4, <3>5 DEF LoginsMap, Intact
    <3>7. Promise!SignIn(h)
      BY <2>3, <3>3, <3>4, <3>6 DEF Promise!SignIn, Promise!Move, PhaseMap, GrantMap, LoginsMap
    <3> QED
      BY <3>7 DEF Promise!Next
  <2>5. CASE ~Intact(h)
    <3>1. Phase(h) = "void" /\ Phase(h)' = "void"
      BY <2>1, <2>5 DEF Phase, Intact
    <3>2. PhaseMap' = PhaseMap
      BY <2>2, <3>1 DEF PhaseMap
    <3>3. LoginsMap' = LoginsMap
      BY <2>1, <2>5 DEF LoginsMap, Intact
    <3> QED
      BY <2>3, <3>2, <3>3 DEF Promise!vars, PhaseMap, GrantMap, LoginsMap
  <2> QED
    BY <2>4, <2>5
<1> QED
  BY <1>0, <1>1, <1>2, <1>4, <1>5, <1>6, <1>7, StepShapes

\* The handlers, cut at every await, crashing and overlapping as they may,
\* implement the promise a handoff makes: offered once, decided once, and an
\* approval spent on one sign-in with exactly what was granted.
THEOREM KeepsPromiseHolds == Spec => KeepsPromise
<1>1. Spec => Promise!Init /\ [][Promise!Next]_(Promise!vars)
  BY PromiseInit, PromiseStep, Inductive, PTL DEF Spec
<1> QED
  BY <1>1 DEF KeepsPromise, Promise!Spec
=============================================================================
