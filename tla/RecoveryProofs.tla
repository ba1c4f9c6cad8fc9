--------------------------- MODULE RecoveryProofs ----------------------------
(***************************************************************************)
(* Proofs about Recovery, for any number of codes, generations, tokens,      *)
(* passkeys, sessions, requests in flight and failures.                     *)
(***************************************************************************)
EXTENDS Recovery, TLAPS

PCs == {"idle", "mint", "issue"} \cup Recovering

-----------------------------------------------------------------------------
(* What each action does to the requests in flight.                         *)

OneJob(w) == \A v \in Workers \ {w} : job'[v] = job[v]

\* What a request never changes on its way.
Kept(w) ==
  /\ job'[w].code = job[w].code /\ job'[w].token = job[w].token
  /\ job'[w].codes = job[w].codes /\ job'[w].known = job[w].known
  /\ job'[w].face = job[w].face /\ job'[w].gen = job[w].gen

Moves(w, pc, due, keys, sid) ==
  /\ job' \in [Workers -> Job] /\ OneJob(w) /\ Kept(w)
  /\ job'[w].pc = pc /\ job'[w].due = due /\ job'[w].keys = keys /\ job'[w].sid = sid

Starts(w, j) == job' \in [Workers -> Job] /\ OneJob(w) /\ job'[w] = j

LEMMA IdleJob ==
  /\ Idle \in Job /\ Idle.pc = "idle" /\ Idle.code = None /\ Idle.token = None
  /\ Idle.codes = {} /\ Idle.due = {} /\ Idle.keys = {} /\ Idle.known = {}
  /\ Idle.face = FALSE /\ Idle.sid = None /\ Idle.gen = None
BY DEF Idle, Job

LEMMA StartsJob ==
  ASSUME TypeOK, NEW w \in Workers, NEW j \in Job, job' = [job EXCEPT ![w] = j]
  PROVE  Starts(w, j)
BY DEF TypeOK, Starts, OneJob

LEMMA MovesJob ==
  ASSUME TypeOK, NEW w \in Workers, NEW pc \in PCs, NEW due \in SUBSET Codes,
         NEW keys \in SUBSET Passkeys, NEW sid \in Sids \cup {None},
         job' = [job EXCEPT ![w] = [job[w] EXCEPT !.pc = pc, !.due = due,
                                                  !.keys = keys, !.sid = sid]]
  PROVE  Moves(w, pc, due, keys, sid)
<1> DEFINE j == [job[w] EXCEPT !.pc = pc, !.due = due, !.keys = keys, !.sid = sid]
<1>1. job[w] \in Job
  BY DEF TypeOK
<1>2. /\ j \in Job /\ j.pc = pc /\ j.due = due /\ j.keys = keys /\ j.sid = sid
      /\ j.code = job[w].code /\ j.token = job[w].token /\ j.codes = job[w].codes
      /\ j.known = job[w].known /\ j.face = job[w].face /\ j.gen = job[w].gen
  BY <1>1 DEF Job, PCs
<1>3. job' \in [Workers -> Job] /\ OneJob(w) /\ job'[w] = j
  BY <1>2 DEF TypeOK, OneJob
<1> QED
  BY <1>2, <1>3 DEF Moves, Kept

LEMMA JobFields ==
  ASSUME TypeOK, NEW w \in Workers
  PROVE  /\ job[w] \in Job /\ job[w].pc \in PCs /\ job[w].code \in Codes \cup {None}
         /\ job[w].token \in Tokens \cup {None} /\ job[w].codes \in SUBSET Codes
         /\ job[w].due \in SUBSET Codes /\ job[w].keys \in SUBSET Passkeys
         /\ job[w].known \in SUBSET Passkeys /\ job[w].face \in BOOLEAN
         /\ job[w].sid \in Sids \cup {None} /\ job[w].gen \in Gens \cup {None}
BY DEF TypeOK, Job, PCs

LEMMA GotoMoves ==
  ASSUME TypeOK, NEW w \in Workers, NEW pc \in PCs, Goto(w, pc)
  PROVE  Moves(w, pc, job[w].due, job[w].keys, job[w].sid)
<1>1. job[w] \in Job
  BY JobFields
<1>2. [job[w] EXCEPT !.pc = pc]
        = [job[w] EXCEPT !.pc = pc, !.due = job[w].due, !.keys = job[w].keys,
                         !.sid = job[w].sid]
  BY <1>1 DEF Job
<1>3. job' = [job EXCEPT ![w] = [job[w] EXCEPT !.pc = pc]]
  BY DEF Goto, TypeOK
<1> QED
  BY <1>2, <1>3, JobFields, MovesJob

LEMMA FinishStarts ==
  ASSUME TypeOK, NEW w \in Workers, Finish(w)
  PROVE  Starts(w, Idle)
BY IdleJob, StartsJob DEF Finish

LEMMA VerifyEffect ==
  ASSUME TypeOK, NEW w \in Workers, NEW c \in Codes, VerifyCode(w, c)
  PROVE  /\ Valid(c) /\ job' \in [Workers -> Job] /\ OneJob(w)
         /\ job'[w].pc = "mint" /\ job'[w].code = c /\ job'[w].codes = {}
         /\ job'[w].token = None
         /\ job'[w].due = {} /\ job'[w].keys = {} /\ job'[w].known = {}
         /\ job'[w].sid = None /\ job'[w].gen = None
         /\ UNCHANGED <<rows, latest, begun, spent, token, minted, passkeys, revoked,
                        sids, open, marked, faults, bought, shared>>
<1> DEFINE j == [Idle EXCEPT !.pc = "mint", !.code = c]
<1>1. /\ j \in Job /\ j.pc = "mint" /\ j.code = c /\ j.codes = {} /\ j.due = {}
      /\ j.token = None
      /\ j.keys = {} /\ j.known = {} /\ j.sid = None /\ j.gen = None
  BY DEF Idle, Job
<1>2. Starts(w, j)
  BY <1>1, StartsJob DEF VerifyCode, Begin
<1> QED
  BY <1>1, <1>2 DEF VerifyCode, Starts, issue, sessions

LEMMA MintEffect ==
  ASSUME TypeOK, NEW w \in Workers, MintToken(w)
  PROVE  /\ job[w].pc = "mint" /\ Starts(w, Idle)
         /\ \E t \in Tokens \ minted : token' = [token EXCEPT ![t] = job[w].code]
                                       /\ minted' = minted \cup {t}
         /\ UNCHANGED <<rows, latest, begun, spent, passkeys, revoked,
                        sids, open, marked, faults, bought, shared>>
BY FinishStarts DEF MintToken, issue, sessions

LEMMA ExpiresEffect ==
  ASSUME TypeOK, NEW t \in Tokens, TokenExpires(t)
  PROVE  /\ token' = [token EXCEPT ![t] = None] /\ faults' \in 0..MaxFaults
         /\ UNCHANGED <<rows, latest, begun, spent, minted, passkeys, revoked, sids,
                        open, marked, job, bought, shared>>
BY RecoveryAssumption DEF TokenExpires, TypeOK, issue, sessions

LEMMA RecoverEffect ==
  ASSUME TypeOK, NEW w \in Workers, NEW t \in Tokens, NEW codes \in SUBSET Codes,
         Recover(w, t, codes)
  PROVE  /\ token[t] \in Codes /\ token[t] # None
         /\ job' \in [Workers -> Job] /\ OneJob(w)
         /\ job'[w].pc = "consume" /\ job'[w].code = token[t] /\ job'[w].token = t
         /\ job'[w].keys = {} /\ job'[w].known = passkeys
         /\ job'[w].sid = None /\ job'[w].gen = None
         /\ shared \subseteq shared' /\ shared' \subseteq shared \cup {token[t]}
         /\ \A v \in Workers : job[v].token = t => token[t] \in shared'
         /\ UNCHANGED <<rows, latest, begun, spent, token, minted, passkeys, revoked,
                        sids, open, marked, faults, bought>>
<1> DEFINE j == [Idle EXCEPT !.pc = "consume", !.code = token[t], !.token = t,
                             !.codes = codes \cup {token[t]}, !.due = codes,
                             !.known = passkeys, !.face = (codes = {})]
<1>1. token[t] \in Codes /\ passkeys \in SUBSET Passkeys
  BY DEF Recover, TypeOK
<1>2. /\ j \in Job /\ j.pc = "consume" /\ j.code = token[t] /\ j.token = t
      /\ j.codes = codes \cup {token[t]} /\ j.due = codes /\ j.keys = {}
      /\ j.known = passkeys /\ j.sid = None /\ j.gen = None
  BY <1>1 DEF Idle, Job, Recovering
<1>3. Starts(w, j)
  BY <1>2, StartsJob DEF Recover, Begin
<1>4. /\ shared \subseteq shared' /\ shared' \subseteq shared \cup {token[t]}
      /\ \A v \in Workers : job[v].token = t => token[t] \in shared'
  BY DEF Recover
<1> QED
  BY <1>1, <1>2, <1>3, <1>4 DEF Recover, Starts, issue, sessions

\* It holds the codes it was asked with and the token's.
LEMMA RecoverHolds ==
  ASSUME TypeOK, NEW w \in Workers, NEW t \in Tokens, NEW codes \in SUBSET Codes,
         Recover(w, t, codes)
  PROVE  /\ job'[w].code = token[t] /\ job'[w].codes = codes \cup {token[t]}
         /\ job'[w].due = codes
<1> DEFINE held == codes \cup {token[t]}
           j == [Idle EXCEPT !.pc = "consume", !.code = token[t], !.token = t,
                             !.codes = held, !.due = codes,
                             !.known = passkeys, !.face = (codes = {})]
<1>1. job'[w] = j
  BY DEF Recover, Begin, TypeOK
<1> HIDE DEF held
<1>2. j.code = token[t] /\ j.codes = held /\ j.due = codes
  BY DEF Idle
<1> QED
  BY <1>1, <1>2 DEF held

LEMMA ConsumeEffect ==
  ASSUME TypeOK, NEW w \in Workers, Consume(w)
  PROVE  /\ job[w].pc = "consume" /\ Nullify(w, job[w].code)
         /\ \/ /\ job[w].due = {}
               /\ Moves(w, "revoke_read", job[w].due, job[w].keys, job[w].sid)
            \/ /\ job[w].due # {}
               /\ Moves(w, "consume_more", job[w].due, job[w].keys, job[w].sid)
         /\ UNCHANGED <<rows, latest, begun, token, minted, passkeys, revoked,
                        sids, open, marked, faults, bought>>
BY GotoMoves DEF Consume, PCs, Recovering, issue, sessions

LEMMA ConsumeMoreEffect ==
  ASSUME TypeOK, NEW w \in Workers, ConsumeMore(w)
  PROVE  /\ job[w].pc = "consume_more"
         /\ \E c \in job[w].due :
              /\ Nullify(w, c)
              /\ Moves(w, IF job[w].due = {c} THEN "revoke_read" ELSE "consume_more",
                       job[w].due \ {c}, job[w].keys, job[w].sid)
         /\ UNCHANGED <<rows, latest, begun, token, minted, passkeys, revoked,
                        sids, open, marked, faults, bought>>
<1>1. job[w].pc = "consume_more" /\ job[w] \in Job
  BY JobFields DEF ConsumeMore
<1>2. PICK c \in job[w].due :
        /\ Nullify(w, c)
        /\ job' = [job EXCEPT ![w].due = @ \ {c},
                              ![w].pc = IF job[w].due = {c} THEN "revoke_read" ELSE @]
  BY DEF ConsumeMore
<1> DEFINE pc == IF job[w].due = {c} THEN "revoke_read" ELSE "consume_more"
<1>3. job' = [job EXCEPT ![w] = [job[w] EXCEPT !.pc = pc, !.due = job[w].due \ {c},
                                               !.keys = job[w].keys, !.sid = job[w].sid]]
  BY <1>1, <1>2 DEF TypeOK, Job
<1>4. Moves(w, pc, job[w].due \ {c}, job[w].keys, job[w].sid)
  BY <1>3, JobFields, MovesJob DEF PCs, Recovering
<1> QED
  BY <1>1, <1>2, <1>4 DEF ConsumeMore, issue, sessions

LEMMA RevokeReadEffect ==
  ASSUME TypeOK, NEW w \in Workers, RevokeRead(w)
  PROVE  /\ job[w].pc = "revoke_read"
         /\ Moves(w, IF passkeys \subseteq revoked THEN "drop_token" ELSE "revoke",
                  job[w].due, passkeys \ revoked, job[w].sid)
         /\ UNCHANGED <<rows, latest, begun, spent, token, minted, passkeys, revoked,
                        sids, open, marked, faults, bought, shared>>
<1>1. job[w].pc = "revoke_read" /\ job[w] \in Job
  BY JobFields DEF RevokeRead
<1> DEFINE pc == IF passkeys \subseteq revoked THEN "drop_token" ELSE "revoke"
<1>2. job' = [job EXCEPT ![w] = [job[w] EXCEPT !.pc = pc, !.due = job[w].due,
                                               !.keys = passkeys \ revoked,
                                               !.sid = job[w].sid]]
  BY <1>1 DEF RevokeRead, TypeOK, Job
<1>3. passkeys \ revoked \in SUBSET Passkeys
  BY DEF TypeOK
<1>4. Moves(w, pc, job[w].due, passkeys \ revoked, job[w].sid)
  BY <1>2, <1>3, JobFields, MovesJob DEF PCs, Recovering
<1> QED
  BY <1>1, <1>4 DEF RevokeRead, issue, sessions

LEMMA RevokeOneEffect ==
  ASSUME TypeOK, NEW w \in Workers, RevokeOne(w)
  PROVE  /\ job[w].pc = "revoke"
         /\ \E k \in job[w].keys :
              /\ revoked' = revoked \cup {k}
              /\ Moves(w, IF job[w].keys = {k} THEN "drop_token" ELSE "revoke",
                       job[w].due, job[w].keys \ {k}, job[w].sid)
         /\ UNCHANGED <<rows, latest, begun, spent, token, minted, passkeys,
                        sids, open, marked, faults, bought, shared>>
<1>1. job[w].pc = "revoke" /\ job[w] \in Job
  BY JobFields DEF RevokeOne
<1>2. PICK k \in job[w].keys :
        /\ revoked' = revoked \cup {k}
        /\ job' = [job EXCEPT ![w].keys = @ \ {k},
                              ![w].pc = IF job[w].keys = {k} THEN "drop_token" ELSE @]
  BY DEF RevokeOne
<1> DEFINE pc == IF job[w].keys = {k} THEN "drop_token" ELSE "revoke"
<1>3. job' = [job EXCEPT ![w] = [job[w] EXCEPT !.pc = pc, !.due = job[w].due,
                                               !.keys = job[w].keys \ {k},
                                               !.sid = job[w].sid]]
  BY <1>1, <1>2 DEF TypeOK, Job
<1>4. Moves(w, pc, job[w].due, job[w].keys \ {k}, job[w].sid)
  BY <1>3, JobFields, MovesJob DEF PCs, Recovering
<1> QED
  BY <1>1, <1>2, <1>4 DEF RevokeOne, issue, sessions

LEMMA DropEffect ==
  ASSUME TypeOK, NEW w \in Workers, DropToken(w)
  PROVE  /\ job[w].pc = "drop_token"
         /\ token' = [token EXCEPT ![job[w].token] = None]
         /\ Moves(w, "session", job[w].due, job[w].keys, job[w].sid)
         /\ UNCHANGED <<rows, latest, begun, spent, minted, passkeys, revoked,
                        sids, open, marked, faults, bought, shared>>
BY GotoMoves DEF DropToken, PCs, Recovering, issue, sessions

LEMMA SessionEffect ==
  ASSUME TypeOK, NEW w \in Workers, CreateSession(w)
  PROVE  /\ job[w].pc = "session"
         /\ \E s \in Sids \ sids :
              /\ sids' = sids \cup {s}
              /\ bought' = bought \cup {[sid |-> s, codes |-> job[w].codes,
                                         known |-> job[w].known, face |-> job[w].face]}
              /\ Moves(w, IF job[w].face THEN "answer" ELSE "mark", job[w].due,
                       job[w].keys, s)
         /\ UNCHANGED <<rows, latest, begun, spent, token, minted, passkeys, revoked,
                        open, marked, faults, shared>>
<1>1. job[w].pc = "session" /\ job[w] \in Job
  BY JobFields DEF CreateSession
<1>2. PICK s \in Sids \ sids :
        /\ sids' = sids \cup {s}
        /\ bought' = bought \cup {[sid |-> s, codes |-> job[w].codes,
                                   known |-> job[w].known, face |-> job[w].face]}
        /\ job' = [job EXCEPT ![w].sid = s,
                              ![w].pc = IF job[w].face THEN "answer" ELSE "mark"]
  BY DEF CreateSession
<1> DEFINE pc == IF job[w].face THEN "answer" ELSE "mark"
<1>3. job' = [job EXCEPT ![w] = [job[w] EXCEPT !.pc = pc, !.due = job[w].due,
                                               !.keys = job[w].keys, !.sid = s]]
  BY <1>1, <1>2 DEF TypeOK, Job
<1>4. Moves(w, pc, job[w].due, job[w].keys, s)
  BY <1>3, JobFields, MovesJob DEF PCs, Recovering
<1> QED
  BY <1>1, <1>2, <1>4 DEF CreateSession, issue

LEMMA MarkEffect ==
  ASSUME TypeOK, NEW w \in Workers, MarkMethod(w)
  PROVE  /\ job[w].pc = "mark" /\ marked' = marked \cup {job[w].sid}
         /\ Moves(w, "answer", job[w].due, job[w].keys, job[w].sid)
         /\ UNCHANGED <<rows, latest, begun, spent, token, minted, passkeys, revoked,
                        sids, open, faults, bought, shared>>
BY GotoMoves DEF MarkMethod, PCs, Recovering, issue

LEMMA AnswerEffect ==
  ASSUME TypeOK, NEW w \in Workers, Answer(w)
  PROVE  /\ job[w].pc = "answer" /\ open' = open \cup {job[w].sid} /\ Starts(w, Idle)
         /\ UNCHANGED <<rows, latest, begun, spent, token, minted, passkeys, revoked,
                        sids, marked, faults, bought, shared>>
BY FinishStarts DEF Answer, issue

LEMMA RegisterEffect ==
  ASSUME NEW k \in Passkeys, RegisterPasskey(k)
  PROVE  /\ passkeys' = passkeys \cup {k}
         /\ UNCHANGED <<rows, latest, begun, spent, token, minted, revoked, sids, open,
                        marked, job, faults, bought, shared>>
BY DEF RegisterPasskey, issue, sessions

LEMMA EnrollEffect ==
  ASSUME TypeOK, NEW w \in Workers, NEW g \in Gens, Enroll(w, g)
  PROVE  /\ g \notin begun /\ begun' = begun \cup {g}
         /\ job' \in [Workers -> Job] /\ OneJob(w)
         /\ job'[w].pc = "issue" /\ job'[w].gen = g /\ job'[w].sid = None
         /\ job'[w].due = {c \in Codes : GenOf[c] = g}
         /\ job'[w].code = None /\ job'[w].codes = {} /\ job'[w].keys = {}
         /\ job'[w].token = None
         /\ job'[w].known = {}
         /\ UNCHANGED <<rows, latest, spent, token, minted, passkeys, revoked, sids,
                        open, marked, faults, bought, shared>>
<1> DEFINE D == {c \in Codes : GenOf[c] = g}
           j == [Idle EXCEPT !.pc = "issue", !.gen = g, !.due = D]
<1>1. D \in SUBSET Codes
  OBVIOUS
<1> HIDE DEF D
<1>2. /\ j \in Job /\ j.pc = "issue" /\ j.gen = g /\ j.sid = None /\ j.due = D
      /\ j.code = None /\ j.token = None /\ j.codes = {} /\ j.keys = {} /\ j.known = {}
  BY <1>1 DEF Idle, Job
<1>3. Starts(w, j)
  BY <1>2, StartsJob DEF Enroll, Begin, D
<1> QED
  BY <1>2, <1>3 DEF Enroll, Starts, D, issue, sessions

LEMMA InsertEffect ==
  ASSUME TypeOK, NEW w \in Workers, InsertCode(w)
  PROVE  /\ job[w].pc = "issue" /\ latest' = job[w].gen
         /\ \E c \in job[w].due :
              /\ rows' = rows \cup {c}
              /\ \/ Starts(w, Idle)
                 \/ Moves(w, "issue", job[w].due \ {c}, job[w].keys, job[w].sid)
         /\ UNCHANGED <<begun, spent, token, minted, passkeys, revoked, sids, open,
                        marked, faults, bought, shared>>
<1>1. job[w].pc = "issue" /\ job[w] \in Job
  BY JobFields DEF InsertCode
<1>2. PICK c \in job[w].due :
        /\ rows' = rows \cup {c} /\ latest' = job[w].gen
        /\ job' = [job EXCEPT ![w] = IF job[w].due = {c} THEN Idle
                                     ELSE [job[w] EXCEPT !.due = @ \ {c}]]
  BY DEF InsertCode
<1>3. CASE job[w].due = {c}
  <2>1. Starts(w, Idle)
    BY <1>2, <1>3, IdleJob, StartsJob
  <2> QED
    BY <1>1, <1>2, <2>1 DEF InsertCode, sessions
<1>4. CASE job[w].due # {c}
  <2>1. [job[w] EXCEPT !.due = @ \ {c}]
          = [job[w] EXCEPT !.pc = "issue", !.due = job[w].due \ {c},
                           !.keys = job[w].keys, !.sid = job[w].sid]
    BY <1>1 DEF Job
  <2>2. job' = [job EXCEPT ![w] = [job[w] EXCEPT !.pc = "issue",
                                     !.due = job[w].due \ {c}, !.keys = job[w].keys,
                                     !.sid = job[w].sid]]
    BY <1>2, <1>4, <2>1
  <2>3. Moves(w, "issue", job[w].due \ {c}, job[w].keys, job[w].sid)
    BY <2>2, JobFields, MovesJob DEF PCs
  <2> QED
    BY <1>1, <1>2, <2>3 DEF InsertCode, sessions
<1> QED
  BY <1>3, <1>4

LEMMA FailsEffect ==
  ASSUME TypeOK, NEW w \in Workers, HandlerFails(w)
  PROVE  /\ Starts(w, Idle) /\ faults' \in 0..MaxFaults
         /\ UNCHANGED <<rows, latest, begun, spent, token, minted, passkeys, revoked,
                        sids, open, marked, bought, shared>>
<1>1. faults' \in 0..MaxFaults
  BY RecoveryAssumption DEF HandlerFails, TypeOK
<1> QED
  BY <1>1, FinishStarts DEF HandlerFails, issue, sessions

LEMMA NullifyEffect ==
  ASSUME NEW w \in Workers, NEW c, Nullify(w, c)
  PROVE  /\ spent' = spent \cup {c}
         /\ shared \subseteq shared' /\ shared' \subseteq shared \cup {c}
         /\ c \notin shared' => ~ HeldElsewhere(w, c)
BY DEF Nullify

-----------------------------------------------------------------------------
(* Type correctness and what requests carry.                                *)

\* The tables only grow, so those a step leaves alone still carry real things.
Grows ==
  /\ rows \subseteq rows' /\ passkeys \subseteq passkeys' /\ sids \subseteq sids'
  /\ begun \subseteq begun'
  /\ \A t \in Tokens : token'[t] # None => token'[t] \in rows'

LEMMA CarryOthers ==
  ASSUME JobsCarry, Grows, NEW w \in Workers, OneJob(w), Carries(w)'
  PROVE  JobsCarry'
<1>1. ASSUME NEW v \in Workers PROVE Carries(v)'
  <2>1. CASE v # w
    <3>1. job'[v] = job[v] /\ Carries(v)
      BY <2>1 DEF OneJob, JobsCarry
    <3> QED
      BY <3>1 DEF Carries, Grows
  <2> QED
    BY <2>1
<1> QED
  BY <1>1 DEF JobsCarry, Grows

\* A request that goes on or ends still carries real things.
LEMMA CarryOn ==
  ASSUME JobsCarry, Grows, NEW w \in Workers, NEW pc \in PCs,
         NEW due, NEW keys, NEW sid, Moves(w, pc, due, keys, sid),
         due \subseteq job[w].due, keys \subseteq passkeys, sid # None => sid \in sids',
         pc = "issue" => job[w].pc = "issue",
         pc \in {"mark", "answer"} => sid # None,
         pc = "consume_more" => due # {},
         pc # "mint", pc # "idle", pc # "consume", pc \in Recovering => job[w].pc \in Recovering
  PROVE  JobsCarry'
<1>1. Carries(w)
  BY DEF JobsCarry, Carries
<1>2. Carries(w)'
  BY <1>1 DEF Carries, Grows, Moves, Kept
<1> QED
  BY <1>2, CarryOthers DEF Moves

LEMMA CarryNoMore ==
  ASSUME JobsCarry, Grows, NEW w \in Workers, Starts(w, Idle)
  PROVE  JobsCarry'
<1>1. Carries(w)'
  BY IdleJob DEF Starts, Carries, Recovering
<1> QED
  BY <1>1, CarryOthers DEF Starts

LEMMA RecoverCases ==
  ASSUME NEW w \in Workers, NEW t \in Tokens,
         \/ RecoverByFace(w, t)
         \/ \E codes \in SUBSET Codes : RecoverByCodes(w, t, codes)
  PROVE  \E codes \in SUBSET Codes :
           Recover(w, t, codes) /\ \A c \in codes : Valid(c)
<1>1. CASE RecoverByFace(w, t)
  <2>1. Recover(w, t, {})
    BY <1>1 DEF RecoverByFace
  <2>2. {} \in SUBSET Codes /\ \A c \in {} : Valid(c)
    OBVIOUS
  <2> HIDE <1>1
  <2> QED
    BY ONLY <2>1, <2>2
<1>2. CASE \E codes \in SUBSET Codes : RecoverByCodes(w, t, codes)
  BY <1>2 DEF RecoverByCodes
<1> QED
  BY <1>1, <1>2

LEMMA TypeStep ==
  ASSUME TypeOK, JobsCarry, [Next]_vars
  PROVE  TypeOK'
<1>1. ASSUME NEW w \in Workers, NEW c \in Codes, VerifyCode(w, c)
      PROVE  TypeOK'
  BY <1>1, VerifyEffect DEF TypeOK
<1>2. ASSUME NEW w \in Workers, MintToken(w)
      PROVE  TypeOK'
  <2>1. job[w].code \in Codes
    BY <1>2, MintEffect DEF TypeOK, JobsCarry, Carries
  <2> QED
    BY <1>2, <2>1, MintEffect DEF TypeOK, Starts
<1>3. ASSUME NEW t \in Tokens, TokenExpires(t)
      PROVE  TypeOK'
  BY <1>3, ExpiresEffect DEF TypeOK
<1>4. ASSUME NEW w \in Workers, NEW t \in Tokens, NEW codes \in SUBSET Codes,
             Recover(w, t, codes),
             \A c \in codes : Valid(c)
      PROVE  TypeOK'
  <2>1. /\ job' \in [Workers -> Job] /\ shared' \subseteq shared \cup {token[t]}
        /\ token[t] \in Codes
        /\ UNCHANGED <<rows, latest, begun, spent, token, minted, passkeys, revoked,
                       sids, open, marked, faults, bought>>
    BY <1>4, RecoverEffect
  <2> QED
    BY <2>1 DEF TypeOK
<1>5. ASSUME NEW w \in Workers, Consume(w)
      PROVE  TypeOK'
  <2>1. job[w].code \in rows
    BY <1>5, ConsumeEffect DEF JobsCarry, Carries, Recovering
  <2>2. spent' \subseteq rows' /\ shared' \subseteq Codes
    BY <1>5, <2>1, ConsumeEffect, NullifyEffect DEF TypeOK
  <2> QED
    BY <1>5, <2>2, ConsumeEffect DEF TypeOK, Moves
<1>6. ASSUME NEW w \in Workers, ConsumeMore(w)
      PROVE  TypeOK'
  <2> PICK c \in job[w].due :
        /\ Nullify(w, c)
        /\ Moves(w, IF job[w].due = {c} THEN "revoke_read" ELSE "consume_more",
                 job[w].due \ {c}, job[w].keys, job[w].sid)
    BY <1>6, ConsumeMoreEffect
  <2>1. c \in rows
    BY <1>6, ConsumeMoreEffect DEF JobsCarry, Carries, Recovering
  <2>2. spent' \subseteq rows' /\ shared' \subseteq Codes
    BY <1>6, <2>1, ConsumeMoreEffect, NullifyEffect DEF TypeOK
  <2> QED
    BY <1>6, <2>2, ConsumeMoreEffect DEF TypeOK, Moves
<1>7. ASSUME NEW w \in Workers, RevokeRead(w)
      PROVE  TypeOK'
  BY <1>7, RevokeReadEffect DEF TypeOK, Moves
<1>8. ASSUME NEW w \in Workers, RevokeOne(w)
      PROVE  TypeOK'
  BY <1>8, RevokeOneEffect DEF TypeOK, JobsCarry, Carries, Moves
<1>9. ASSUME NEW w \in Workers, DropToken(w)
      PROVE  TypeOK'
  BY <1>9, DropEffect DEF TypeOK, Moves
<1>10. ASSUME NEW w \in Workers, CreateSession(w)
      PROVE  TypeOK'
  <2> PICK s \in Sids \ sids :
        /\ sids' = sids \cup {s}
        /\ bought' = bought \cup {[sid |-> s, codes |-> job[w].codes,
                                   known |-> job[w].known, face |-> job[w].face]}
        /\ Moves(w, IF job[w].face THEN "answer" ELSE "mark", job[w].due,
                 job[w].keys, s)
    BY <1>10, SessionEffect
  <2>1. bought' \subseteq Purchase
    BY JobFields DEF TypeOK, Purchase
  <2> QED
    BY <1>10, <2>1, SessionEffect DEF TypeOK, Moves
<1>11. ASSUME NEW w \in Workers, MarkMethod(w)
      PROVE  TypeOK'
  BY <1>11, MarkEffect DEF TypeOK, JobsCarry, Carries, Moves
<1>12. ASSUME NEW w \in Workers, Answer(w)
      PROVE  TypeOK'
  BY <1>12, AnswerEffect DEF TypeOK, JobsCarry, Carries, Starts
<1>13. ASSUME NEW k \in Passkeys, RegisterPasskey(k)
      PROVE  TypeOK'
  BY <1>13, RegisterEffect DEF TypeOK
<1>14. ASSUME NEW w \in Workers, NEW g \in Gens, Enroll(w, g)
      PROVE  TypeOK'
  BY <1>14, EnrollEffect DEF TypeOK
<1>15. ASSUME NEW w \in Workers, InsertCode(w)
      PROVE  TypeOK'
  <2> PICK c \in job[w].due :
        /\ rows' = rows \cup {c}
        /\ \/ Starts(w, Idle)
           \/ Moves(w, "issue", job[w].due \ {c}, job[w].keys, job[w].sid)
    BY <1>15, InsertEffect
  <2>1. c \in Codes /\ GenOf[c] = job[w].gen /\ job[w].gen \in begun
    BY <1>15, InsertEffect, JobFields DEF JobsCarry, Carries
  <2> QED
    BY <1>15, <2>1, InsertEffect DEF TypeOK, Starts, Moves
<1>16. ASSUME NEW w \in Workers, HandlerFails(w)
      PROVE  TypeOK'
  BY <1>16, FailsEffect DEF TypeOK, Starts
<1>17. CASE UNCHANGED vars
  BY <1>17 DEF vars, issue, sessions, TypeOK
<1>18. ASSUME NEW w \in Workers, NEW t \in Tokens,
              \/ RecoverByFace(w, t)
              \/ \E codes \in SUBSET Codes : RecoverByCodes(w, t, codes)
       PROVE  TypeOK'
  BY <1>18, <1>4, RecoverCases
<1> QED
  BY <1>1, <1>2, <1>3, <1>5, <1>6, <1>7, <1>8, <1>9, <1>10, <1>11, <1>12, <1>13,
     <1>14, <1>15, <1>16, <1>17, <1>18 DEF Next, Handler

LEMMA CarryStep ==
  ASSUME TypeOK, JobsCarry, [Next]_vars
  PROVE  JobsCarry'
<1>1. ASSUME NEW w \in Workers, NEW c \in Codes, VerifyCode(w, c)
      PROVE  JobsCarry'
  <2>1. Grows
    BY <1>1, VerifyEffect DEF JobsCarry, Grows
  <2>2. c \in rows /\ c # None
    BY <1>1, VerifyEffect, RecoveryAssumption DEF Valid
  <2>3. Carries(w)'
    BY <1>1, <2>2, VerifyEffect DEF Carries, Recovering
  <2> QED
    BY <1>1, <2>1, <2>3, VerifyEffect, CarryOthers
<1>2. ASSUME NEW w \in Workers, MintToken(w)
      PROVE  JobsCarry'
  <2>1. Carries(w)
    BY DEF JobsCarry
  <2>2. \A t \in Tokens : token'[t] # None => token'[t] \in rows'
    BY <1>2, <2>1, MintEffect DEF TypeOK, JobsCarry, Carries
  <2> QED
    BY <1>2, <2>2, MintEffect, CarryNoMore DEF Grows
<1>3. ASSUME NEW t \in Tokens, TokenExpires(t)
      PROVE  JobsCarry'
  BY <1>3, ExpiresEffect DEF TypeOK, JobsCarry, Carries
<1>4. ASSUME NEW w \in Workers, NEW t \in Tokens, NEW codes \in SUBSET Codes,
             Recover(w, t, codes),
             \A c \in codes : Valid(c)
      PROVE  JobsCarry'
  <2>1. Grows /\ t # None
    BY <1>4, RecoverEffect, RecoveryAssumption DEF JobsCarry, Grows
  <2>2. token[t] \in rows
    BY <1>4, RecoverEffect DEF JobsCarry
  <2>3. codes \subseteq rows
    BY <1>4 DEF Valid
  <2>6. /\ job'[w].code = token[t] /\ job'[w].codes = codes \cup {token[t]}
        /\ job'[w].due = codes
    BY <1>4, RecoverHolds
  <2>4. /\ job'[w].code \in rows /\ job'[w].codes \subseteq rows
        /\ job'[w].due \subseteq job'[w].codes /\ job'[w].code \in job'[w].codes
        /\ job'[w].codes \subseteq job'[w].due \cup {job'[w].code}
    BY <2>2, <2>3, <2>6
  <2>7. /\ job'[w].pc = "consume" /\ job'[w].token = t /\ job'[w].keys = {}
        /\ job'[w].known = passkeys /\ job'[w].sid = None /\ job'[w].gen = None
        /\ token[t] # None /\ UNCHANGED <<rows, passkeys>>
    BY <1>4, RecoverEffect
  <2>5. Carries(w)'
    BY <2>1, <2>4, <2>6, <2>7 DEF Carries, Recovering
  <2> QED
    BY <1>4, <2>1, <2>5, RecoverEffect, CarryOthers
<1>5. ASSUME NEW w \in Workers, Consume(w)
      PROVE  JobsCarry'
  <2>1. Carries(w) /\ Grows
    BY <1>5, ConsumeEffect DEF JobsCarry, Grows
  <2> QED
    BY <1>5, <2>1, ConsumeEffect, CarryOn, JobFields DEF Carries, PCs, Recovering
<1>6. ASSUME NEW w \in Workers, ConsumeMore(w)
      PROVE  JobsCarry'
  <2> PICK c \in job[w].due :
        Moves(w, IF job[w].due = {c} THEN "revoke_read" ELSE "consume_more",
              job[w].due \ {c}, job[w].keys, job[w].sid)
    BY <1>6, ConsumeMoreEffect
  <2> DEFINE pc == IF job[w].due = {c} THEN "revoke_read" ELSE "consume_more"
             due == job[w].due \ {c}
  <2>2. /\ pc \in {"revoke_read", "consume_more"} /\ (pc = "consume_more" => due # {})
        /\ due \subseteq job[w].due /\ Moves(w, pc, due, job[w].keys, job[w].sid)
    OBVIOUS
  <2> HIDE DEF pc, due
  <2>1. Carries(w) /\ Grows /\ job[w].pc = "consume_more"
    BY <1>6, ConsumeMoreEffect DEF JobsCarry, Grows
  <2>3. /\ pc \in PCs /\ pc # "issue" /\ pc \notin {"mark", "answer"} /\ pc # "mint"
        /\ pc # "idle" /\ pc # "consume" /\ job[w].pc \in Recovering
    BY <2>1, <2>2 DEF PCs, Recovering
  <2>4. job[w].keys \subseteq passkeys /\ (job[w].sid # None => job[w].sid \in sids')
    BY <2>1 DEF Carries, Grows
  <2> QED
    BY <2>1, <2>2, <2>3, <2>4, CarryOn
<1>7. ASSUME NEW w \in Workers, RevokeRead(w)
      PROVE  JobsCarry'
  <2>1. Carries(w) /\ Grows
    BY <1>7, RevokeReadEffect DEF JobsCarry, Grows
  <2> QED
    BY <1>7, <2>1, RevokeReadEffect, CarryOn, JobFields DEF Carries, PCs, Recovering
<1>8. ASSUME NEW w \in Workers, RevokeOne(w)
      PROVE  JobsCarry'
  <2> PICK k \in job[w].keys :
        Moves(w, IF job[w].keys = {k} THEN "drop_token" ELSE "revoke", job[w].due,
              job[w].keys \ {k}, job[w].sid)
    BY <1>8, RevokeOneEffect
  <2> DEFINE pc == IF job[w].keys = {k} THEN "drop_token" ELSE "revoke"
             keys == job[w].keys \ {k}
  <2>2. /\ pc \in {"drop_token", "revoke"} /\ keys \subseteq job[w].keys
        /\ Moves(w, pc, job[w].due, keys, job[w].sid)
    OBVIOUS
  <2> HIDE DEF pc, keys
  <2>1. Carries(w) /\ Grows /\ job[w].pc = "revoke"
    BY <1>8, RevokeOneEffect DEF JobsCarry, Grows
  <2>3. /\ pc \in PCs /\ pc # "issue" /\ pc \notin {"mark", "answer"} /\ pc # "mint"
        /\ pc # "idle" /\ pc # "consume" /\ pc # "consume_more" /\ job[w].pc \in Recovering
    BY <2>1, <2>2 DEF PCs, Recovering
  <2>4. keys \subseteq passkeys /\ (job[w].sid # None => job[w].sid \in sids')
    BY <2>1, <2>2 DEF Carries, Grows
  <2> QED
    BY <2>1, <2>2, <2>3, <2>4, CarryOn
<1>9. ASSUME NEW w \in Workers, DropToken(w)
      PROVE  JobsCarry'
  <2>1. Carries(w) /\ job[w].token \in Tokens
    BY <1>9, DropEffect, JobFields DEF JobsCarry, Carries, Recovering
  <2>2. Grows
    BY <1>9, <2>1, DropEffect DEF TypeOK, JobsCarry, Grows
  <2> QED
    BY <1>9, <2>1, <2>2, DropEffect, CarryOn DEF Carries, PCs, Recovering
<1>10. ASSUME NEW w \in Workers, CreateSession(w)
      PROVE  JobsCarry'
  <2> PICK s \in Sids \ sids :
        /\ sids' = sids \cup {s}
        /\ Moves(w, IF job[w].face THEN "answer" ELSE "mark", job[w].due,
                 job[w].keys, s)
    BY <1>10, SessionEffect
  <2>1. Carries(w) /\ Grows /\ s # None
    BY <1>10, SessionEffect, RecoveryAssumption DEF JobsCarry, Grows
  <2> QED
    BY <1>10, <2>1, SessionEffect, CarryOn DEF Carries, PCs, Recovering
<1>11. ASSUME NEW w \in Workers, MarkMethod(w)
      PROVE  JobsCarry'
  <2>1. Carries(w) /\ Grows
    BY <1>11, MarkEffect DEF JobsCarry, Grows
  <2> QED
    BY <1>11, <2>1, MarkEffect, CarryOn, JobFields DEF Carries, PCs, Recovering
<1>12. ASSUME NEW w \in Workers, Answer(w)
      PROVE  JobsCarry'
  <2>1. Grows
    BY <1>12, AnswerEffect DEF JobsCarry, Grows
  <2> QED
    BY <1>12, <2>1, AnswerEffect, CarryNoMore
<1>13. ASSUME NEW k \in Passkeys, RegisterPasskey(k)
      PROVE  JobsCarry'
  BY <1>13, RegisterEffect DEF JobsCarry, Carries
<1>14. ASSUME NEW w \in Workers, NEW g \in Gens, Enroll(w, g)
      PROVE  JobsCarry'
  <2>1. g # None /\ Grows
    BY <1>14, EnrollEffect, RecoveryAssumption DEF TypeOK, JobsCarry, Grows
  <2>2. Carries(w)'
    BY <1>14, <2>1, EnrollEffect DEF Carries, Recovering
  <2> QED
    BY <1>14, <2>1, <2>2, EnrollEffect, CarryOthers
<1>15. ASSUME NEW w \in Workers, InsertCode(w)
      PROVE  JobsCarry'
  <2> PICK c \in job[w].due :
        /\ rows' = rows \cup {c}
        /\ \/ Starts(w, Idle)
           \/ Moves(w, "issue", job[w].due \ {c}, job[w].keys, job[w].sid)
    BY <1>15, InsertEffect
  <2>1. Carries(w) /\ Grows
    BY <1>15, InsertEffect DEF JobsCarry, Grows
  <2>2. CASE Starts(w, Idle)
    BY <2>1, <2>2, CarryNoMore
  <2>3. CASE Moves(w, "issue", job[w].due \ {c}, job[w].keys, job[w].sid)
    BY <1>15, <2>1, <2>3, InsertEffect, CarryOn DEF Carries, PCs, Recovering
  <2> QED
    BY <2>2, <2>3
<1>16. ASSUME NEW w \in Workers, HandlerFails(w)
      PROVE  JobsCarry'
  <2>1. Grows
    BY <1>16, FailsEffect DEF JobsCarry, Grows
  <2> QED
    BY <1>16, <2>1, FailsEffect, CarryNoMore
<1>17. CASE UNCHANGED vars
  BY <1>17 DEF vars, issue, sessions, JobsCarry, Carries
<1>18. ASSUME NEW w \in Workers, NEW t \in Tokens,
              \/ RecoverByFace(w, t)
              \/ \E codes \in SUBSET Codes : RecoverByCodes(w, t, codes)
       PROVE  JobsCarry'
  BY <1>18, <1>4, RecoverCases
<1> QED
  BY <1>1, <1>2, <1>3, <1>5, <1>6, <1>7, <1>8, <1>9, <1>10, <1>11, <1>12, <1>13,
     <1>14, <1>15, <1>16, <1>17, <1>18 DEF Next, Handler

-----------------------------------------------------------------------------
(* What codes buy.                                                          *)

Money ==
  /\ PaidIsSpent /\ PaidAlone /\ BoughtAlone /\ TokensDropped /\ OneRecoveryUnlessHeld

\* Nobody has paid or bought with the code.
Free(c) == (\A v \in Workers : c \notin Paid(v)) /\ (\A b \in bought : c \notin b.codes)

LEMMA UnspentIsFree ==
  ASSUME Money, NEW c, c \notin spent
  PROVE  Free(c)
BY DEF Money, PaidIsSpent, Free

\* What was paid for is a code.
LEMMA PaidAreCodes ==
  ASSUME TypeOK, Money
  PROVE  /\ \A w \in Workers : Paid(w) \subseteq Codes
         /\ \A b \in bought : b.codes \subseteq Codes
         /\ None \notin Codes
BY RecoveryAssumption DEF TypeOK, Money, PaidIsSpent

\* Tokens are dropped, expire, or are minted for a code a request has found good.
TokensFollow ==
  \A t \in Tokens : \/ token'[t] \in {token[t], None}
                    \/ \E v \in Workers : job[v].pc = "mint" /\ job[v].code = token'[t]

\* A request that inserts no nullifier pays no more than before, and lays claim to
\* codes only that are free or counted as shared.
LEMMA PaysNoMore ==
  ASSUME TypeOK, Money, NEW w \in Workers, OneJob(w), Paid(w)' \subseteq Paid(w),
         Paid(w)' # {} => job'[w].token = job[w].token,
         \A c \in Codes : MaySpend(w, c)' => MaySpend(w, c) \/ Free(c) \/ c \in shared',
         TokensFollow, TokensDropped', shared \subseteq shared',
         UNCHANGED <<spent, bought>>
  PROVE  Money'
<1>1. \A v \in Workers : Paid(v)' \subseteq Paid(v)
  <2> TAKE v \in Workers
  <2>1. CASE v # w
    BY <2>1 DEF OneJob, Paid
  <2> QED
    BY <2>1
<1>2. PaidIsSpent'
  BY <1>1 DEF Money, PaidIsSpent
<1>3. \A v \in Workers, c \in Codes :
        MaySpend(v, c)' => MaySpend(v, c) \/ Free(c) \/ c \in shared'
  <2> TAKE v \in Workers, c \in Codes
  <2>1. CASE v # w
    BY <2>1 DEF OneJob, MaySpend, Paid
  <2> QED
    BY <2>1
<1>4. PaidAlone'
  <2> SUFFICES ASSUME NEW v \in Workers, NEW c \in Paid(v)', c \notin shared'
               PROVE  /\ \A u \in Workers \ {v} : c \notin Paid(u)' /\ ~MaySpend(u, c)'
                      /\ \A t \in Tokens : token'[t] = c => t = job'[v].token
                      /\ \A b \in bought' : c \notin b.codes
    BY DEF PaidAlone
  <2>1. c \in Paid(v) /\ c \in Codes /\ c \notin shared /\ c # None
    BY <1>1, PaidAreCodes
  <2>2. /\ \A u \in Workers \ {v} : c \notin Paid(u) /\ ~MaySpend(u, c)
        /\ \A t \in Tokens : token[t] = c => t = job[v].token
        /\ \A b \in bought : c \notin b.codes
    BY <2>1 DEF Money, PaidAlone
  <2>3. job'[v].token = job[v].token /\ job[v].pc # "mint"
    BY <2>1 DEF OneJob, Paid
  <2>4. ~ Free(c)
    BY <2>1 DEF Free
  <2>5. \A u \in Workers : job[u].pc = "mint" => job[u].code # c
    BY <2>2, <2>3 DEF MaySpend
  <2> QED
    BY <1>1, <1>3, <2>1, <2>2, <2>3, <2>4, <2>5 DEF TokensFollow
<1>5. BoughtAlone'
  <2> SUFFICES ASSUME NEW b \in bought, NEW c \in b.codes, c \notin shared'
               PROVE  /\ \A v \in Workers : ~MaySpend(v, c)'
                      /\ \A t \in Tokens : token'[t] # c
    BY DEF BoughtAlone
  <2>1. c \in Codes /\ c # None /\ ~ Free(c)
    BY PaidAreCodes DEF Free
  <2>2. (\A v \in Workers : ~MaySpend(v, c)) /\ (\A t \in Tokens : token[t] # c)
    BY DEF Money, BoughtAlone
  <2> QED
    BY <1>3, <2>1, <2>2 DEF TokensFollow, MaySpend
<1>6. OneRecoveryUnlessHeld'
  BY DEF Money, OneRecoveryUnlessHeld
<1> QED
  BY <1>2, <1>4, <1>5, <1>6 DEF Money

\* One that inserts a nullifier pays with that code, and is alone with it unless
\* another has a claim on it.
LEMMA PaysOne ==
  ASSUME TypeOK, Money, NEW w \in Workers, OneJob(w), NEW c \in rows, Nullify(w, c),
         Paid(w)' \subseteq Paid(w) \cup {c}, MaySpend(w, c) \/ c \in Paid(w),
         \A d \in Codes : MaySpend(w, d)' => MaySpend(w, d),
         job'[w].token = job[w].token, TokensDropped', UNCHANGED <<token, bought>>
  PROVE  Money'
<1>1. \A v \in Workers \ {w} : Paid(v)' = Paid(v)
  BY DEF OneJob, Paid
<1>2. \A v \in Workers, d \in Codes : MaySpend(v, d)' => MaySpend(v, d)
  <2> TAKE v \in Workers, d \in Codes
  <2>1. CASE v # w
    BY <2>1 DEF OneJob, MaySpend, Paid
  <2> QED
    BY <2>1
<1>3. /\ spent' = spent \cup {c} /\ shared \subseteq shared'
      /\ c \notin shared' => ~ HeldElsewhere(w, c)
  BY NullifyEffect
<1>4. PaidIsSpent'
  BY <1>1, <1>3 DEF Money, PaidIsSpent
<1>5. /\ \A v \in Workers : Paid(v) \subseteq Codes
      /\ \A b \in bought : b.codes \subseteq Codes
      /\ c \in Codes
  BY PaidAreCodes DEF TypeOK
\* what one request alone may claim, nobody else has
<1>6. ASSUME NEW d \in Codes, d \notin shared', d = c \/ d \in Paid(w)
      PROVE  /\ \A v \in Workers \ {w} : d \notin Paid(v) /\ ~MaySpend(v, d)
             /\ \A t \in Tokens : token[t] = d => t = job[w].token
             /\ \A b \in bought : d \notin b.codes
  <2>1. CASE d \in Paid(w)
    BY <2>1, <1>3, <1>6 DEF Money, PaidAlone
  <2>2. CASE d = c /\ MaySpend(w, c)
    BY <2>2, <1>3, <1>6 DEF Money, PaidAlone, BoughtAlone, HeldElsewhere
  <2> QED
    BY <1>6, <2>1, <2>2
<1>7. PaidAlone'
  <2> SUFFICES ASSUME NEW v \in Workers, NEW d \in Paid(v)', d \notin shared'
               PROVE  /\ \A u \in Workers \ {v} : d \notin Paid(u)' /\ ~MaySpend(u, d)'
                      /\ \A t \in Tokens : token'[t] = d => t = job'[v].token
                      /\ \A b \in bought' : d \notin b.codes
    BY DEF PaidAlone
  <2>1. CASE v = w
    <3>1. d \in Codes /\ (d = c \/ d \in Paid(w))
      BY <2>1, <1>5
    <3>2. /\ \A u \in Workers \ {w} : d \notin Paid(u) /\ ~MaySpend(u, d)
          /\ \A t \in Tokens : token[t] = d => t = job[w].token
          /\ \A b \in bought : d \notin b.codes
      BY <3>1, <1>6
    <3> QED
      BY <2>1, <3>1, <3>2, <1>1, <1>2
  <2>2. CASE v # w
    <3>1. d \in Paid(v) /\ d \in Codes /\ d \notin shared /\ job'[v].token = job[v].token
      BY <2>2, <1>1, <1>3, <1>5 DEF OneJob
    <3>2. /\ \A u \in Workers \ {v} : d \notin Paid(u) /\ ~MaySpend(u, d)
          /\ \A t \in Tokens : token[t] = d => t = job[v].token
          /\ \A b \in bought : d \notin b.codes
      BY <3>1 DEF Money, PaidAlone
    <3>3. d \notin Paid(w)'
      BY <2>2, <3>2
    <3> QED
      BY <3>1, <3>2, <3>3, <1>1, <1>2
  <2> QED
    BY <2>1, <2>2
<1>8. BoughtAlone'
  BY <1>2, <1>3, <1>5 DEF Money, BoughtAlone
<1>9. OneRecoveryUnlessHeld'
  BY <1>3 DEF Money, OneRecoveryUnlessHeld
<1> QED
  BY <1>4, <1>7, <1>8, <1>9 DEF Money

\* What was paid becomes the price of the new session; the token is gone.
LEMMA PaysOff ==
  ASSUME TypeOK, Money, NEW w \in Workers, OneJob(w), Paid(w)' = {},
         \A c \in Codes : ~MaySpend(w, c)', token[job[w].token] = None,
         NEW b, b.codes = Paid(w), bought' = bought \cup {b}, TokensDropped',
         UNCHANGED <<spent, shared, token>>
  PROVE  Money'
<1>1. \A v \in Workers \ {w} : Paid(v)' = Paid(v)
  BY DEF OneJob, Paid
<1>2. \A v \in Workers : Paid(v)' \subseteq Paid(v)
  BY <1>1
<1>3. PaidIsSpent'
  BY <1>2 DEF Money, PaidIsSpent
<1>4. \A v \in Workers, c \in Codes : MaySpend(v, c)' => v # w /\ MaySpend(v, c)
  BY DEF OneJob, MaySpend, Paid
<1>5. /\ \A v \in Workers : Paid(v) \subseteq Codes
      /\ \A a \in bought : a.codes \subseteq Codes
      /\ None \notin Codes
  BY PaidAreCodes
<1>6. PaidAlone'
  <2> SUFFICES ASSUME NEW v \in Workers, v # w, NEW c \in Paid(v), c \notin shared
               PROVE  /\ \A u \in Workers \ {v} : c \notin Paid(u)' /\ ~MaySpend(u, c)'
                      /\ \A t \in Tokens : token'[t] = c => t = job'[v].token
                      /\ \A a \in bought' : c \notin a.codes
    BY <1>1 DEF PaidAlone
  <2>1. /\ \A u \in Workers \ {v} : c \notin Paid(u) /\ ~MaySpend(u, c)
        /\ \A t \in Tokens : token[t] = c => t = job[v].token
        /\ \A a \in bought : c \notin a.codes
    BY DEF Money, PaidAlone
  <2>2. job'[v].token = job[v].token
    BY DEF OneJob
  <2> QED
    BY <1>2, <1>4, <1>5, <2>1, <2>2
<1>7. BoughtAlone'
  <2>1. ASSUME NEW c \in b.codes, c \notin shared
        PROVE  (\A v \in Workers \ {w} : ~MaySpend(v, c)) /\ (\A t \in Tokens : token[t] # c)
    BY <2>1, <1>5 DEF Money, PaidAlone
  <2>2. ASSUME NEW c \in b.codes, c \notin shared
        PROVE  (\A v \in Workers : ~MaySpend(v, c)') /\ (\A t \in Tokens : token'[t] # c)
    BY <2>1, <2>2, <1>4, <1>5
  <2>3. ASSUME NEW a \in bought, NEW c \in a.codes, c \notin shared
        PROVE  (\A v \in Workers : ~MaySpend(v, c)') /\ (\A t \in Tokens : token'[t] # c)
    BY <2>3, <1>4, <1>5 DEF Money, BoughtAlone
  <2> QED
    BY <2>2, <2>3 DEF BoughtAlone
<1>8. OneRecoveryUnlessHeld'
  <2>1. \A a \in bought : a.codes \cap b.codes \subseteq shared
    BY DEF Money, PaidAlone
  <2> QED
    BY <2>1 DEF Money, OneRecoveryUnlessHeld
<1> QED
  BY <1>3, <1>6, <1>7, <1>8 DEF Money

-----------------------------------------------------------------------------
(* A request drops its token before its session.                            *)

LEMMA DroppedFrame ==
  ASSUME TypeOK, JobsCarry, TokensDropped, NEW w \in Workers, OneJob(w),
         minted \subseteq minted', \A t \in minted : token'[t] \in {token[t], None},
         job'[w].token # None => job'[w].token \in minted',
         job'[w].pc = "session" => token'[job'[w].token] = None
  PROVE  TokensDropped'
<1> SUFFICES ASSUME NEW v \in Workers
             PROVE  /\ job'[v].token # None => job'[v].token \in minted'
                    /\ job'[v].pc = "session" => token'[job'[v].token] = None
  BY DEF TokensDropped
<1>1. CASE v = w
  BY <1>1
<1>2. CASE v # w
  <2>1. /\ job'[v] = job[v] /\ (job[v].token # None => job[v].token \in minted)
        /\ job[v].pc = "session" => job[v].token # None /\ token[job[v].token] = None
    BY <1>2 DEF OneJob, TokensDropped, JobsCarry, Carries, Recovering
  <2> QED
    BY <2>1
<1> QED
  BY <1>1, <1>2

LEMMA DroppedStep ==
  ASSUME TypeOK, JobsCarry, TokensDropped, [Next]_vars
  PROVE  TokensDropped'
<1>0. \A w \in Workers : job[w].token # None => job[w].token \in minted
  BY DEF TokensDropped
<1>1. ASSUME NEW w \in Workers, NEW c \in Codes, VerifyCode(w, c)
      PROVE  TokensDropped'
  BY <1>1, VerifyEffect, DroppedFrame
<1>2. ASSUME NEW w \in Workers, MintToken(w)
      PROVE  TokensDropped'
  <2> PICK t \in Tokens \ minted :
        token' = [token EXCEPT ![t] = job[w].code] /\ minted' = minted \cup {t}
    BY <1>2, MintEffect
  <2>1. \A o \in minted : token'[o] = token[o]
    BY DEF TypeOK
  <2> QED
    BY <1>2, <2>1, MintEffect, IdleJob, DroppedFrame DEF Starts
<1>3. ASSUME NEW t \in Tokens, TokenExpires(t)
      PROVE  TokensDropped'
  <2>1. \A w \in Workers : job[w].pc = "session" => job[w].token \in Tokens
    BY <1>0 DEF JobsCarry, Carries, Recovering, TypeOK
  <2> QED
    BY <1>3, <2>1, ExpiresEffect DEF TokensDropped, TypeOK
<1>4. ASSUME NEW w \in Workers, NEW t \in Tokens, NEW codes \in SUBSET Codes,
             Recover(w, t, codes)
      PROVE  TokensDropped'
  <2>1. t \in minted
    BY <1>4, RecoverEffect DEF TypeOK
  <2> QED
    BY <1>4, <2>1, RecoverEffect, DroppedFrame
\* a request on its way keeps its token and is not at its session yet
<1>5. ASSUME NEW w \in Workers, OneJob(w), Kept(w), job'[w].pc # "session",
             UNCHANGED <<token, minted>>
      PROVE  TokensDropped'
  BY <1>0, <1>5, DroppedFrame DEF Kept
<1>6. ASSUME NEW w \in Workers,
             \/ Consume(w) \/ ConsumeMore(w) \/ RevokeRead(w) \/ RevokeOne(w)
             \/ CreateSession(w) \/ MarkMethod(w)
      PROVE  TokensDropped'
  BY <1>5, <1>6, ConsumeEffect, ConsumeMoreEffect, RevokeReadEffect, RevokeOneEffect,
     SessionEffect, MarkEffect DEF Moves
<1>9. ASSUME NEW w \in Workers, DropToken(w)
      PROVE  TokensDropped'
  <2>1. job[w].token \in Tokens
    BY <1>0, <1>9, DropEffect DEF JobsCarry, Carries, Recovering, TypeOK
  <2>2. token' = [token EXCEPT ![job[w].token] = None] /\ OneJob(w) /\ Kept(w) /\ minted' = minted
    BY <1>9, DropEffect DEF Moves
  <2>3. (\A t \in minted : token'[t] \in {token[t], None}) /\ token'[job[w].token] = None
    BY <2>1, <2>2 DEF TypeOK
  <2> QED
    BY <1>0, <2>2, <2>3, DroppedFrame DEF Kept
<1>10. ASSUME NEW w \in Workers, Starts(w, Idle), UNCHANGED <<token, minted>>
       PROVE  TokensDropped'
  BY <1>10, IdleJob, DroppedFrame DEF Starts
<1>12. ASSUME NEW w \in Workers, Answer(w) \/ HandlerFails(w) PROVE TokensDropped'
  BY <1>10, <1>12, AnswerEffect, FailsEffect
<1>13. ASSUME NEW k \in Passkeys, RegisterPasskey(k)
      PROVE  TokensDropped'
  BY <1>13, RegisterEffect DEF TokensDropped
<1>14. ASSUME NEW w \in Workers, NEW g \in Gens, Enroll(w, g)
      PROVE  TokensDropped'
  BY <1>14, EnrollEffect, DroppedFrame
<1>15. ASSUME NEW w \in Workers, InsertCode(w)
      PROVE  TokensDropped'
  BY <1>5, <1>10, <1>15, InsertEffect DEF Moves
<1>17. CASE UNCHANGED vars
  BY <1>17 DEF vars, issue, sessions, TokensDropped
<1>18. ASSUME NEW w \in Workers, NEW t \in Tokens,
              \/ RecoverByFace(w, t)
              \/ \E codes \in SUBSET Codes : RecoverByCodes(w, t, codes)
       PROVE  TokensDropped'
  BY <1>18, <1>4, RecoverCases
<1> QED
  BY <1>1, <1>2, <1>3, <1>6, <1>9, <1>12, <1>13, <1>14, <1>15, <1>17, <1>18
     DEF Next, Handler

-----------------------------------------------------------------------------
LEMMA PaidStep ==
  ASSUME TypeOK, JobsCarry, Money, [Next]_vars
  PROVE  Money'
<1>0. TokensDropped'
  BY DroppedStep DEF Money
\* a request that neither pays, holds nor mints afterwards, beside the tokens there are
<1>20. ASSUME NEW w \in Workers, OneJob(w), Paid(w)' = {},
              \A c \in Codes : MaySpend(w, c)' => Free(c),
              UNCHANGED <<token, spent, bought, shared>>
       PROVE  Money'
  <2>1. TokensFollow
    BY <1>20 DEF TokensFollow
  <2> QED
    BY <1>0, <1>20, <2>1, PaysNoMore
\* one that has paid and goes on
<1>21. ASSUME NEW w \in Workers, OneJob(w), Kept(w), Paid(w)' = Paid(w),
              job'[w].pc \notin {"mint", "consume", "consume_more"}, TokensFollow,
              UNCHANGED <<spent, bought, shared>>
       PROVE  Money'
  <2>1. \A c \in Codes : ~ MaySpend(w, c)'
    BY <1>21 DEF MaySpend
  <2> QED
    BY <1>0, <1>21, <2>1, PaysNoMore DEF Kept
<1>22. ASSUME NEW w \in Workers, Starts(w, Idle)
       PROVE  Paid(w)' = {} /\ \A c \in Codes : ~ MaySpend(w, c)'
  BY <1>22, IdleJob DEF Starts, Paid, MaySpend
<1>1. ASSUME NEW w \in Workers, NEW c \in Codes, VerifyCode(w, c)
      PROVE  Money'
  <2>1. Paid(w)' = {} /\ \A d \in Codes : MaySpend(w, d)' => d = c
    BY <1>1, VerifyEffect DEF Paid, MaySpend
  <2>2. Free(c)
    BY <1>1, VerifyEffect, UnspentIsFree DEF Valid
  <2> QED
    BY <1>1, <1>20, <2>1, <2>2, VerifyEffect
<1>2. ASSUME NEW w \in Workers, MintToken(w)
      PROVE  Money'
  <2> PICK t \in Tokens \ minted : token' = [token EXCEPT ![t] = job[w].code]
    BY <1>2, MintEffect
  <2>1. TokensFollow
    BY <1>2, MintEffect DEF TokensFollow, TypeOK
  <2> QED
    BY <1>0, <1>2, <1>22, <2>1, MintEffect, PaysNoMore DEF Starts
<1>3. ASSUME NEW t \in Tokens, TokenExpires(t)
      PROVE  Money'
  <2>1. \A o \in Tokens : token'[o] \in {token[o], None}
    BY <1>3, ExpiresEffect DEF TypeOK
  <2>2. /\ \A w \in Workers : Paid(w) \subseteq Codes
        /\ \A b \in bought : b.codes \subseteq Codes
        /\ None \notin Codes
    BY PaidAreCodes
  <2>3. /\ \A w \in Workers : Paid(w)' = Paid(w)
        /\ \A w \in Workers, c \in Codes : MaySpend(w, c)' = MaySpend(w, c)
        /\ UNCHANGED <<job, spent, bought, shared>>
    BY <1>3, ExpiresEffect DEF Paid, MaySpend
  <2>4. PaidAlone'
    BY <2>1, <2>2, <2>3 DEF Money, PaidAlone
  <2>5. BoughtAlone'
    BY <2>1, <2>2, <2>3 DEF Money, BoughtAlone
  <2> QED
    BY <1>0, <2>3, <2>4, <2>5 DEF Money, PaidIsSpent, OneRecoveryUnlessHeld
<1>4. ASSUME NEW w \in Workers, NEW t \in Tokens, NEW codes \in SUBSET Codes,
             Recover(w, t, codes),
             \A c \in codes : Valid(c)
      PROVE  Money'
  <2>1. /\ OneJob(w) /\ job'[w].pc = "consume"
        /\ \A v \in Workers : job[v].token = t => token[t] \in shared'
        /\ shared \subseteq shared' /\ UNCHANGED <<token, spent, bought>>
    BY <1>4, RecoverEffect
  <2>2. Paid(w)' = {} /\ \A c \in Codes : MaySpend(w, c)' => c \in codes \cup {token[t]}
    BY <1>4, <2>1, RecoverHolds DEF Paid, MaySpend
  <2>3. \A c \in codes : Free(c)
    BY <1>4, UnspentIsFree DEF Valid
  \* a token for a code paid with is the payer's
  <2>4. Free(token[t]) \/ token[t] \in shared'
    <3>1. \A v \in Workers : token[t] \in Paid(v) \ shared => t = job[v].token
      BY DEF Money, PaidAlone
    <3>2. \A b \in bought : token[t] \in b.codes => token[t] \in shared
      BY DEF Money, BoughtAlone
    <3> QED
      BY <2>1, <3>1, <3>2 DEF Free
  <2>5. TokensFollow
    BY <2>1 DEF TokensFollow
  <2> QED
    BY <1>0, <2>1, <2>2, <2>3, <2>4, <2>5, PaysNoMore
<1>5. ASSUME NEW w \in Workers, Consume(w)
      PROVE  Money'
  <2>1. Carries(w) /\ job[w].pc = "consume"
    BY <1>5, ConsumeEffect DEF JobsCarry
  <2>2. Paid(w)' \subseteq {job[w].code}
    BY <1>5, <2>1, ConsumeEffect DEF Paid, Moves, Kept, Carries
  <2>3. job[w].code \in rows /\ MaySpend(w, job[w].code)
    BY <2>1 DEF Carries, MaySpend, Paid, Recovering
  <2>4. \A d \in Codes : MaySpend(w, d)' => MaySpend(w, d)
    BY <1>5, <2>1, ConsumeEffect DEF MaySpend, Paid, Moves, Kept
  <2>5. OneJob(w) /\ job'[w].token = job[w].token /\ Nullify(w, job[w].code)
        /\ UNCHANGED <<token, bought>>
    BY <1>5, ConsumeEffect DEF Moves, Kept
  <2> QED
    BY <1>0, <2>2, <2>3, <2>4, <2>5, PaysOne
<1>6. ASSUME NEW w \in Workers, ConsumeMore(w)
      PROVE  Money'
  <2> PICK c \in job[w].due :
        /\ Nullify(w, c)
        /\ Moves(w, IF job[w].due = {c} THEN "revoke_read" ELSE "consume_more",
                 job[w].due \ {c}, job[w].keys, job[w].sid)
    BY <1>6, ConsumeMoreEffect
  <2>1. Carries(w) /\ job[w].pc = "consume_more"
    BY <1>6, ConsumeMoreEffect DEF JobsCarry
  <2>2. Paid(w) = (job[w].codes \ job[w].due) \cup {job[w].code}
    BY <2>1 DEF Paid
  <2>3. Paid(w)' \subseteq Paid(w) \cup {c}
    BY <2>1, <2>2 DEF Paid, Moves, Kept
  <2>4. c \in rows /\ (MaySpend(w, c) \/ c \in Paid(w))
    BY <2>1 DEF Carries, MaySpend, Recovering
  <2>5. \A d \in Codes : MaySpend(w, d)' => MaySpend(w, d)
    BY <2>1 DEF MaySpend, Paid, Moves, Kept
  <2>6. OneJob(w) /\ job'[w].token = job[w].token /\ UNCHANGED <<token, bought>>
    BY <1>6, ConsumeMoreEffect DEF Moves, Kept
  <2> QED
    BY <1>0, <2>3, <2>4, <2>5, <2>6, PaysOne
<1>7. ASSUME NEW w \in Workers, RevokeRead(w) \/ RevokeOne(w)
      PROVE  Money'
  <2>1. /\ Paid(w)' = Paid(w) /\ OneJob(w) /\ Kept(w)
        /\ job'[w].pc \notin {"mint", "consume", "consume_more"}
        /\ UNCHANGED <<token, spent, bought, shared>>
    BY <1>7, RevokeReadEffect, RevokeOneEffect DEF Paid, Moves, Kept
  <2> QED
    BY <1>21, <2>1 DEF TokensFollow
<1>9. ASSUME NEW w \in Workers, DropToken(w)
      PROVE  Money'
  <2>1. /\ Paid(w)' = Paid(w) /\ OneJob(w) /\ Kept(w)
        /\ job'[w].pc \notin {"mint", "consume", "consume_more"}
        /\ UNCHANGED <<spent, bought, shared>>
    BY <1>9, DropEffect DEF Paid, Moves, Kept
  <2>2. TokensFollow
    BY <1>9, DropEffect DEF TokensFollow, TypeOK
  <2> QED
    BY <1>21, <2>1, <2>2
<1>10. ASSUME NEW w \in Workers, CreateSession(w)
      PROVE  Money'
  <2> PICK s \in Sids \ sids :
        /\ bought' = bought \cup {[sid |-> s, codes |-> job[w].codes,
                                   known |-> job[w].known, face |-> job[w].face]}
        /\ Moves(w, IF job[w].face THEN "answer" ELSE "mark", job[w].due,
                 job[w].keys, s)
    BY <1>10, SessionEffect
  <2>1. Paid(w) = job[w].codes
    BY <1>10, SessionEffect DEF Paid
  <2>2. Paid(w)' = {} /\ \A c \in Codes : ~ MaySpend(w, c)'
    BY DEF Paid, MaySpend, Moves
  <2>3. token[job[w].token] = None /\ UNCHANGED <<spent, shared, token>>
    BY <1>10, SessionEffect DEF Money, TokensDropped
  <2> QED
    BY <1>0, <2>1, <2>2, <2>3, PaysOff DEF Moves
<1>11. ASSUME NEW w \in Workers, MarkMethod(w)
      PROVE  Money'
  <2>1. Paid(w)' = {} /\ OneJob(w) /\ \A c \in Codes : ~ MaySpend(w, c)'
    BY <1>11, MarkEffect DEF Paid, MaySpend, Moves
  <2> QED
    BY <1>11, <1>20, <2>1, MarkEffect
<1>12. ASSUME NEW w \in Workers, Answer(w)
      PROVE  Money'
  BY <1>12, <1>20, <1>22, AnswerEffect DEF Starts
<1>13. ASSUME NEW k \in Passkeys, RegisterPasskey(k)
      PROVE  Money'
  BY <1>0, <1>13, RegisterEffect DEF Money, PaidIsSpent, PaidAlone, BoughtAlone,
     OneRecoveryUnlessHeld, Paid, MaySpend
<1>14. ASSUME NEW w \in Workers, NEW g \in Gens, Enroll(w, g)
      PROVE  Money'
  <2>1. Paid(w)' = {} /\ \A c \in Codes : ~ MaySpend(w, c)'
    BY <1>14, EnrollEffect DEF Paid, MaySpend
  <2> QED
    BY <1>14, <1>20, <2>1, EnrollEffect
<1>15. ASSUME NEW w \in Workers, InsertCode(w)
      PROVE  Money'
  <2>1. Starts(w, Idle) \/ \E due : Moves(w, "issue", due, job[w].keys, job[w].sid)
    BY <1>15, InsertEffect
  <2>2. Paid(w)' = {} /\ OneJob(w) /\ \A c \in Codes : ~ MaySpend(w, c)'
    BY <2>1, IdleJob DEF Paid, MaySpend, Starts, Moves
  <2> QED
    BY <1>15, <1>20, <2>2, InsertEffect
<1>16. ASSUME NEW w \in Workers, HandlerFails(w)
      PROVE  Money'
  BY <1>16, <1>20, <1>22, FailsEffect DEF Starts
<1>17. CASE UNCHANGED vars
  BY <1>17 DEF vars, issue, sessions, Money, PaidIsSpent, PaidAlone, BoughtAlone,
     TokensDropped, OneRecoveryUnlessHeld, Paid, MaySpend
<1>18. ASSUME NEW w \in Workers, NEW t \in Tokens,
              \/ RecoverByFace(w, t)
              \/ \E codes \in SUBSET Codes : RecoverByCodes(w, t, codes)
       PROVE  Money'
  BY <1>18, <1>4, RecoverCases
<1> QED
  BY <1>1, <1>2, <1>3, <1>5, <1>6, <1>7, <1>9, <1>10, <1>11, <1>12, <1>13,
     <1>14, <1>15, <1>16, <1>17, <1>18 DEF Next, Handler

-----------------------------------------------------------------------------
(* What happens to the old passkeys.                                        *)

Ends == OldPasskeysEnd /\ \A w \in Workers : Revokes(w)

\* Revocations last, so only the request that moves has to answer for it.
LEMMA RevokesOthers ==
  ASSUME Ends, revoked \subseteq revoked', bought' = bought,
         NEW w \in Workers, OneJob(w), Revokes(w)'
  PROVE  Ends'
<1>1. ASSUME NEW v \in Workers PROVE Revokes(v)'
  <2>1. CASE v # w
    BY <2>1 DEF OneJob, Revokes, Ends
  <2> QED
    BY <2>1
<1> QED
  BY <1>1 DEF Ends, OldPasskeysEnd

LEMMA RevokeStep ==
  ASSUME TypeOK, JobsCarry, Ends, [Next]_vars
  PROVE  Ends'
<1>1. ASSUME NEW w \in Workers, NEW c \in Codes, VerifyCode(w, c)
      PROVE  Ends'
  <2>1. Revokes(w)'
    BY <1>1, VerifyEffect, IdleJob DEF Revokes, Starts
  <2> QED
    BY <1>1, <2>1, VerifyEffect, RevokesOthers DEF Starts
<1>2. ASSUME NEW w \in Workers, MintToken(w)
      PROVE  Ends'
  <2>1. Revokes(w)'
    BY <1>2, MintEffect, IdleJob DEF Revokes, Starts
  <2> QED
    BY <1>2, <2>1, MintEffect, RevokesOthers DEF Starts
<1>3. ASSUME NEW t \in Tokens, TokenExpires(t)
      PROVE  Ends'
  BY <1>3, ExpiresEffect DEF Ends, OldPasskeysEnd, Revokes
<1>4. ASSUME NEW w \in Workers, NEW t \in Tokens, NEW codes \in SUBSET Codes,
             Recover(w, t, codes), \A c \in codes : Valid(c)
      PROVE  Ends'
  <2>1. /\ job'[w].pc = "consume" /\ OneJob(w)
        /\ UNCHANGED <<revoked, bought>>
    BY <1>4, RecoverEffect
  <2>2. Revokes(w)'
    BY <2>1 DEF Revokes
  <2> QED
    BY <2>1, <2>2, RevokesOthers
<1>5. ASSUME NEW w \in Workers, Consume(w)
      PROVE  Ends'
  <2>1. Revokes(w)'
    BY <1>5, ConsumeEffect, IdleJob DEF Revokes, Moves
  <2> QED
    BY <1>5, <2>1, ConsumeEffect, RevokesOthers DEF Moves
<1>6. ASSUME NEW w \in Workers, ConsumeMore(w)
      PROVE  Ends'
  <2>1. Revokes(w)'
    BY <1>6, ConsumeMoreEffect, IdleJob DEF Revokes, Moves
  <2> QED
    BY <1>6, <2>1, ConsumeMoreEffect, RevokesOthers DEF Moves
<1>7. ASSUME NEW w \in Workers, RevokeRead(w)
      PROVE  Ends'
  <2>1. job[w].known \subseteq passkeys
    BY DEF JobsCarry, Carries
  <2>2. Revokes(w)'
    BY <1>7, <2>1, RevokeReadEffect DEF Revokes, Moves, Kept
  <2> QED
    BY <1>7, <2>2, RevokeReadEffect, RevokesOthers DEF Moves
<1>8. ASSUME NEW w \in Workers, RevokeOne(w)
      PROVE  Ends'
  <2>1. job[w].known \subseteq revoked \cup job[w].keys
    BY <1>8, RevokeOneEffect DEF Ends, Revokes
  <2>2. Revokes(w)'
    BY <1>8, <2>1, RevokeOneEffect DEF Revokes, Moves, Kept
  <2> QED
    BY <1>8, <2>2, RevokeOneEffect, RevokesOthers DEF Moves
<1>9. ASSUME NEW w \in Workers, DropToken(w)
      PROVE  Ends'
  <2>1. Revokes(w)'
    BY <1>9, DropEffect DEF Ends, Revokes, Moves, Kept
  <2> QED
    BY <1>9, <2>1, DropEffect, RevokesOthers DEF Moves
<1>10. ASSUME NEW w \in Workers, CreateSession(w)
      PROVE  Ends'
  <2> PICK s \in Sids \ sids :
        /\ bought' = bought \cup {[sid |-> s, codes |-> job[w].codes,
                                   known |-> job[w].known, face |-> job[w].face]}
        /\ Moves(w, IF job[w].face THEN "answer" ELSE "mark", job[w].due,
                 job[w].keys, s)
    BY <1>10, SessionEffect
  <2>1. job[w].known \subseteq revoked /\ revoked' = revoked
    BY <1>10, SessionEffect DEF Ends, Revokes
  <2>2. OldPasskeysEnd'
    BY <2>1 DEF Ends, OldPasskeysEnd
  <2>3. Revokes(w)'
    BY DEF Revokes, Moves
  <2>4. \A v \in Workers \ {w} : Revokes(v)'
    BY <2>1 DEF Ends, Revokes, Moves, OneJob
  <2> QED
    BY <2>2, <2>3, <2>4 DEF Ends
<1>11. ASSUME NEW w \in Workers, MarkMethod(w)
      PROVE  Ends'
  <2>1. Revokes(w)'
    BY <1>11, MarkEffect, IdleJob DEF Revokes, Moves
  <2> QED
    BY <1>11, <2>1, MarkEffect, RevokesOthers DEF Moves
<1>12. ASSUME NEW w \in Workers, Answer(w)
      PROVE  Ends'
  <2>1. Revokes(w)'
    BY <1>12, AnswerEffect, IdleJob DEF Revokes, Starts
  <2> QED
    BY <1>12, <2>1, AnswerEffect, RevokesOthers DEF Starts
<1>13. ASSUME NEW k \in Passkeys, RegisterPasskey(k)
      PROVE  Ends'
  BY <1>13, RegisterEffect DEF Ends, OldPasskeysEnd, Revokes
<1>14. ASSUME NEW w \in Workers, NEW g \in Gens, Enroll(w, g)
      PROVE  Ends'
  <2>1. Revokes(w)'
    BY <1>14, EnrollEffect, IdleJob DEF Revokes, Starts
  <2> QED
    BY <1>14, <2>1, EnrollEffect, RevokesOthers DEF Starts
<1>15. ASSUME NEW w \in Workers, InsertCode(w)
      PROVE  Ends'
  <2>1. Starts(w, Idle) \/ \E due : Moves(w, "issue", due, job[w].keys, job[w].sid)
    BY <1>15, InsertEffect
  <2>2. Revokes(w)' /\ OneJob(w)
    BY <2>1, IdleJob DEF Revokes, Starts, Moves
  <2> QED
    BY <1>15, <2>2, InsertEffect, RevokesOthers
<1>16. ASSUME NEW w \in Workers, HandlerFails(w)
      PROVE  Ends'
  <2>1. Revokes(w)'
    BY <1>16, FailsEffect, IdleJob DEF Revokes, Starts
  <2> QED
    BY <1>16, <2>1, FailsEffect, RevokesOthers DEF Starts
<1>17. CASE UNCHANGED vars
  BY <1>17 DEF vars, issue, sessions, Ends, OldPasskeysEnd, Revokes
<1>18. ASSUME NEW w \in Workers, NEW t \in Tokens,
              \/ RecoverByFace(w, t)
              \/ \E codes \in SUBSET Codes : RecoverByCodes(w, t, codes)
       PROVE  Ends'
  BY <1>18, <1>4, RecoverCases
<1> QED
  BY <1>1, <1>2, <1>3, <1>5, <1>6, <1>7, <1>8, <1>9, <1>10, <1>11, <1>12, <1>13,
     <1>14, <1>15, <1>16, <1>17, <1>18 DEF Next, Handler

-----------------------------------------------------------------------------
(* Which sessions are marked.                                               *)

Marked == CodesAreMarked /\ MarksMeanCodes /\ \A w \in Workers : Marks(w)

LEMMA MarksOthers ==
  ASSUME Marked, UNCHANGED <<bought, marked, open>>, sids \subseteq sids',
         NEW w \in Workers, OneJob(w), Marks(w)'
  PROVE  Marked'
<1>1. ASSUME NEW v \in Workers PROVE Marks(v)'
  <2>1. CASE v # w
    BY <2>1 DEF OneJob, Marks, Marked
  <2> QED
    BY <2>1
<1> QED
  BY <1>1 DEF Marked, CodesAreMarked, MarksMeanCodes

LEMMA MarkStep ==
  ASSUME TypeOK, JobsCarry, Marked, [Next]_vars
  PROVE  Marked'
<1>1. ASSUME NEW w \in Workers, NEW c \in Codes, VerifyCode(w, c)
      PROVE  Marked'
  <2>1. Marks(w)'
    BY <1>1, VerifyEffect, IdleJob DEF Marks, Starts
  <2> QED
    BY <1>1, <2>1, VerifyEffect, MarksOthers DEF Starts
<1>2. ASSUME NEW w \in Workers, MintToken(w)
      PROVE  Marked'
  <2>1. Marks(w)'
    BY <1>2, MintEffect, IdleJob DEF Marks, Starts
  <2> QED
    BY <1>2, <2>1, MintEffect, MarksOthers DEF Starts
<1>3. ASSUME NEW t \in Tokens, TokenExpires(t)
      PROVE  Marked'
  BY <1>3, ExpiresEffect DEF Marked, CodesAreMarked, MarksMeanCodes, Marks
<1>4. ASSUME NEW w \in Workers, NEW t \in Tokens, NEW codes \in SUBSET Codes,
             Recover(w, t, codes), \A c \in codes : Valid(c)
      PROVE  Marked'
  <2>1. Marks(w)'
    BY <1>4, RecoverEffect, IdleJob DEF Marks, Starts
  <2> QED
    BY <1>4, <2>1, RecoverEffect, MarksOthers DEF Starts
<1>5. ASSUME NEW w \in Workers, Consume(w)
      PROVE  Marked'
  <2>1. Marks(w)'
    BY <1>5, ConsumeEffect, IdleJob DEF Marks, Moves
  <2> QED
    BY <1>5, <2>1, ConsumeEffect, MarksOthers DEF Moves
<1>6. ASSUME NEW w \in Workers, ConsumeMore(w)
      PROVE  Marked'
  <2>1. Marks(w)'
    BY <1>6, ConsumeMoreEffect, IdleJob DEF Marks, Moves
  <2> QED
    BY <1>6, <2>1, ConsumeMoreEffect, MarksOthers DEF Moves
<1>7. ASSUME NEW w \in Workers, RevokeRead(w)
      PROVE  Marked'
  <2>1. Marks(w)'
    BY <1>7, RevokeReadEffect, IdleJob DEF Marks, Moves
  <2> QED
    BY <1>7, <2>1, RevokeReadEffect, MarksOthers DEF Moves
<1>8. ASSUME NEW w \in Workers, RevokeOne(w)
      PROVE  Marked'
  <2>1. Marks(w)'
    BY <1>8, RevokeOneEffect, IdleJob DEF Marks, Moves
  <2> QED
    BY <1>8, <2>1, RevokeOneEffect, MarksOthers DEF Moves
<1>9. ASSUME NEW w \in Workers, DropToken(w)
      PROVE  Marked'
  <2>1. Marks(w)'
    BY <1>9, DropEffect, IdleJob DEF Marks, Moves
  <2> QED
    BY <1>9, <2>1, DropEffect, MarksOthers DEF Moves
<1>10. ASSUME NEW w \in Workers, CreateSession(w)
      PROVE  Marked'
  <2> PICK s \in Sids \ sids :
        /\ sids' = sids \cup {s}
        /\ bought' = bought \cup {[sid |-> s, codes |-> job[w].codes,
                                   known |-> job[w].known, face |-> job[w].face]}
        /\ Moves(w, IF job[w].face THEN "answer" ELSE "mark", job[w].due,
                 job[w].keys, s)
    BY <1>10, SessionEffect
  <2> DEFINE b == [sid |-> s, codes |-> job[w].codes, known |-> job[w].known,
                   face |-> job[w].face]
  <2>1. b.sid = s /\ b.face = job[w].face /\ bought' = bought \cup {b}
    OBVIOUS
  <2> HIDE DEF b
  <2>2. /\ UNCHANGED <<marked, open>> /\ s \notin marked /\ s \notin open /\ s # None
        /\ \A a \in bought : a.sid # s
    BY <1>10, SessionEffect, RecoveryAssumption DEF TypeOK, Marked, MarksMeanCodes
  <2>3. \A v \in Workers : job[v].sid # s
    BY <2>2 DEF JobsCarry, Carries
  <2>4. /\ job'[w].sid = s /\ job'[w].pc = IF job[w].face THEN "answer" ELSE "mark"
        /\ \A v \in Workers \ {w} : job'[v] = job[v]
    BY DEF Moves, OneJob
  <2>5. CodesAreMarked'
    BY <2>1, <2>2 DEF Marked, CodesAreMarked
  <2>6. MarksMeanCodes'
    BY <2>1, <2>2 DEF Marked, MarksMeanCodes
  <2>7. Marks(w)'
    BY <2>1, <2>2, <2>4 DEF Marks
  <2>8. ASSUME NEW v \in Workers \ {w} PROVE Marks(v)'
    <3>1. Marks(v) /\ job'[v] = job[v] /\ job[v].sid # s
      BY <2>3, <2>4, <2>8 DEF Marked
    <3> QED
      BY <2>1, <2>2, <3>1 DEF Marks
  <2> QED
    BY <2>5, <2>6, <2>7, <2>8 DEF Marked
<1>11. ASSUME NEW w \in Workers, MarkMethod(w)
      PROVE  Marked'
  <2>1. /\ job[w].pc = "mark" /\ marked' = marked \cup {job[w].sid}
        /\ UNCHANGED <<sids, open, bought>>
        /\ job'[w].pc = "answer" /\ job'[w].sid = job[w].sid
        /\ \A v \in Workers \ {w} : job'[v] = job[v]
    BY <1>11, MarkEffect DEF Moves, OneJob
  <2>2. Marks(w)
    BY DEF Marked
  <2>3. \A b \in bought : b.sid \in marked' => ~b.face
    BY <2>1, <2>2 DEF Marked, MarksMeanCodes, Marks
  <2>4. MarksMeanCodes' /\ CodesAreMarked'
    BY <2>1, <2>3 DEF Marked, MarksMeanCodes, CodesAreMarked
  <2>5. Marks(w)'
    BY <2>1, <2>2 DEF Marks
  <2>6. \A v \in Workers \ {w} : Marks(v)'
    BY <2>1, <2>3 DEF Marked, Marks
  <2> QED
    BY <2>4, <2>5, <2>6 DEF Marked
<1>12. ASSUME NEW w \in Workers, Answer(w)
      PROVE  Marked'
  <2>1. /\ job[w].pc = "answer" /\ open' = open \cup {job[w].sid}
        /\ UNCHANGED <<sids, marked, bought>> /\ Starts(w, Idle)
    BY <1>12, AnswerEffect
  <2>2. Marks(w)
    BY DEF Marked
  <2>3. CodesAreMarked' /\ MarksMeanCodes'
    BY <2>1, <2>2 DEF Marked, CodesAreMarked, MarksMeanCodes, Marks
  <2>4. Marks(w)'
    BY <2>1, IdleJob DEF Marks, Starts
  <2>5. \A v \in Workers \ {w} : Marks(v)'
    BY <2>1 DEF Marked, Marks, Starts, OneJob
  <2> QED
    BY <2>3, <2>4, <2>5 DEF Marked
<1>13. ASSUME NEW k \in Passkeys, RegisterPasskey(k)
      PROVE  Marked'
  BY <1>13, RegisterEffect DEF Marked, CodesAreMarked, MarksMeanCodes, Marks
<1>14. ASSUME NEW w \in Workers, NEW g \in Gens, Enroll(w, g)
      PROVE  Marked'
  <2>1. Marks(w)'
    BY <1>14, EnrollEffect, IdleJob DEF Marks, Starts
  <2> QED
    BY <1>14, <2>1, EnrollEffect, MarksOthers DEF Starts
<1>15. ASSUME NEW w \in Workers, InsertCode(w)
      PROVE  Marked'
  <2>1. Starts(w, Idle) \/ \E due : Moves(w, "issue", due, job[w].keys, job[w].sid)
    BY <1>15, InsertEffect
  <2>2. Marks(w)' /\ OneJob(w)
    BY <2>1, IdleJob DEF Marks, Starts, Moves
  <2> QED
    BY <1>15, <2>2, InsertEffect, MarksOthers
<1>16. ASSUME NEW w \in Workers, HandlerFails(w)
      PROVE  Marked'
  <2>1. Marks(w)'
    BY <1>16, FailsEffect, IdleJob DEF Marks, Starts
  <2> QED
    BY <1>16, <2>1, FailsEffect, MarksOthers DEF Starts
<1>17. CASE UNCHANGED vars
  BY <1>17 DEF vars, issue, sessions, Marked, CodesAreMarked, MarksMeanCodes, Marks
<1>18. ASSUME NEW w \in Workers, NEW t \in Tokens,
              \/ RecoverByFace(w, t)
              \/ \E codes \in SUBSET Codes : RecoverByCodes(w, t, codes)
       PROVE  Marked'
  BY <1>18, <1>4, RecoverCases
<1> QED
  BY <1>1, <1>2, <1>3, <1>5, <1>6, <1>7, <1>8, <1>9, <1>10, <1>11, <1>12, <1>13,
     <1>14, <1>15, <1>16, <1>17, <1>18 DEF Next, Handler

-----------------------------------------------------------------------------
(* Codes out of use.                                                        *)

Stays(k) == Closed(k)' /\ Uses(k)' = Uses(k)

LEMMA ClosedOthers ==
  ASSUME NEW k, Closed(k), rows \subseteq rows', spent \subseteq spent',
         \A t \in Tokens : token'[t] # k,
         latest' = latest \/ latest' # GenOf[k] \/ k \in spent, bought' = bought,
         NEW w \in Workers, OneJob(w), k \notin job'[w].codes, job'[w].code # k,
         job'[w].gen # GenOf[k] \/ k \in spent
  PROVE  Stays(k)
<1>1. /\ k \in rows' /\ \A v \in Workers : k \notin job'[v].codes /\ job'[v].code # k
  BY DEF Closed, OneJob
<1>2. k \notin spent => \A v \in Workers : job'[v].gen # GenOf[k]
  BY DEF Closed, OneJob
<1>3. k \notin spent => GenOf[k] # latest'
  BY DEF Closed
<1>4. Closed(k)'
  BY <1>1, <1>2, <1>3 DEF Closed
<1> QED
  BY <1>4 DEF Stays, Uses

LEMMA ClosedStep ==
  ASSUME TypeOK, JobsCarry, NEW k \in Codes, Closed(k), [Next]_vars
  PROVE  Stays(k)
<1>1. ASSUME NEW w \in Workers, NEW c \in Codes, VerifyCode(w, c)
      PROVE  Stays(k)
  <2>1. c # k \/ k \notin rows \/ (k \notin spent /\ GenOf[k] = latest)
    BY <1>1, VerifyEffect DEF Valid
  <2>2. c # k /\ None # GenOf[k]
    BY <2>1, RecoveryAssumption DEF Closed
  <2> QED
    BY <1>1, <2>2, VerifyEffect, ClosedOthers DEF Closed
<1>2. ASSUME NEW w \in Workers, MintToken(w)
      PROVE  Stays(k)
  <2>1. Idle.codes = {} /\ Idle.code # k /\ Idle.gen # GenOf[k] /\ job[w].code # k
    BY IdleJob, RecoveryAssumption DEF Closed
  <2>2. \A t \in Tokens : token'[t] # k
    BY <1>2, <2>1, MintEffect DEF TypeOK, Closed
  <2> QED
    BY <1>2, <2>1, <2>2, MintEffect, ClosedOthers DEF Starts
<1>3. ASSUME NEW t \in Tokens, TokenExpires(t)
      PROVE  Stays(k)
  <2>1. \A s \in Tokens : token'[s] # k
    BY <1>3, ExpiresEffect, RecoveryAssumption DEF TypeOK, Closed
  <2> QED
    BY <1>3, <2>1, ExpiresEffect DEF Stays, Closed, Uses
<1>4. ASSUME NEW w \in Workers, NEW t \in Tokens, NEW codes \in SUBSET Codes,
             Recover(w, t, codes), \A c \in codes : Valid(c)
      PROVE  Stays(k)
  <2>1. token[t] # k /\ None # GenOf[k] /\ k \notin codes
    BY <1>4, RecoveryAssumption DEF Closed, Valid
  <2>2. k \notin job'[w].codes /\ job'[w].code # k
    BY <1>4, <2>1, RecoverHolds
  <2>3. /\ job'[w].gen = None /\ OneJob(w)
        /\ UNCHANGED <<rows, latest, spent, token, bought>>
    BY <1>4, RecoverEffect
  <2> QED
    BY <2>1, <2>2, <2>3, ClosedOthers DEF Closed
<1>5. ASSUME NEW w \in Workers, Consume(w)
      PROVE  Stays(k)
  <2>1. k \notin job[w].codes /\ job[w].code # k /\ (job[w].gen # GenOf[k] \/ k \in spent)
    BY DEF Closed
  <2> QED
    BY <1>5, <2>1, ConsumeEffect, NullifyEffect, ClosedOthers DEF Moves, Kept, Closed
<1>6. ASSUME NEW w \in Workers, ConsumeMore(w)
      PROVE  Stays(k)
  <2>1. k \notin job[w].codes /\ job[w].code # k /\ (job[w].gen # GenOf[k] \/ k \in spent)
    BY DEF Closed
  <2> QED
    BY <1>6, <2>1, ConsumeMoreEffect, NullifyEffect, ClosedOthers DEF Moves, Kept, Closed
<1>7. ASSUME NEW w \in Workers, RevokeRead(w)
      PROVE  Stays(k)
  <2>1. k \notin job[w].codes /\ job[w].code # k /\ (job[w].gen # GenOf[k] \/ k \in spent)
    BY DEF Closed
  <2> QED
    BY <1>7, <2>1, RevokeReadEffect, NullifyEffect, ClosedOthers DEF Moves, Kept, Closed
<1>8. ASSUME NEW w \in Workers, RevokeOne(w)
      PROVE  Stays(k)
  <2>1. k \notin job[w].codes /\ job[w].code # k /\ (job[w].gen # GenOf[k] \/ k \in spent)
    BY DEF Closed
  <2> QED
    BY <1>8, <2>1, RevokeOneEffect, NullifyEffect, ClosedOthers DEF Moves, Kept, Closed
<1>9. ASSUME NEW w \in Workers, DropToken(w)
      PROVE  Stays(k)
  <2>1. k \notin job[w].codes /\ job[w].code # k /\ (job[w].gen # GenOf[k] \/ k \in spent)
    BY DEF Closed
  <2>2. \A t \in Tokens : token'[t] # k
    BY <1>9, DropEffect, RecoveryAssumption DEF TypeOK, Closed
  <2> QED
    BY <1>9, <2>1, <2>2, DropEffect, ClosedOthers DEF Moves, Kept
<1>10. ASSUME NEW w \in Workers, CreateSession(w)
      PROVE  Stays(k)
  <2> PICK s \in Sids \ sids :
        /\ bought' = bought \cup {[sid |-> s, codes |-> job[w].codes,
                                   known |-> job[w].known, face |-> job[w].face]}
        /\ Moves(w, IF job[w].face THEN "answer" ELSE "mark", job[w].due,
                 job[w].keys, s)
    BY <1>10, SessionEffect
  <2>1. k \notin job[w].codes
    BY DEF Closed
  <2>2. Uses(k)' = Uses(k)
    BY <2>1 DEF Uses
  <2>3. Closed(k)'
    BY <1>10, SessionEffect DEF Closed, Moves, Kept, OneJob
  <2> QED
    BY <2>2, <2>3 DEF Stays
<1>11. ASSUME NEW w \in Workers, MarkMethod(w)
      PROVE  Stays(k)
  <2>1. k \notin job[w].codes /\ job[w].code # k /\ (job[w].gen # GenOf[k] \/ k \in spent)
    BY DEF Closed
  <2> QED
    BY <1>11, <2>1, MarkEffect, ClosedOthers DEF Moves, Kept, Closed
<1>12. ASSUME NEW w \in Workers, Answer(w)
      PROVE  Stays(k)
  <2>1. Idle.codes = {} /\ Idle.code # k /\ Idle.gen # GenOf[k]
    BY IdleJob, RecoveryAssumption
  <2> QED
    BY <1>12, <2>1, AnswerEffect, ClosedOthers DEF Starts, Closed
<1>13. ASSUME NEW p \in Passkeys, RegisterPasskey(p)
      PROVE  Stays(k)
  BY <1>13, RegisterEffect DEF Stays, Closed, Uses
<1>14. ASSUME NEW w \in Workers, NEW g \in Gens, Enroll(w, g)
      PROVE  Stays(k)
  <2>1. GenOf[k] \in begun /\ None # k
    BY RecoveryAssumption DEF TypeOK, Closed
  <2> QED
    BY <1>14, <2>1, EnrollEffect, ClosedOthers DEF Closed
<1>15. ASSUME NEW w \in Workers, InsertCode(w)
      PROVE  Stays(k)
  <2> PICK c \in job[w].due :
        /\ rows' = rows \cup {c}
        /\ \/ Starts(w, Idle)
           \/ Moves(w, "issue", job[w].due \ {c}, job[w].keys, job[w].sid)
    BY <1>15, InsertEffect
  <2>1. k \notin job[w].codes /\ job[w].code # k /\ (job[w].gen # GenOf[k] \/ k \in spent)
    BY DEF Closed
  <2>2. OneJob(w) /\ job'[w].code # k /\ k \notin job'[w].codes
        /\ (job'[w].gen # GenOf[k] \/ k \in spent)
    BY <2>1, IdleJob, RecoveryAssumption DEF Starts, Moves, Kept
  <2> QED
    BY <1>15, <2>1, <2>2, InsertEffect, ClosedOthers DEF Closed
<1>16. ASSUME NEW w \in Workers, HandlerFails(w)
      PROVE  Stays(k)
  <2>1. Idle.codes = {} /\ Idle.code # k /\ Idle.gen # GenOf[k]
    BY IdleJob, RecoveryAssumption
  <2> QED
    BY <1>16, <2>1, FailsEffect, ClosedOthers DEF Starts, Closed
<1>17. CASE UNCHANGED vars
  BY <1>17 DEF vars, issue, sessions, Stays, Closed, Uses
<1>18. ASSUME NEW w \in Workers, NEW t \in Tokens,
              \/ RecoverByFace(w, t)
              \/ \E codes \in SUBSET Codes : RecoverByCodes(w, t, codes)
       PROVE  Stays(k)
  BY <1>18, <1>4, RecoverCases
<1> QED
  BY <1>1, <1>2, <1>3, <1>5, <1>6, <1>7, <1>8, <1>9, <1>10, <1>11, <1>12, <1>13,
     <1>14, <1>15, <1>16, <1>17, <1>18 DEF Next, Handler

-----------------------------------------------------------------------------
(* The theorems.                                                            *)

LEMMA InvInit == Init => IInv
<1> SUFFICES ASSUME Init PROVE IInv
  OBVIOUS
<1>1. \A w \in Workers : job[w] = Idle
  BY DEF Init
<1>2. TypeOK
  <2>1. job \in [Workers -> Job]
    BY IdleJob DEF Init
  <2>2. faults \in 0..MaxFaults
    BY RecoveryAssumption DEF Init
  <2> QED
    BY <2>1, <2>2, RecoveryAssumption DEF Init, TypeOK
<1>3. JobsCarry
  BY <1>1, IdleJob DEF Init, JobsCarry, Carries, Recovering
<1>4. Money
  BY <1>1, IdleJob DEF Init, Money, PaidIsSpent, PaidAlone, BoughtAlone, TokensDropped,
     OneRecoveryUnlessHeld, Paid
<1>5. OldPasskeysEnd /\ \A w \in Workers : Revokes(w)
  BY <1>1, IdleJob DEF Init, OldPasskeysEnd, Revokes
<1>6. CodesAreMarked /\ MarksMeanCodes /\ \A w \in Workers : Marks(w)
  BY DEF Init, CodesAreMarked, MarksMeanCodes, Marks
<1> QED
  BY <1>2, <1>3, <1>4, <1>5, <1>6 DEF IInv, Money

LEMMA InvStep == IInv /\ [Next]_vars => IInv'
<1> SUFFICES ASSUME IInv, [Next]_vars PROVE IInv'
  OBVIOUS
<1>1. TypeOK /\ JobsCarry /\ Money /\ Ends /\ Marked
  BY DEF IInv, Money, Ends, Marked
<1>2. TypeOK' /\ JobsCarry' /\ Money' /\ Ends' /\ Marked'
  BY <1>1, TypeStep, CarryStep, PaidStep, RevokeStep, MarkStep
<1> QED
  BY <1>2 DEF IInv, Money, Ends, Marked

\* The inductive invariant holds in every reachable state of account recovery,
\* whatever overlaps and wherever a handler fails.
THEOREM RecoveryInductive == Spec => []IInv
BY InvInit, InvStep, PTL DEF Spec

\* verifyRecoveryCode and consumeRecoveryCode: a code buys two sessions only if, when
\* one recovery consumed it, another had found it good or had it in a token, or if two
\* used one token at once; a code consumed without such a claim buys nothing more.
THEOREM OneRecoveryUnlessHeldHolds == Spec => []OneRecoveryUnlessHeld
<1>1. IInv => OneRecoveryUnlessHeld
  BY DEF IInv
<1> QED
  BY <1>1, RecoveryInductive, PTL

\* revokeAllCredentialsForSubject: before a recovered session exists, every
\* passkey there when its recovery began is revoked.
THEOREM OldPasskeysEndHolds == Spec => []OldPasskeysEnd
<1>1. IInv => OldPasskeysEnd
  BY DEF IInv
<1> QED
  BY <1>1, RecoveryInductive, PTL

\* recovery_method: a session a browser has is marked exactly if it was bought
\* with codes.
THEOREM CodesAreMarkedHolds == Spec => []CodesAreMarked
<1>1. IInv => CodesAreMarked
  BY DEF IInv
<1> QED
  BY <1>1, RecoveryInductive, PTL

\* verifyRecoveryCode: a code used up or superseded that nobody holds stays so
\* and buys nothing any more.
THEOREM ClosedIsFinalHolds == Spec => ClosedIsFinal
<1>1. IInv /\ [Next]_vars
        => [\A c \in Codes : Closed(c) => Closed(c)' /\ Uses(c)' = Uses(c)]_vars
  BY ClosedStep DEF IInv, Stays
<1> QED
  BY <1>1, RecoveryInductive, PTL DEF Spec, ClosedIsFinal
=============================================================================
