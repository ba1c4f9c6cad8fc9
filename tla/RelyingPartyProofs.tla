------------------------- MODULE RelyingPartyProofs --------------------------
(***************************************************************************)
(* Proofs about an application and the codes it exchanges: AuthCode, for any *)
(* number of codes, clients, tokens, requests in flight and failures, and    *)
(* RelyingParty, for any number of accounts and tabs.                        *)
(***************************************************************************)
EXTENDS AuthCode, RelyingParty, TLAPS

-----------------------------------------------------------------------------
(* The code and its exchange.                                               *)

\* Every step moves at most one request; the tables grow as the actions say.
OneJob(w) == \A v \in Workers \ {w} : job'[v] = job[v]

LEMMA ReadEffect ==
  ASSUME TypeOK, NEW w \in Workers, NEW c \in Codes, NEW cl \in Clients,
         NEW proves \in BOOLEAN, ExchangeRead(w, c, cl, proves)
  PROVE  /\ code[c] = "fresh"
         /\ job'[w].pc = "mark" /\ job'[w].code = c /\ OneJob(w) /\ JobsOK'
         /\ UNCHANGED <<code, aged, access, refresh, revoked, answered, faults, raced>>
<1>1. job'[w] = [Idle EXCEPT !.pc = "mark", !.code = c] /\ OneJob(w)
  BY DEF ExchangeRead, TypeOK, JobsOK, OneJob
<1>2. job'[w] = [pc |-> "mark", code |-> c, token |-> NoCode]
  BY <1>1 DEF Idle
<1>3. job'[w] \in Job
  BY <1>2 DEF Job, Awaits
<1>4. job' \in [Workers -> Job]
  BY <1>1, <1>3 DEF ExchangeRead, TypeOK, JobsOK
<1>5. JobsOK'
  BY <1>1, <1>2, <1>4 DEF TypeOK, JobsOK, OneJob
<1> QED
  BY <1>1, <1>2, <1>5 DEF ExchangeRead

\* An EXCEPT of a job in flight that keeps its code is a job in flight.
LEMMA MoveJob ==
  ASSUME TypeOK, NEW w \in Workers, job[w].pc # "idle", NEW pc \in Awaits,
         NEW t \in Tokens \cup {NoCode}, pc \in {"refresh", "answer"} => t \in Tokens,
         job' = [job EXCEPT ![w] = [pc |-> pc, code |-> job[w].code, token |-> t]]
  PROVE  /\ job'[w].pc = pc /\ job'[w].code = job[w].code /\ job'[w].token = t
         /\ OneJob(w) /\ JobsOK'
<1>1. job[w].code \in Codes
  BY DEF TypeOK, JobsOK
<1>2. job'[w] = [pc |-> pc, code |-> job[w].code, token |-> t] /\ OneJob(w)
  BY DEF TypeOK, JobsOK, OneJob
<1>3. job'[w] \in Job
  BY <1>1, <1>2 DEF Job
<1>4. job' \in [Workers -> Job]
  BY <1>2, <1>3 DEF TypeOK, JobsOK
<1> QED
  BY <1>1, <1>2, <1>4 DEF TypeOK, JobsOK, OneJob

LEMMA MarkEffect ==
  ASSUME TypeOK, NEW w \in Workers, ExchangeMark(w)
  PROVE  /\ job[w].pc = "mark" /\ job[w].code \in Codes
         /\ job'[w].pc = "access" /\ job'[w].code = job[w].code /\ OneJob(w) /\ JobsOK'
         /\ code' = [code EXCEPT ![job[w].code] = "used"]
         /\ raced' \in {raced, raced \cup {job[w].code}}
         /\ \A v \in Workers \ {w} : job[v].pc = "mark" /\ job[v].code = job[w].code
              => job[w].code \in raced'
         /\ UNCHANGED <<aged, access, refresh, revoked, answered, faults>>
<1>1. job[w] \in Job /\ job[w].pc = "mark" /\ job[w].code \in Codes
  BY DEF TypeOK, JobsOK, ExchangeMark
<1>2. job[w].token \in Tokens \cup {NoCode}
  BY <1>1 DEF Job
<1>3. [job[w] EXCEPT !.pc = "access"]
        = [pc |-> "access", code |-> job[w].code, token |-> job[w].token]
  BY <1>1 DEF Job
<1>4. job' = [job EXCEPT ![w] = [pc |-> "access", code |-> job[w].code,
                                 token |-> job[w].token]]
  BY <1>3 DEF ExchangeMark
<1>5. /\ job'[w].pc = "access" /\ job'[w].code = job[w].code /\ OneJob(w) /\ JobsOK'
  BY <1>1, <1>2, <1>4, MoveJob DEF Awaits
<1>6. /\ raced' \in {raced, raced \cup {job[w].code}}
      /\ \A v \in Workers \ {w} : job[v].pc = "mark" /\ job[v].code = job[w].code
           => job[w].code \in raced'
  BY DEF ExchangeMark
<1> QED
  BY <1>1, <1>5, <1>6 DEF ExchangeMark

LEMMA AccessEffect ==
  ASSUME TypeOK, NEW w \in Workers, ExchangeAccess(w)
  PROVE  \E t \in Tokens :
         /\ access[t] = NoCode /\ access' = [access EXCEPT ![t] = job[w].code]
         /\ job[w].pc = "access" /\ job[w].code \in Codes
         /\ job'[w].pc = "refresh" /\ job'[w].code = job[w].code /\ job'[w].token = t
         /\ OneJob(w) /\ JobsOK'
         /\ UNCHANGED <<code, aged, refresh, revoked, answered, faults, raced>>
<1>1. job[w] \in Job /\ job[w].pc = "access" /\ job[w].code \in Codes
  BY DEF TypeOK, JobsOK, ExchangeAccess
<1> PICK t \in TokensOf(NoCode) :
      /\ access' = [access EXCEPT ![t] = job[w].code]
      /\ job' = [job EXCEPT ![w] = [pc |-> "refresh", code |-> @.code, token |-> t]]
  BY DEF ExchangeAccess
<1>2. t \in Tokens /\ access[t] = NoCode
  BY DEF TokensOf
<1>4. job' = [job EXCEPT ![w] = [pc |-> "refresh", code |-> job[w].code, token |-> t]]
  OBVIOUS
<1>5. /\ job'[w].pc = "refresh" /\ job'[w].code = job[w].code /\ job'[w].token = t
      /\ OneJob(w) /\ JobsOK'
  BY <1>1, <1>2, <1>4, MoveJob DEF Awaits
<1> QED
  BY <1>1, <1>2, <1>5 DEF ExchangeAccess

LEMMA RefreshEffect ==
  ASSUME TypeOK, NEW w \in Workers, ExchangeRefresh(w)
  PROVE  /\ job[w].pc = "refresh" /\ job[w].token \in Tokens /\ job[w].code \in Codes
         /\ job'[w].pc = "answer" /\ job'[w].code = job[w].code
         /\ job'[w].token = job[w].token
         /\ refresh' = refresh \cup {job[w].token}
         /\ OneJob(w) /\ JobsOK'
         /\ UNCHANGED <<code, aged, access, revoked, answered, faults, raced>>
<1>1. /\ job[w] \in Job /\ job[w].pc = "refresh" /\ job[w].token \in Tokens
      /\ job[w].code \in Codes
  BY DEF TypeOK, JobsOK, ExchangeRefresh
<1>2. [job[w] EXCEPT !.pc = "answer"]
        = [pc |-> "answer", code |-> job[w].code, token |-> job[w].token]
  BY <1>1 DEF Job
<1>3. job' = [job EXCEPT ![w] = [pc |-> "answer", code |-> job[w].code,
                                 token |-> job[w].token]]
  BY <1>2 DEF ExchangeRefresh
<1>4. /\ job'[w].pc = "answer" /\ job'[w].code = job[w].code
      /\ job'[w].token = job[w].token /\ OneJob(w) /\ JobsOK'
  BY <1>1, <1>3, MoveJob DEF Awaits
<1> QED
  BY <1>1, <1>4 DEF ExchangeRefresh

\* An exchange that ends, answered or failed, leaves its worker idle.
LEMMA EndEffect ==
  ASSUME TypeOK, NEW w \in Workers, ExchangeAnswer(w) \/ ExchangeFails(w)
  PROVE  /\ job'[w] = Idle /\ OneJob(w) /\ JobsOK'
         /\ UNCHANGED <<code, aged, access, refresh, revoked, raced>>
         /\ \/ /\ job[w].pc = "answer" /\ job[w].token \in Tokens
               /\ answered' = answered \cup {job[w].token} /\ faults' = faults
            \/ answered' = answered /\ faults' \in 0..MaxFaults
<1>1. job' = [job EXCEPT ![w] = Idle]
  BY DEF ExchangeAnswer, ExchangeFails
<1>2. job'[w] = Idle /\ OneJob(w) /\ job' \in [Workers -> Job]
  BY <1>1 DEF TypeOK, JobsOK, OneJob, Idle, Job
<1>3. JobsOK'
  BY <1>2 DEF TypeOK, JobsOK, OneJob, Idle
<1>4. ExchangeFails(w) => faults' \in 0..MaxFaults
  BY CodeAssumption DEF ExchangeFails, TypeOK
<1> QED
  BY <1>2, <1>3, <1>4 DEF ExchangeAnswer, ExchangeFails, TypeOK, JobsOK

\* The steps of other actors move no request.
Aside == (\E c \in Codes : IssueCode(c) \/ CodeExpires(c)) \/ (\E t \in Tokens : Revoke(t))

LEMMA AsideEffect ==
  ASSUME TypeOK, Aside
  PROVE  /\ UNCHANGED <<access, refresh, answered, job, faults, raced>>
         /\ \A c \in Codes : code[c] = "used" <=> code'[c] = "used"
         /\ \A c \in Codes : code[c] = "fresh" => code'[c] = "fresh"
         /\ code' \in [Codes -> {"none", "fresh", "used"}]
         /\ aged \subseteq aged' /\ aged' \subseteq Codes /\ revoked' \subseteq Tokens
BY DEF Aside, IssueCode, CodeExpires, Revoke, TypeOK

-----------------------------------------------------------------------------
LEMMA TypeInit == Init => TypeOK
BY CodeAssumption DEF Init, TypeOK, JobsOK, Job, Idle

LEMMA TypeStep == TypeOK /\ [Next]_vars => TypeOK'
<1> SUFFICES ASSUME TypeOK, [Next]_vars PROVE TypeOK'
  OBVIOUS
<1>1. ASSUME NEW w \in Workers, NEW c \in Codes, NEW cl \in Clients,
             NEW proves \in BOOLEAN, ExchangeRead(w, c, cl, proves)
      PROVE  TypeOK'
  BY <1>1, ReadEffect DEF TypeOK
<1>2. ASSUME NEW w \in Workers, ExchangeMark(w) PROVE TypeOK'
  BY <1>2, MarkEffect DEF TypeOK
<1>3. ASSUME NEW w \in Workers, ExchangeAccess(w) PROVE TypeOK'
  BY <1>3, AccessEffect DEF TypeOK
<1>4. ASSUME NEW w \in Workers, ExchangeRefresh(w) PROVE TypeOK'
  BY <1>4, RefreshEffect DEF TypeOK
<1>5. ASSUME NEW w \in Workers, ExchangeAnswer(w) \/ ExchangeFails(w) PROVE TypeOK'
  BY <1>5, EndEffect DEF TypeOK
<1>6. ASSUME Aside PROVE TypeOK'
  BY <1>6, AsideEffect DEF TypeOK, JobsOK
<1>7. CASE UNCHANGED vars
  BY <1>7 DEF vars, TypeOK, JobsOK
<1> QED
  BY <1>1, <1>2, <1>3, <1>4, <1>5, <1>6, <1>7 DEF Next, Exchange, Aside

-----------------------------------------------------------------------------
(* The inductive invariant, one lemma per action.                           *)

Parts == PastMark /\ OneClaim /\ AnswersComplete /\ SingleUseUnlessRaced

LEMMA ReadKeeps ==
  ASSUME TypeOK, Parts, NEW w \in Workers, NEW c \in Codes, NEW cl \in Clients,
         NEW proves \in BOOLEAN, ExchangeRead(w, c, cl, proves)
  PROVE  Parts'
<1>1. /\ job'[w].pc = "mark" /\ job'[w].code = c /\ code[c] = "fresh"
      /\ \A v \in Workers \ {w} : job'[v] = job[v]
      /\ UNCHANGED <<code, access, refresh, answered, raced>>
  BY ReadEffect DEF OneJob
<1>2. PastMark'
  BY <1>1 DEF Parts, PastMark, Awaits
<1>3. OneClaim'
  BY <1>1 DEF Parts, OneClaim, TokensOf
<1>4. AnswersComplete' /\ SingleUseUnlessRaced'
  BY <1>1 DEF Parts, AnswersComplete, SingleUseUnlessRaced, TokensOf
<1> QED
  BY <1>2, <1>3, <1>4 DEF Parts

LEMMA MarkKeeps ==
  ASSUME TypeOK, Parts, NEW w \in Workers, ExchangeMark(w)
  PROVE  Parts'
<1> PICK c \in Codes : c = job[w].code
  BY MarkEffect
<1>1. /\ job[w].pc = "mark" /\ job'[w].pc = "access" /\ job'[w].code = c
      /\ \A v \in Workers \ {w} : job'[v] = job[v]
      /\ code' = [code EXCEPT ![c] = "used"]
      /\ raced \subseteq raced' /\ raced' \subseteq raced \cup {c}
      /\ \A v \in Workers \ {w} : job[v].pc = "mark" /\ job[v].code = c => c \in raced'
      /\ UNCHANGED <<access, refresh, answered>>
  BY MarkEffect DEF OneJob
<1>2. \A d \in Codes : code[d] = "used" \/ d = c => code'[d] = "used"
  BY <1>1 DEF TypeOK
<1>3. PastMark'
  BY <1>1, <1>2 DEF Parts, PastMark, TypeOK, JobsOK, Awaits
\* A code that stays unraced was fresh, its only reader having passed the check: no
\* exchange is past it, no token exists.
<1>4. ASSUME c \notin raced'
      PROVE  /\ TokensOf(c) = {}
             /\ \A v \in Workers : job[v].pc = "access" => job[v].code # c
             /\ \A v \in Workers \ {w} : job[v].pc = "mark" => job[v].code # c
  <2>1. code[c] = "fresh"
    BY <1>1, <1>4 DEF Parts, OneClaim
  <2> QED
    BY <1>1, <1>4, <2>1 DEF Parts, AnswersComplete, PastMark, TokensOf, Awaits
<1>5. \A d \in Codes : TokensOf(d)' = TokensOf(d)
  BY <1>1 DEF TokensOf
<1>6. OneClaim'
  <2>1. ASSUME NEW d \in Codes \ raced', d # c
        PROVE  /\ d \notin raced
               /\ code'[d] = code[d]
               /\ \A v \in Workers : job'[v].code = d => job'[v] = job[v]
    BY <1>1, <2>1 DEF TypeOK
  <2>2. ASSUME NEW d \in Codes \ raced', d = c
        PROVE  \A v \in Workers :
                 /\ job'[v].pc = "access" /\ job'[v].code = d => v = w
                 /\ job'[v].pc = "mark" => job'[v].code # d
    BY <1>1, <1>4, <2>2
  <2> QED
    BY <1>4, <1>5, <2>1, <2>2 DEF Parts, OneClaim
<1>7. AnswersComplete'
  BY <1>1, <1>2 DEF Parts, AnswersComplete
<1>8. SingleUseUnlessRaced'
  BY <1>1, <1>5 DEF Parts, SingleUseUnlessRaced
<1> QED
  BY <1>3, <1>6, <1>7, <1>8 DEF Parts

LEMMA AccessKeeps ==
  ASSUME TypeOK, Parts, NEW w \in Workers, ExchangeAccess(w)
  PROVE  Parts'
<1> PICK c \in Codes : c = job[w].code
  BY AccessEffect
<1> PICK t \in Tokens :
      /\ access[t] = NoCode /\ access' = [access EXCEPT ![t] = c]
      /\ job[w].pc = "access"
      /\ job'[w].pc = "refresh" /\ job'[w].code = c /\ job'[w].token = t
      /\ \A v \in Workers \ {w} : job'[v] = job[v]
      /\ UNCHANGED <<code, refresh, answered, raced>>
  BY AccessEffect DEF OneJob
<1>1. /\ access'[t] = c
      /\ \A u \in Tokens \ {t} : access'[u] = access[u]
      /\ NoCode \notin Codes
  BY CodeAssumption DEF TypeOK
<1>2. t \notin refresh
  BY <1>1 DEF Parts, AnswersComplete
<1>3. PastMark'
  <2>1. code[c] = "used"
    BY DEF Parts, PastMark, Awaits
  <2>2. \A v \in Workers \ {w} : job[v].pc \in {"refresh", "answer"} => job[v].token # t
    BY <1>1 DEF Parts, PastMark, TypeOK, JobsOK
  <2> QED
    BY <1>1, <2>1, <2>2 DEF Parts, PastMark, TypeOK, JobsOK, Awaits
<1>4. /\ TokensOf(c)' = TokensOf(c) \cup {t}
      /\ \A d \in Codes \ {c} : TokensOf(d)' = TokensOf(d)
  BY <1>1 DEF TokensOf
<1>5. OneClaim'
  <2>1. ASSUME c \notin raced, NEW v \in Workers, job'[v].pc = "access"
        PROVE  job'[v].code # c
    BY <2>1 DEF Parts, OneClaim
  <2>2. ASSUME NEW d \in Codes \ raced, d # c,
               NEW v \in Workers, job'[v].pc = "access", job'[v].code = d
        PROVE  job[v].pc = "access" /\ job[v].code = d
    BY <2>2
  <2> QED
    BY <1>4, <2>1, <2>2 DEF Parts, OneClaim
<1>6. AnswersComplete'
  BY <1>1, <1>2 DEF Parts, AnswersComplete, PastMark, Awaits
<1>7. SingleUseUnlessRaced'
  <2>1. c \notin raced => TokensOf(c) = {}
    BY DEF Parts, OneClaim
  <2> QED
    BY <1>4, <2>1 DEF Parts, SingleUseUnlessRaced
<1> QED
  BY <1>3, <1>5, <1>6, <1>7 DEF Parts

LEMMA RefreshKeeps ==
  ASSUME TypeOK, Parts, NEW w \in Workers, ExchangeRefresh(w)
  PROVE  Parts'
<1>1. /\ job[w].pc = "refresh" /\ job[w].token \in Tokens /\ job[w].code \in Codes
      /\ job'[w].pc = "answer" /\ job'[w].code = job[w].code
      /\ job'[w].token = job[w].token
      /\ refresh' = refresh \cup {job[w].token}
      /\ \A v \in Workers \ {w} : job'[v] = job[v]
      /\ UNCHANGED <<code, access, answered, raced>>
  BY RefreshEffect DEF OneJob
<1>2. PastMark'
  BY <1>1 DEF Parts, PastMark, Awaits
<1>3. OneClaim' /\ SingleUseUnlessRaced'
  BY <1>1 DEF Parts, OneClaim, SingleUseUnlessRaced, TokensOf
<1>4. AnswersComplete'
  BY <1>1 DEF Parts, AnswersComplete, PastMark
<1> QED
  BY <1>2, <1>3, <1>4 DEF Parts

LEMMA EndKeeps ==
  ASSUME TypeOK, Parts, NEW w \in Workers, ExchangeAnswer(w) \/ ExchangeFails(w)
  PROVE  Parts'
<1>1. /\ job'[w] = Idle /\ \A v \in Workers \ {w} : job'[v] = job[v]
      /\ UNCHANGED <<code, access, refresh, raced>>
      /\ \/ job[w].pc = "answer" /\ answered' = answered \cup {job[w].token}
         \/ answered' = answered
  BY EndEffect DEF OneJob
<1>2. PastMark'
  BY <1>1 DEF Parts, PastMark, Awaits, Idle
<1>3. OneClaim' /\ SingleUseUnlessRaced'
  BY <1>1 DEF Parts, OneClaim, SingleUseUnlessRaced, TokensOf, Idle
<1>4. AnswersComplete'
  BY <1>1 DEF Parts, AnswersComplete, PastMark
<1> QED
  BY <1>2, <1>3, <1>4 DEF Parts

LEMMA AsideKeeps ==
  ASSUME TypeOK, Parts, Aside
  PROVE  Parts'
<1>1. /\ UNCHANGED <<access, refresh, answered, job, raced>>
      /\ \A c \in Codes : code[c] = "used" <=> code'[c] = "used"
      /\ \A c \in Codes : code[c] = "fresh" => code'[c] = "fresh"
  BY AsideEffect
<1>2. PastMark'
  BY <1>1 DEF Parts, PastMark, TypeOK, JobsOK, Awaits
<1>3. OneClaim' /\ SingleUseUnlessRaced'
  BY <1>1 DEF Parts, OneClaim, SingleUseUnlessRaced, TokensOf
<1>4. AnswersComplete'
  BY <1>1 DEF Parts, AnswersComplete
<1> QED
  BY <1>2, <1>3, <1>4 DEF Parts

LEMMA IInvInit == Init => IInv
<1> SUFFICES ASSUME Init PROVE IInv
  OBVIOUS
<1>1. \A c \in Codes : TokensOf(c) = {}
  BY CodeAssumption DEF Init, TokensOf
<1>2. \A w \in Workers : job[w].pc = "idle"
  BY DEF Init, Idle
<1>3. PastMark /\ OneClaim /\ SingleUseUnlessRaced
  BY <1>1, <1>2 DEF PastMark, OneClaim, SingleUseUnlessRaced, Awaits
<1>4. AnswersComplete
  BY CodeAssumption DEF Init, AnswersComplete
<1> QED
  BY <1>3, <1>4, TypeInit DEF IInv

LEMMA IInvStep == IInv /\ [Next]_vars => IInv'
<1> SUFFICES ASSUME IInv, [Next]_vars PROVE IInv'
  OBVIOUS
<1>0. TypeOK /\ Parts /\ TypeOK'
  BY TypeStep DEF IInv, Parts
<1>1. ASSUME NEW w \in Workers, NEW c \in Codes, NEW cl \in Clients,
             NEW proves \in BOOLEAN, ExchangeRead(w, c, cl, proves)
      PROVE  Parts'
  BY <1>0, <1>1, ReadKeeps
<1>2. ASSUME NEW w \in Workers, Exchange(w) PROVE Parts'
  BY <1>0, <1>2, MarkKeeps, AccessKeeps, RefreshKeeps, EndKeeps DEF Exchange
<1>3. ASSUME Aside PROVE Parts'
  BY <1>0, <1>3, AsideKeeps
<1>4. ASSUME UNCHANGED vars PROVE Parts'
  BY <1>0, <1>4 DEF vars, Parts, PastMark, OneClaim, AnswersComplete,
     SingleUseUnlessRaced, TokensOf
<1>5. Parts'
  BY <1>1, <1>2, <1>3, <1>4 DEF Next, Aside
<1> QED
  BY <1>0, <1>5 DEF IInv, Parts

\* The whole invariant holds for every instance.
THEOREM CodeInductive == Spec => []IInv
BY IInvInit, IInvStep, PTL DEF Spec

\* An authorization code yields one access token unless two exchanges had both passed
\* the check before either marked it; sent again at any other moment it yields nothing.
THEOREM SingleUseUnlessRacedHolds == Spec => []SingleUseUnlessRaced
<1>1. IInv => SingleUseUnlessRaced
  BY DEF IInv
<1> QED
  BY <1>1, CodeInductive, PTL

\* A token a client holds has both its rows, and its code is used up.
THEOREM AnswersCompleteHolds == Spec => []AnswersComplete
<1>1. IInv => AnswersComplete
  BY DEF IInv
<1> QED
  BY <1>1, CodeInductive, PTL

\* A step that finds a code used or too old, and at rest, leaves it so.
LEMMA SettledStep ==
  ASSUME IInv, [Next]_vars, NEW c \in Codes, Settled(c)
  PROVE  Settled(c)' /\ TokensOf(c)' = TokensOf(c)
<1>0. /\ TypeOK
      /\ code[c] = "used" \/ c \in aged
      /\ \A w \in Workers : job[w].code # c
  BY DEF IInv, Settled
<1>1. NoCode # c
  BY CodeAssumption
<1>2. ASSUME NEW w \in Workers, NEW d \in Codes, NEW cl \in Clients,
             NEW proves \in BOOLEAN, ExchangeRead(w, d, cl, proves)
      PROVE  Settled(c)' /\ TokensOf(c)' = TokensOf(c)
  <2>1. /\ code[d] = "fresh" /\ d \notin aged /\ job'[w].code = d /\ OneJob(w)
        /\ UNCHANGED <<code, aged, access>>
    BY <1>0, <1>2, ReadEffect DEF ExchangeRead
  <2> QED
    BY <1>0, <2>1 DEF Settled, TokensOf, OneJob
<1>3. ASSUME NEW w \in Workers, ExchangeMark(w)
      PROVE  Settled(c)' /\ TokensOf(c)' = TokensOf(c)
  <2>1. /\ code' = [code EXCEPT ![job[w].code] = "used"] /\ job'[w].code = job[w].code
        /\ OneJob(w) /\ UNCHANGED <<aged, access>>
    BY <1>0, <1>3, MarkEffect
  <2> QED
    BY <1>0, <2>1 DEF Settled, TokensOf, OneJob, TypeOK
<1>4. ASSUME NEW w \in Workers, ExchangeAccess(w)
      PROVE  Settled(c)' /\ TokensOf(c)' = TokensOf(c)
  <2>1. PICK t \in Tokens :
          /\ access[t] = NoCode /\ access' = [access EXCEPT ![t] = job[w].code]
          /\ job'[w].code = job[w].code /\ OneJob(w) /\ UNCHANGED <<code, aged>>
    BY <1>0, <1>4, AccessEffect
  <2>2. job[w].code # c /\ access \in [Tokens -> Codes \cup {NoCode}]
    BY <1>0 DEF TypeOK
  <2>3. \A u \in Tokens : access'[u] = c <=> access[u] = c
    BY <1>1, <2>1, <2>2
  <2> QED
    BY <1>0, <2>1, <2>3 DEF Settled, TokensOf, OneJob
<1>5. ASSUME NEW w \in Workers, ExchangeRefresh(w)
      PROVE  Settled(c)' /\ TokensOf(c)' = TokensOf(c)
  <2>1. /\ job'[w].code = job[w].code /\ OneJob(w)
        /\ UNCHANGED <<code, aged, access>>
    BY <1>0, <1>5, RefreshEffect
  <2> QED
    BY <1>0, <2>1 DEF Settled, TokensOf, OneJob
<1>6. ASSUME NEW w \in Workers, ExchangeAnswer(w) \/ ExchangeFails(w)
      PROVE  Settled(c)' /\ TokensOf(c)' = TokensOf(c)
  <2>1. job'[w] = Idle /\ OneJob(w) /\ UNCHANGED <<code, aged, access>>
    BY <1>0, <1>6, EndEffect
  <2> QED
    BY <1>0, <1>1, <2>1 DEF Settled, TokensOf, OneJob, Idle
<1>7. ASSUME Aside
      PROVE  Settled(c)' /\ TokensOf(c)' = TokensOf(c)
  <2>1. UNCHANGED <<access, job>> /\ (code'[c] = "used" \/ c \in aged')
    BY <1>0, <1>7, AsideEffect
  <2> QED
    BY <1>0, <2>1 DEF Settled, TokensOf
<1>8. ASSUME UNCHANGED vars
      PROVE  Settled(c)' /\ TokensOf(c)' = TokensOf(c)
  BY <1>0, <1>8 DEF vars, Settled, TokensOf
<1> QED
  BY <1>2, <1>3, <1>4, <1>5, <1>6, <1>7, <1>8 DEF Next, Exchange, Aside

\* A code used or too old, and at rest, never yields another token, whoever raced before.
THEOREM SettledIsFinalHolds == Spec => SettledIsFinal
<1>1. IInv /\ [Next]_vars =>
        [\A c \in Codes : Settled(c) => Settled(c)' /\ TokensOf(c)' = TokensOf(c)]_vars
  BY SettledStep
<1> QED
  BY <1>1, CodeInductive, PTL DEF Spec, SettledIsFinal

-----------------------------------------------------------------------------
(* An application and the tabs of one browser.                              *)

\* Names that are free are given out, as long as there are any.
LEMMA FreshNames ==
  /\ Ids \ Sids # {} => NewSid \in Ids \ Sids
  /\ Ids \ Attempts # {} => NewAttempt \in Ids \ Attempts
BY DEF NewSid, NewAttempt

LEMMA Apart ==
  /\ None \notin Users /\ None \notin Tabs /\ None \notin Ids /\ None # "saved"
  /\ Weak \subseteq Users
BY RelyingPartyAssumption DEF Answers

\* r is q, or what is left of q when its page is gone.
LeftOf(r, q) ==
  /\ r.kind = q.kind /\ r.sid = q.sid /\ r.attempt = q.attempt /\ r.code = q.code
  /\ r.csrf = q.csrf /\ r.user = q.user /\ r.stage = q.stage /\ r.answer = q.answer
  /\ r.new = q.new /\ r.tab \in {q.tab, None}
  /\ r.kind = "session" => r = q

LEMMA LeftFacts ==
  ASSUME AppTypeOK, NEW t \in Tabs
  PROVE  /\ Left(t) \subseteq RequestState
         /\ \A r \in Left(t) : r.tab # t /\ \E q \in net : LeftOf(r, q)
<1>1. ASSUME NEW r \in Left(t)
      PROVE  r \in RequestState /\ r.tab # t /\ \E q \in net : LeftOf(r, q)
  <2>1. CASE r \in net \ Waiting(t)
    <3>1. r \in net /\ r \in RequestState /\ r.tab # t
      BY <2>1 DEF AppTypeOK, Waiting
    <3>2. LeftOf(r, r)
      BY <3>1 DEF LeftOf
    <3> QED
      BY <3>1, <3>2
  <2>2. ASSUME NEW q \in Waiting(t), q.kind # "session", r = [q EXCEPT !.tab = None]
        PROVE  r \in RequestState /\ r.tab # t /\ q \in net /\ LeftOf(r, q)
    <3>1. q \in net /\ q \in RequestState
      BY DEF AppTypeOK, Waiting
    <3> QED
      BY <2>2, <3>1, Apart DEF LeftOf, RequestState
  <2> QED
    BY <2>1, <2>2 DEF Left
<1> QED
  BY <1>1

LEMMA RequestTyped ==
  ASSUME AppTypeOK, NEW t \in Tabs, NEW kind \in {"complete", "save", "logout"}
  PROVE  /\ Request(kind, t) \in RequestState
         /\ Request(kind, t).kind = kind /\ Request(kind, t).tab = t
         /\ Request(kind, t).csrf = tab[t].sid /\ Request(kind, t).user = tab[t].user
         /\ Request(kind, t).answer = None /\ Request(kind, t).new = None
<1>1. /\ tab[t].sid \in IdOrNone /\ tab[t].user \in AccountOrNone
      /\ jar.sid \in IdOrNone /\ jar.attempt \in IdOrNone /\ None \in IdOrNone
  BY DEF AppTypeOK, TabState, IdOrNone
<1> QED
  BY <1>1 DEF Request, RequestState

LEMMA AskTyped ==
  ASSUME jar'.sid \in IdOrNone, NEW t \in Tabs
  PROVE  /\ AskSession(t) \in RequestState
         /\ AskSession(t).kind = "session" /\ AskSession(t).tab = t
         /\ AskSession(t).sid = jar'.sid
<1>1. None \in IdOrNone /\ None \in AccountOrNone
  BY DEF IdOrNone, AccountOrNone
<1> QED
  BY <1>1 DEF AskSession, RequestState

LEMMA TabTyped ==
  ASSUME NEW at \in {"landing", "away", "completing", "loading", "app", "leaving"}
  PROVE  /\ Tab(at) \in TabState
         /\ Tab(at).at = at /\ Tab(at).sid = None /\ ~Tab(at).out /\ ~Tab(at).calm
BY DEF Tab, TabState, IdOrNone, AccountOrNone

LEMMA LoadingTyped ==
  ASSUME AppTypeOK, NEW t \in Tabs, NEW out \in BOOLEAN
  PROVE  /\ Loading(t, out) \in TabState
         /\ Loading(t, out).at = "loading" /\ Loading(t, out).sid = None
         /\ Loading(t, out).calm = tab[t].calm
<1>1. Tab("loading") \in TabState /\ Tab("loading").at = "loading"
      /\ Tab("loading").sid = None /\ tab[t].calm \in BOOLEAN
  BY TabTyped DEF AppTypeOK, TabState
<1> QED
  BY <1>1 DEF Loading, TabState

-----------------------------------------------------------------------------
(* What the user does: one tab moves, the sessions stay.                    *)

\* What of the invariant is about the tab that moves and the requests left.
LEMMA TabMoves ==
  ASSUME AppInv, AppTypeOK', NEW t \in Tabs, session' = session, jar'.sid = jar.sid,
         \A o \in Tabs \ {t} : tab'[o] = tab[o],
         Names(tab'[t].sid, tab'[t].user), tab'[t].at # "landing",
         tab'[t].at \in {"away", "completing"} => tab'[t].sid = None,
         \A r \in net' : \/ /\ \E q \in net : LeftOf(r, q)
                            /\ r.kind = "session" /\ r.tab = t /\ tab'[t].calm => tab[t].calm
                         \/ /\ r.kind = "save" => Names(r.csrf, r.user) /\ r.answer = None
                            /\ r.kind = "session" => r.tab = t /\ r.sid = jar.sid
  PROVE  AppInv'
<1>1. \A s, u : Names(s, u)' <=> Names(s, u)
  BY DEF Names
<1>2. PagesName'
  BY DEF AppInv, PagesName, Names
<1>3. SavesName'
  <2> SUFFICES ASSUME NEW r \in net', r.kind = "save" PROVE Names(r.csrf, r.user)'
    BY DEF SavesName
  <2>1. Names(r.csrf, r.user)
    BY DEF AppInv, SavesName, LeftOf
  <2> QED
    BY <2>1 DEF Names
<1>4. AsksForJar'
  <2> SUFFICES ASSUME NEW r \in net', r.kind = "session", r.tab # None, tab'[r.tab].calm
               PROVE  jar.sid \in {r.sid, None}
    BY DEF AsksForJar
  <2>1. r.tab \in Tabs
    BY DEF AppTypeOK, RequestState
  <2>2. CASE r \in net /\ (r.tab # t \/ tab[t].calm)
    BY <2>1, <2>2 DEF AppInv, AsksForJar
  <2>3. CASE r.sid = jar.sid
    BY <2>3
  <2> QED
    BY <2>2, <2>3 DEF LeftOf
<1>5. SavedUnderAccountShown'
  <2> SUFFICES ASSUME NEW r \in net', r.kind = "save", r.answer = "saved"
               PROVE  r.new = r.user
    BY DEF SavedUnderAccountShown
  <2>1. r.answer # None
    BY Apart
  <2> QED
    BY <2>1 DEF AppInv, SavedUnderAccountShown, LeftOf
<1>6. SignedOutMeansOut'
  BY DEF AppInv, SignedOutMeansOut, Live
<1> QED
  BY <1>2, <1>3, <1>4, <1>5, <1>6 DEF AppInv

\* A press that only sends the tab elsewhere, possibly with one new request.
LEMMA PressTyped ==
  ASSUME AppTypeOK, NEW t \in Tabs, UNCHANGED <<session, used>>, jar' = jar,
         mishaps' \in 0..MaxMishaps, NEW page \in TabState, tab' = [tab EXCEPT ![t] = page],
         NEW q \in RequestState, q.kind = "complete" => q.new = None,
         net' \subseteq Left(t) \cup net \cup {q}
  PROVE  AppTypeOK' /\ tab'[t] = page /\ \A o \in Tabs \ {t} : tab'[o] = tab[o]
<1>1. tab' \in [Tabs -> TabState] /\ tab'[t] = page /\ \A o \in Tabs \ {t} : tab'[o] = tab[o]
  BY DEF AppTypeOK
<1>2. net' \subseteq RequestState
  BY LeftFacts DEF AppTypeOK
<1>3. ASSUME NEW r \in net', r.kind = "complete" PROVE r.new \in IdOrNone
  BY <1>3, LeftFacts DEF AppTypeOK, LeftOf, IdOrNone
<1> QED
  BY <1>1, <1>2, <1>3 DEF AppTypeOK

LEMMA MishapTyped ==
  ASSUME AppTypeOK, Mishap \/ UNCHANGED mishaps
  PROVE  mishaps' \in 0..MaxMishaps
BY RelyingPartyAssumption DEF AppTypeOK, Mishap

LEMMA CompleteKeeps ==
  ASSUME AppInv, NEW t \in Tabs, NEW c \in IdOrNone, NEW u \in AccountOrNone,
         tab[t].at \in {"away", "completing"}, Mishap \/ UNCHANGED mishaps,
         Complete(t, c, u), UNCHANGED <<session, jar, used>>
  PROVE  AppInv'
<1> DEFINE page == [tab[t] EXCEPT !.at = "completing", !.user = u]
           q == [Request("complete", t) EXCEPT !.code = c, !.user = u]
<1>1. AppTypeOK /\ tab[t] \in TabState /\ tab[t].sid = None
  BY DEF AppInv, AppTypeOK, PagesName
<1>2. page \in TabState /\ page.at = "completing" /\ page.sid = None
  BY <1>1 DEF TabState
<1>3. q \in RequestState /\ q.kind = "complete" /\ q.new = None
  <2>1. "complete" \in {"complete", "save", "logout"}
    OBVIOUS
  <2>2. Request("complete", t) \in RequestState /\ Request("complete", t).kind = "complete"
        /\ Request("complete", t).new = None
    BY <1>1, <2>1, RequestTyped
  <2> QED
    BY <2>2 DEF RequestState
<1>4. tab' = [tab EXCEPT ![t] = page] /\ net' = Left(t) \cup {q}
  BY DEF Complete
<1> HIDE DEF page, q
<1>5. AppTypeOK' /\ tab'[t] = page /\ \A o \in Tabs \ {t} : tab'[o] = tab[o]
  BY <1>1, <1>2, <1>3, <1>4, PressTyped, MishapTyped
<1>6. \A r \in net' : r.kind # "complete" => \E p \in net : LeftOf(r, p) /\ r.tab # t
  BY <1>1, <1>3, <1>4, LeftFacts
<1> QED
  BY <1>2, <1>3, <1>4, <1>5, <1>6, TabMoves DEF Names

LEMMA LoginKeeps ==
  ASSUME AppInv, NEW t \in Tabs, Login(t) PROVE AppInv'
<1> DEFINE page == [Tab("away") EXCEPT !.attempt = NewAttempt]
<1>1. AppTypeOK /\ NewAttempt \in Ids
  BY FreshNames DEF AppInv, Login
<1>2. /\ page \in TabState /\ page.at = "away" /\ page.sid = None
  <2>1. Tab("away") \in TabState /\ Tab("away").at = "away" /\ Tab("away").sid = None
    BY TabTyped
  <2> QED
    BY <1>1, <2>1 DEF TabState, IdOrNone
<1>3. /\ tab' = [tab EXCEPT ![t] = page] /\ net' = Left(t) /\ session' = session
      /\ jar' = [jar EXCEPT !.attempt = NewAttempt] /\ used' \subseteq used
  BY DEF Login
<1> HIDE DEF page
<1>4. mishaps' \in 0..MaxMishaps
  BY <1>1, MishapTyped DEF Login
<1>5. jar' \in [sid : IdOrNone, attempt : IdOrNone] /\ jar'.sid = jar.sid
  BY <1>1, <1>3 DEF AppTypeOK, IdOrNone
<1>6. /\ tab' \in [Tabs -> TabState] /\ tab'[t] = page
      /\ \A o \in Tabs \ {t} : tab'[o] = tab[o]
  BY <1>1, <1>2, <1>3 DEF AppTypeOK
<1>7. AppTypeOK'
  <2>1. \A r \in net' : r.kind = "complete" => r.new \in IdOrNone
    BY <1>1, <1>3, LeftFacts DEF AppTypeOK, LeftOf
  <2> QED
    BY <1>1, <1>3, <1>4, <1>5, <1>6, <2>1, LeftFacts DEF AppTypeOK
<1> QED
  BY <1>1, <1>2, <1>3, <1>5, <1>6, <1>7, LeftFacts, TabMoves DEF Names

LEMMA ReloadKeeps ==
  ASSUME AppInv, NEW t \in Tabs, Reload(t) PROVE AppInv'
<1>1. AppTypeOK /\ jar' = jar /\ session' = session /\ used' = used
      /\ jar'.sid \in IdOrNone
  BY DEF AppInv, AppTypeOK, Reload
<1> PICK page \in TabState : page = Loading(t, FALSE)
  BY <1>1, LoadingTyped
<1> PICK q \in RequestState : q = AskSession(t)
  BY <1>1, AskTyped
<1>2. page.at = "loading" /\ page.sid = None
  BY <1>1, LoadingTyped
<1>3. q.kind = "session" /\ q.tab = t /\ q.sid = jar.sid
  BY <1>1, AskTyped
<1>4. tab' = [tab EXCEPT ![t] = page] /\ net' = Left(t) \cup {q}
  BY DEF Reload
<1>5. AppTypeOK' /\ tab'[t] = page /\ \A o \in Tabs \ {t} : tab'[o] = tab[o]
  BY <1>1, <1>3, <1>4, PressTyped, MishapTyped DEF Reload
<1>6. \A r \in Left(t) : \E p \in net : LeftOf(r, p) /\ r.tab # t
  BY <1>1, LeftFacts
<1>7. Names(page.sid, page.user)
  BY <1>2 DEF Names
<1>8. ASSUME NEW r \in net'
      PROVE  \/ \E p \in net : LeftOf(r, p) /\ (r.kind = "session" => r.tab # t)
             \/ /\ r.kind = "save" => Names(r.csrf, r.user) /\ r.answer = None
                /\ r.kind = "session" => r.tab = t /\ r.sid = jar.sid
  <2>1. CASE r \in Left(t)
    BY <1>6, <2>1
  <2>2. CASE r = q
    BY <1>3, <2>2
  <2> QED
    BY <1>4, <2>1, <2>2
<1>9. session' = session /\ jar'.sid = jar.sid /\ tab'[t].at # "landing"
      /\ tab'[t].at \notin {"away", "completing"}
  BY <1>1, <1>2, <1>5
<1>10. Names(tab'[t].sid, tab'[t].user)
  BY <1>5, <1>7
<1> QED
  BY <1>5, <1>8, <1>9, <1>10, TabMoves

\* The tab stays where it is, or waits for the answer to a sign-out.
LEMMA StaysKeeps ==
  ASSUME AppInv, NEW t \in Tabs, NEW page \in TabState, NEW kind \in {"save", "logout"},
         page.at \in {"app", "leaving"}, page.sid = tab[t].sid, page.user = tab[t].user,
         page.calm => tab[t].calm \/ \A r \in Waiting(t) : r.kind # "session",
         Mishap, tab' = [tab EXCEPT ![t] = page], net' = net \cup {Request(kind, t)},
         UNCHANGED <<session, jar, used>>
  PROVE  AppInv'
<1>1. AppTypeOK
  BY DEF AppInv
<1> PICK q \in RequestState : q = Request(kind, t)
  BY <1>1, RequestTyped
<1>2. /\ q.kind = kind /\ q.csrf = tab[t].sid /\ q.user = tab[t].user
      /\ q.answer = None /\ q.new = None
  BY <1>1, RequestTyped
<1>3. AppTypeOK' /\ tab'[t] = page /\ \A o \in Tabs \ {t} : tab'[o] = tab[o]
  BY <1>1, <1>2, PressTyped, MishapTyped
<1>4. Names(tab[t].sid, tab[t].user)
  BY DEF AppInv, PagesName
<1>5. ASSUME NEW r \in net
      PROVE  /\ LeftOf(r, r)
             /\ r.kind = "session" /\ r.tab = t /\ page.calm => tab[t].calm
  BY <1>5 DEF LeftOf, Waiting
<1> QED
  BY <1>2, <1>3, <1>4, <1>5, TabMoves

LEMMA SaveKeeps ==
  ASSUME AppInv, NEW t \in Tabs, Save(t) PROVE AppInv'
<1> PICK page \in TabState : page = tab[t]
  BY DEF AppInv, AppTypeOK
<1>1. tab' = [tab EXCEPT ![t] = page]
  BY DEF AppInv, AppTypeOK, Save
<1>2. "save" \in {"save", "logout"} /\ page.at \in {"app", "leaving"}
  BY DEF Save
<1> QED
  BY <1>1, <1>2, StaysKeeps DEF Save

LEMMA SignOutKeeps ==
  ASSUME AppInv, NEW t \in Tabs, SignOut(t) PROVE AppInv'
<1> DEFINE quiet == \A r \in Waiting(t) : r.kind # "session"
           page == [tab[t] EXCEPT !.at = "leaving", !.calm = quiet]
<1>0. quiet \in BOOLEAN
  OBVIOUS
<1> HIDE DEF quiet
<1>1. page \in TabState /\ page.at = "leaving" /\ page.sid = tab[t].sid
      /\ page.user = tab[t].user /\ page.calm = quiet
  BY <1>0 DEF AppInv, AppTypeOK, TabState
<1>2. tab' = [tab EXCEPT ![t] = page]
  BY DEF SignOut, quiet
<1> HIDE DEF page
<1>3. "logout" \in {"save", "logout"} /\ page.at \in {"app", "leaving"}
  BY <1>1
<1> QED
  BY <1>1, <1>2, <1>3, StaysKeeps DEF SignOut, quiet

-----------------------------------------------------------------------------
(* What the server does: one request is served, no page notices.            *)

\* Sessions that a cookie, a page or a request names only end.
OnlyEnd == \A s \in Ids \cap Sids : session'[s] \in {session[s], None}

LEMMA HeldNames ==
  ASSUME AppTypeOK, OnlyEnd
  PROVE  /\ jar.sid # None => session'[jar.sid] \in {session[jar.sid], None}
         /\ \A t \in Tabs : \A u : Names(tab[t].sid, u) =>
              (tab[t].sid # None => session'[tab[t].sid] \in {None, u})
         /\ \A r \in net : \A u : Names(r.csrf, u) =>
              (r.csrf # None => session'[r.csrf] \in {None, u})
<1>1. jar.sid \in Sids /\ jar.sid \in IdOrNone
  BY DEF AppTypeOK, Sids
<1>2. \A t \in Tabs : tab[t].sid \in Sids /\ tab[t].sid \in IdOrNone
  BY DEF AppTypeOK, TabState, Sids
<1>3. \A r \in net : r.csrf \in Sids /\ r.csrf \in IdOrNone
  BY DEF AppTypeOK, RequestState, Sids
<1>4. \A s \in Sids \cap IdOrNone : s # None => session'[s] \in {session[s], None}
  BY DEF OnlyEnd, IdOrNone
<1>5. ASSUME NEW s \in Sids \cap IdOrNone, NEW u, Names(s, u)
      PROVE  s # None => session'[s] \in {None, u}
  BY <1>4, <1>5 DEF Names
<1>6. jar.sid # None => session'[jar.sid] \in {session[jar.sid], None}
  BY <1>1, <1>4
<1>7. ASSUME NEW t \in Tabs, NEW u, Names(tab[t].sid, u)
      PROVE  tab[t].sid # None => session'[tab[t].sid] \in {None, u}
  BY <1>2, <1>5, <1>7
<1>8. ASSUME NEW r \in net, NEW u, Names(r.csrf, u)
      PROVE  r.csrf # None => session'[r.csrf] \in {None, u}
  BY <1>3, <1>5, <1>8
<1> QED
  BY <1>6, <1>7, <1>8

\* One request makes a step.
LEMMA Served ==
  ASSUME AppInv, NEW r \in net, NEW q \in RequestState, Becomes(r, q), UNCHANGED <<jar, tab>>,
         session' \in [Ids -> AccountOrNone], OnlyEnd, used' \subseteq IdOrNone,
         mishaps' \in 0..MaxMishaps,
         q.kind = r.kind, q.tab = r.tab, q.sid = r.sid, q.csrf = r.csrf, q.user = r.user,
         q.kind = "complete" => q.new \in IdOrNone,
         q.kind = "save" /\ q.answer = "saved" => q.new = q.user
  PROVE  AppInv'
<1>1. AppTypeOK /\ net' = (net \ {r}) \cup {q}
  BY DEF AppInv, Becomes
<1>2. AppTypeOK'
  BY <1>1 DEF AppTypeOK
<1>3. PagesName'
  BY <1>1, HeldNames DEF AppInv, PagesName, Names
<1>4. SavesName'
  <2>1. ASSUME NEW p \in net, p.kind = "save"
        PROVE  p.csrf # None => session'[p.csrf] \in {None, p.user}
    <3>1. Names(p.csrf, p.user)
      BY <2>1 DEF AppInv, SavesName
    <3> QED
      BY <1>1, <3>1, HeldNames
  <2>2. \A p \in net' : p \in net \/ p = q
    BY <1>1
  <2> QED
    BY <2>1, <2>2 DEF SavesName, Names
<1>5. AsksForJar'
  BY <1>1 DEF AppInv, AsksForJar
<1>6. SavedUnderAccountShown'
  BY <1>1 DEF AppInv, SavedUnderAccountShown
<1>7. SignedOutMeansOut'
  BY <1>1, HeldNames DEF AppInv, SignedOutMeansOut, Live
<1> QED
  BY <1>2, <1>3, <1>4, <1>5, <1>6, <1>7 DEF AppInv

LEMMA AnswerTyped ==
  ASSUME AppTypeOK, NEW r \in net, NEW a \in Answers
  PROVE  /\ Answered(r, a) \in RequestState /\ Answered(r, a).kind = r.kind
         /\ Answered(r, a).tab = r.tab /\ Answered(r, a).sid = r.sid
         /\ Answered(r, a).csrf = r.csrf /\ Answered(r, a).user = r.user
         /\ Answered(r, a).answer = a /\ Answered(r, a).new = r.new
<1>1. r \in RequestState
  BY DEF AppTypeOK
<1> QED
  BY <1>1 DEF Answered, RequestState

\* An answer that tells nothing new of a session.
LEMMA AnswerKeeps ==
  ASSUME AppInv, NEW r \in net, NEW a \in Answers, a # "saved", Answer(r, a),
         UNCHANGED <<jar, tab>>, session' \in [Ids -> AccountOrNone], OnlyEnd,
         used' \subseteq IdOrNone, mishaps' \in 0..MaxMishaps
  PROVE  AppInv'
<1>1. AppTypeOK
  BY DEF AppInv
<1> PICK q \in RequestState : q = Answered(r, a)
  BY <1>1, AnswerTyped
<1>2. /\ q.kind = r.kind /\ q.tab = r.tab /\ q.sid = r.sid /\ q.csrf = r.csrf
      /\ q.user = r.user /\ q.answer = a /\ q.new = r.new
  BY <1>1, AnswerTyped
<1>3. Becomes(r, q)
  BY DEF Answer
<1>4. q.kind = "complete" => q.new \in IdOrNone
  BY <1>1, <1>2 DEF AppTypeOK
<1> QED
  BY <1>2, <1>3, <1>4, Served

LEMMA RedeemKeeps ==
  ASSUME AppInv, NEW r \in net, Redeem(r) PROVE AppInv'
<1>1. AppTypeOK /\ UNCHANGED <<session, jar, used, tab, mishaps>>
  BY DEF AppInv, Redeem
<1>2. /\ session' \in [Ids -> AccountOrNone] /\ OnlyEnd /\ used' \subseteq IdOrNone
      /\ mishaps' \in 0..MaxMishaps
  BY <1>1 DEF AppTypeOK, OnlyEnd
<1>3. CASE Answer(r, "refused")
  BY <1>1, <1>2, <1>3, AnswerKeeps DEF Answers
<1>4. CASE Becomes(r, [r EXCEPT !.stage = "exchanged"])
  <2> DEFINE q == [r EXCEPT !.stage = "exchanged"]
  <2>1. /\ q \in RequestState /\ q.kind = r.kind /\ q.tab = r.tab /\ q.sid = r.sid
        /\ q.csrf = r.csrf /\ q.user = r.user /\ q.answer = r.answer /\ q.new = r.new
    BY <1>1 DEF AppTypeOK, RequestState
  <2>2. Becomes(r, q)
    BY <1>4
  <2> HIDE DEF q
  <2>3. q.kind = "complete"
    BY <2>1 DEF Redeem
  <2>4. q.new \in IdOrNone
    BY <1>1, <2>1, <2>3 DEF AppTypeOK
  <2> QED
    BY <1>1, <1>2, <2>1, <2>2, <2>3, <2>4, Served
<1> QED
  BY <1>3, <1>4 DEF Redeem

LEMMA CreateSessionKeeps ==
  ASSUME AppInv, NEW r \in net, CreateSession(r) PROVE AppInv'
<1>1. /\ AppTypeOK /\ UNCHANGED <<jar, tab, mishaps>> /\ r \in RequestState
      /\ r.kind = "complete" /\ NewSid \in Ids \ Sids /\ used' = used \cup {r.code}
  BY FreshNames DEF AppInv, AppTypeOK, CreateSession
<1>2. used' \subseteq IdOrNone /\ mishaps' \in 0..MaxMishaps
  BY <1>1 DEF AppTypeOK, RequestState
<1>3. CASE Answer(r, "refused") /\ UNCHANGED session
  <2>1. session' \in [Ids -> AccountOrNone] /\ OnlyEnd
    BY <1>1, <1>3 DEF AppTypeOK, OnlyEnd
  <2> QED
    BY <1>1, <1>2, <1>3, <2>1, AnswerKeeps DEF Answers
<1>4. CASE /\ session' = [session EXCEPT ![NewSid] = r.user]
           /\ Becomes(r, [Answered(r, "ok") EXCEPT !.new = NewSid])
  <2> DEFINE q == [Answered(r, "ok") EXCEPT !.new = NewSid]
  <2>1. "ok" \in Answers
    BY DEF Answers
  <2>2. /\ q \in RequestState /\ q.kind = r.kind /\ q.tab = r.tab /\ q.sid = r.sid
        /\ q.csrf = r.csrf /\ q.user = r.user /\ q.new = NewSid
    BY <1>1, <2>1, AnswerTyped DEF RequestState, IdOrNone
  <2>3. Becomes(r, q)
    BY <1>4
  <2> HIDE DEF q
  <2>4. session' \in [Ids -> AccountOrNone] /\ OnlyEnd
    BY <1>1, <1>4 DEF AppTypeOK, OnlyEnd, RequestState
  <2> QED
    BY <1>1, <1>2, <2>2, <2>3, <2>4, Served DEF IdOrNone
<1> QED
  BY <1>3, <1>4 DEF CreateSession

LEMMA LogoutKeeps ==
  ASSUME AppInv, NEW r \in net, Logout(r) PROVE AppInv'
<1>1. /\ AppTypeOK /\ UNCHANGED <<jar, used, tab, mishaps>> /\ Answer(r, "logged_out")
      /\ session' = session \/ session' = [session EXCEPT ![r.sid] = None]
  BY DEF AppInv, Logout
<1>2. /\ session' \in [Ids -> AccountOrNone] /\ OnlyEnd /\ used' \subseteq IdOrNone
      /\ mishaps' \in 0..MaxMishaps
  BY <1>1 DEF AppTypeOK, OnlyEnd, AccountOrNone
<1> QED
  BY <1>1, <1>2, AnswerKeeps DEF Answers

LEMMA SaveDocumentKeeps ==
  ASSUME AppInv, NEW r \in net, SaveDocument(r) PROVE AppInv'
<1>1. /\ AppTypeOK /\ UNCHANGED <<session, jar, used, tab, mishaps>> /\ r.kind = "save"
      /\ r \in RequestState
  BY DEF AppInv, AppTypeOK, SaveDocument
<1>2. /\ session' \in [Ids -> AccountOrNone] /\ OnlyEnd /\ used' \subseteq IdOrNone
      /\ mishaps' \in 0..MaxMishaps
  BY <1>1 DEF AppTypeOK, OnlyEnd
<1>3. CASE Answer(r, "unauthorized") \/ Answer(r, "csrf_invalid")
  BY <1>1, <1>2, <1>3, AnswerKeeps DEF Answers
<1>4. CASE /\ Live(r.sid) /\ ValidCsrf(r)
           /\ Becomes(r, [Answered(r, "saved") EXCEPT !.new = session[r.sid]])
  <2> DEFINE q == [Answered(r, "saved") EXCEPT !.new = session[r.sid]]
  \* the session the token is for is the one the page was loaded with
  <2>1. r.csrf = r.sid /\ r.sid \in Ids /\ session[r.sid] \in Users
    BY <1>1, <1>4 DEF Live, ValidCsrf, AppTypeOK, RequestState, IdOrNone, AccountOrNone
  <2>2. session[r.sid] = r.user
    BY <1>1, <2>1, Apart DEF AppInv, SavesName, Names
  <2>3. "saved" \in Answers
    BY DEF Answers
  <2>4. /\ q \in RequestState /\ q.kind = r.kind /\ q.tab = r.tab /\ q.sid = r.sid
        /\ q.csrf = r.csrf /\ q.user = r.user /\ q.new = session[r.sid]
    BY <1>1, <2>1, <2>3, AnswerTyped DEF RequestState, IdOrNone
  <2>5. Becomes(r, q)
    BY <1>4
  <2> HIDE DEF q
  <2> QED
    BY <1>1, <1>2, <2>2, <2>4, <2>5, Served
<1> QED
  BY <1>3, <1>4 DEF SaveDocument

LEMMA RedeemFailsKeeps ==
  ASSUME AppInv, NEW r \in net, RedeemFails(r) PROVE AppInv'
<1>1. /\ AppTypeOK /\ UNCHANGED <<session, jar, tab>> /\ Answer(r, "refused")
      /\ r \in RequestState /\ used' \subseteq used \cup {r.code}
  BY DEF AppInv, AppTypeOK, RedeemFails
<1>2. /\ session' \in [Ids -> AccountOrNone] /\ OnlyEnd /\ used' \subseteq IdOrNone
      /\ mishaps' \in 0..MaxMishaps
  BY <1>1, MishapTyped DEF AppTypeOK, OnlyEnd, RequestState, RedeemFails
<1> QED
  BY <1>1, <1>2, AnswerKeeps DEF Answers

LEMMA ExpireKeeps ==
  ASSUME AppInv, NEW s \in Ids, Expire(s) PROVE AppInv'
<1>1. /\ AppTypeOK /\ UNCHANGED <<jar, used, tab, net>>
      /\ session' = [session EXCEPT ![s] = None] /\ mishaps' \in 0..MaxMishaps
  BY MishapTyped DEF AppInv, Expire
<1>2. session' \in [Ids -> AccountOrNone] /\ OnlyEnd
  BY <1>1 DEF AppTypeOK, OnlyEnd, AccountOrNone
<1>3. AppTypeOK'
  BY <1>1, <1>2 DEF AppTypeOK
<1>4. PagesName' /\ SavesName'
  BY <1>1, <1>2, HeldNames DEF AppInv, PagesName, SavesName, Names
<1>5. AsksForJar' /\ SavedUnderAccountShown'
  BY <1>1 DEF AppInv, AsksForJar, SavedUnderAccountShown
<1>6. SignedOutMeansOut'
  BY <1>1, <1>2, HeldNames DEF AppInv, SignedOutMeansOut, Live
<1> QED
  BY <1>3, <1>4, <1>5, <1>6 DEF AppInv

-----------------------------------------------------------------------------
(* What the browser does with an answer, or with a failure.                 *)

\* The page is still one of the session it was loaded with; it shows the landing page
\* to who signed out of it only when it has asked in vain.
GoodPage(r, page) ==
  /\ page \in TabState /\ Names(page.sid, page.user)
  /\ page.at \in {"away", "completing"} => page.sid = None
  /\ page.calm => tab[r.tab].calm
  /\ \/ page = tab[r.tab] \/ page.at # "landing" \/ ~page.out
     \/ r.kind = "session" /\ ~Live(r.sid)

LEMMA PageFacts ==
  ASSUME AppInv, NEW r \in net, r.tab # None, NEW answer
  PROVE  GoodPage(r, Page(r, answer))
<1> PICK page : page = Page(r, answer)
  OBVIOUS
<1>1. AppTypeOK /\ r \in RequestState /\ r.tab \in Tabs
  BY DEF AppInv, AppTypeOK, RequestState
<1> PICK t \in Tabs : t = r.tab
  BY <1>1
<1>2. /\ tab[t] \in TabState /\ Names(tab[t].sid, tab[t].user)
      /\ tab[t].at \in {"away", "completing"} => tab[t].sid = None
  BY <1>1 DEF AppInv, AppTypeOK, PagesName
<1>3. ASSUME NEW out \in BOOLEAN, page = Loading(t, out)
      PROVE  /\ page \in TabState /\ Names(page.sid, page.user)
             /\ page.at = "loading"
             /\ page.calm => tab[t].calm
  BY <1>1, <1>3, LoadingTyped DEF Names
<1>4. CASE r.kind = "complete"
  <2>1. page = Loading(t, FALSE)
    BY <1>4 DEF Page
  <2> QED
    BY <1>3, <2>1 DEF GoodPage
<1>5. CASE r.kind = "logout"
  <2>1. page = Loading(t, TRUE)
    BY <1>5 DEF Page
  <2> QED
    BY <1>3, <2>1 DEF GoodPage
<1>6. CASE r.kind = "save"
  <2>1. page = Loading(t, FALSE) \/ page = tab[t]
    BY <1>6 DEF Page
  <2> QED
    BY <1>2, <1>3, <2>1 DEF GoodPage
<1>7. CASE r.kind = "session" /\ answer # "failed" /\ Live(r.sid)
  <2>1. page = [Tab("app") EXCEPT !.sid = r.sid, !.user = session[r.sid]]
    BY <1>7 DEF Page
  <2>2. Tab("app") \in TabState /\ Tab("app").at = "app" /\ ~Tab("app").calm
    BY TabTyped
  <2>3. r.sid \in Ids /\ session[r.sid] \in AccountOrNone
    BY <1>1, <1>7 DEF Live, RequestState, IdOrNone, AppTypeOK
  <2>4. /\ page \in TabState /\ page.sid = r.sid /\ page.user = session[r.sid]
        /\ page.at = "app" /\ ~page.calm
    BY <2>1, <2>2, <2>3 DEF TabState, IdOrNone
  <2> QED
    BY <2>4 DEF Names, GoodPage
<1>8. CASE r.kind = "session" /\ ~(answer # "failed" /\ Live(r.sid))
  <2>1. page = [tab[t] EXCEPT !.at = "landing", !.out = @ /\ answer # "failed"]
    BY <1>8 DEF Page
  <2>2. page \in TabState /\ page.sid = tab[t].sid /\ page.user = tab[t].user
        /\ page.at = "landing" /\ page.calm = tab[t].calm
    BY <1>2, <2>1 DEF TabState
  <2>3. page.out => answer # "failed"
    BY <1>2, <2>1 DEF TabState
  <2> QED
    BY <1>2, <1>8, <2>2, <2>3 DEF GoodPage
<1> QED
  BY <1>1, <1>4, <1>5, <1>6, <1>7, <1>8 DEF RequestState

LEMMA ShowKeeps ==
  ASSUME AppInv, NEW r \in net, NEW answer, Show(r, answer),
         jar' \in [sid : IdOrNone, attempt : IdOrNone], r.kind = "session" => jar' = jar,
         mishaps' \in 0..MaxMishaps
  PROVE  AppInv'
<1>1. AppTypeOK /\ r \in RequestState /\ r.tab \in Tabs \cup {None} /\ jar'.sid \in IdOrNone
  BY DEF AppInv, AppTypeOK, RequestState
<1> PICK t \in Tabs \cup {None} : t = r.tab
  BY <1>1
<1> DEFINE shown == IF t = None THEN tab ELSE [tab EXCEPT ![t] = Page(r, answer)]
           still == jar'.sid \in {jar.sid, None}
\* the tabs before the cookie is looked at
<1>2. ASSUME NEW o \in Tabs
      PROVE  /\ shown[o] \in TabState /\ Names(shown[o].sid, shown[o].user)
             /\ shown[o].at \in {"away", "completing"} => shown[o].sid = None
             /\ shown[o].calm => tab[o].calm
             /\ \/ shown[o] = tab[o] \/ shown[o].at # "landing" \/ ~shown[o].out
                \/ o = t /\ r.kind = "session" /\ ~Live(r.sid)
  <2>1. CASE o = t
    <3>1. r.tab # None /\ shown[o] = Page(r, answer)
      BY <1>1, <2>1, Apart DEF AppTypeOK
    <3> HIDE DEF shown
    <3> QED
      BY <2>1, <3>1, PageFacts DEF GoodPage
  <2>2. CASE o # t
    <3>1. shown[o] = tab[o]
      BY <1>1, <2>2 DEF AppTypeOK
    <3> HIDE DEF shown
    <3> QED
      BY <1>1, <3>1 DEF AppInv, AppTypeOK, PagesName
  <2> QED
    BY <2>1, <2>2
<1>3. /\ tab' = [o \in Tabs |-> [shown[o] EXCEPT !.calm = @ /\ still]]
      /\ \/ net' \subseteq net
         \/ t # None /\ net' \subseteq net \cup Left(t) \cup {AskSession(t)}
      /\ used' \subseteq used
      /\ \E held : session' = [s \in Ids |-> IF s \in held THEN session[s] ELSE None]
  <2> DEFINE held == {jar'.sid} \cup {tab'[o].sid : o \in Tabs}
                     \cup UNION {{q.sid, q.csrf, q.new} : q \in net'}
  <2>1. session' = [s \in Ids |-> IF s \in held THEN session[s] ELSE None]
    BY DEF Show
  <2>2. /\ tab' = [o \in Tabs |-> [shown[o] EXCEPT !.calm = @ /\ still]]
        /\ used' \subseteq used
    BY DEF Show
  <2>3. \/ net' \subseteq net
        \/ t # None /\ net' \subseteq net \cup Left(t) \cup {AskSession(t)}
    BY DEF Show, Stays
  <2> HIDE DEF held
  <2> QED
    BY <2>1, <2>2, <2>3
<1> HIDE DEF shown
<1>4. ASSUME NEW o \in Tabs
      PROVE  /\ tab'[o] \in TabState
             /\ tab'[o].at = shown[o].at /\ tab'[o].sid = shown[o].sid
             /\ tab'[o].user = shown[o].user /\ tab'[o].out = shown[o].out
             /\ tab'[o].calm => shown[o].calm /\ still
  <2>1. tab'[o] = [shown[o] EXCEPT !.calm = @ /\ still] /\ shown[o] \in TabState
    BY <1>2, <1>3
  <2>2. shown[o].calm \in BOOLEAN /\ still \in BOOLEAN
    BY <2>1 DEF TabState
  <2> HIDE DEF still
  <2> QED
    BY <2>1, <2>2 DEF TabState
<1>5. /\ session' \in [Ids -> AccountOrNone]
      /\ \A s \in Ids : session'[s] \in {session[s], None}
  BY <1>1, <1>3 DEF AppTypeOK, AccountOrNone
<1>6. \A s \in IdOrNone : \A u : Names(s, u) => (s # None => session'[s] \in {None, u})
  BY <1>5 DEF Names, IdOrNone
\* the requests: some of those there were, or what is left of them, and one that asks
<1>7. ASSUME NEW q \in net'
      PROVE  /\ q \in RequestState
             /\ q.kind = "complete" => q.new \in IdOrNone
             /\ \/ \E p \in net : LeftOf(q, p)
                \/ q.kind = "session" /\ q.sid = jar'.sid
  <2>1. CASE q \in net
    <3>1. LeftOf(q, q)
      BY DEF LeftOf
    <3> QED
      BY <1>1, <2>1, <3>1 DEF AppTypeOK
  <2>2. CASE t # None /\ q \in Left(t)
    <3>1. q \in RequestState
      BY <1>1, <2>2, LeftFacts
    <3> PICK p \in net : LeftOf(q, p)
      BY <1>1, <2>2, LeftFacts
    <3>2. q.kind = "complete" => q.new \in IdOrNone
      BY <1>1 DEF AppTypeOK, LeftOf
    <3> QED
      BY <3>1, <3>2
  <2>3. CASE t # None /\ q = AskSession(t)
    BY <1>1, <2>3, AskTyped
  <2> QED
    BY <1>3, <2>1, <2>2, <2>3
<1>8. AppTypeOK'
  <2>1. tab' \in [Tabs -> TabState]
    BY <1>3, <1>4
  <2> QED
    BY <1>1, <1>3, <1>5, <1>7, <2>1 DEF AppTypeOK
<1>9. PagesName'
  <2>1. ASSUME NEW o \in Tabs
        PROVE  /\ tab'[o].sid # None => session'[tab'[o].sid] \in {None, tab'[o].user}
               /\ tab'[o].at \in {"away", "completing"} => tab'[o].sid = None
    <3>1. shown[o].sid \in IdOrNone /\ Names(shown[o].sid, shown[o].user)
      BY <1>2 DEF TabState
    <3> QED
      BY <1>2, <1>4, <1>6, <3>1
  <2> QED
    BY <2>1 DEF PagesName, Names
<1>10. SavesName'
  <2>1. ASSUME NEW q \in net', q.kind = "save"
        PROVE  q.csrf # None => session'[q.csrf] \in {None, q.user}
    <3>1. Names(q.csrf, q.user)
      BY <1>7, <2>1 DEF AppInv, SavesName, LeftOf
    <3>2. q.csrf \in IdOrNone
      BY <1>7 DEF RequestState
    <3> QED
      BY <1>6, <3>1, <3>2
  <2> QED
    BY <2>1 DEF SavesName, Names
<1>11. AsksForJar'
  <2> SUFFICES ASSUME NEW q \in net', q.kind = "session", q.tab # None, tab'[q.tab].calm
               PROVE  jar'.sid \in {q.sid, None}
    BY DEF AsksForJar
  <2>1. q.tab \in Tabs
    BY <1>7 DEF RequestState
  <2>2. still /\ tab[q.tab].calm
    BY <1>2, <1>4, <2>1
  <2>3. CASE q \in net
    BY <2>2, <2>3 DEF AppInv, AsksForJar
  <2>4. CASE q.sid = jar'.sid
    BY <2>4
  <2> QED
    BY <1>7, <2>3, <2>4 DEF LeftOf
<1>12. SavedUnderAccountShown'
  <2> SUFFICES ASSUME NEW q \in net', q.kind = "save", q.answer = "saved"
               PROVE  q.new = q.user
    BY DEF SavedUnderAccountShown
  <2> QED
    BY <1>7 DEF AppInv, SavedUnderAccountShown, LeftOf
<1>13. SignedOutMeansOut'
  <2> SUFFICES ASSUME NEW o \in Tabs, tab'[o].at = "landing", tab'[o].out, tab'[o].calm
               PROVE  ~Live(jar.sid)'
    BY DEF SignedOutMeansOut
  <2>1. /\ shown[o].at = "landing" /\ shown[o].out /\ shown[o].calm
        /\ jar'.sid \in {jar.sid, None} /\ tab[o].calm
    BY <1>2, <1>4
  <2>2. ~Live(jar.sid)
    <3>1. CASE shown[o] = tab[o]
      BY <2>1, <3>1 DEF AppInv, SignedOutMeansOut
    <3>2. CASE o = t /\ r.kind = "session" /\ ~Live(r.sid)
      <4>1. jar.sid \in {r.sid, None}
        BY <2>1, <3>2, Apart DEF AppInv, AsksForJar
      <4> QED
        BY <3>2, <4>1 DEF Live
    <3> QED
      BY <1>2, <2>1, <3>1, <3>2
  <2> QED
    BY <1>1, <1>5, <2>1, <2>2 DEF Live, IdOrNone
<1> QED
  BY <1>8, <1>9, <1>10, <1>11, <1>12, <1>13 DEF AppInv

LEMMA JarTyped ==
  ASSUME AppTypeOK, NEW r \in net, jar' = NewJar(r)
  PROVE  /\ jar' \in [sid : IdOrNone, attempt : IdOrNone]
         /\ r.kind = "session" => jar' = jar
<1>1. r \in RequestState /\ jar \in [sid : IdOrNone, attempt : IdOrNone] /\ None \in IdOrNone
      /\ (r.kind = "complete" => r.new \in IdOrNone)
  BY DEF AppTypeOK, IdOrNone
<1>2. CASE r.kind = "complete" /\ r.answer = "refused"
  BY <1>1, <1>2 DEF NewJar
<1>3. CASE r.kind = "complete" /\ r.answer # "refused"
  BY <1>1, <1>3 DEF NewJar
<1>4. CASE r.kind = "logout"
  BY <1>1, <1>4 DEF NewJar
<1>5. CASE r.kind \notin {"complete", "logout"}
  BY <1>1, <1>5 DEF NewJar
<1> QED
  BY <1>2, <1>3, <1>4, <1>5

LEMMA DeliverKeeps ==
  ASSUME AppInv, NEW r \in net, Deliver(r) PROVE AppInv'
<1>1. AppTypeOK /\ Show(r, r.answer) /\ mishaps' = mishaps /\ jar' = NewJar(r)
  BY DEF AppInv, Deliver
<1>2. mishaps' \in 0..MaxMishaps
  BY <1>1 DEF AppTypeOK
<1> QED
  BY <1>1, <1>2, JarTyped, ShowKeeps

LEMMA LoseKeeps ==
  ASSUME AppInv, NEW r \in net, Lose(r) PROVE AppInv'
<1>1. AppTypeOK /\ Show(r, "failed") /\ jar' = jar /\ Mishap
  BY DEF AppInv, Lose
<1>2. jar' \in [sid : IdOrNone, attempt : IdOrNone] /\ mishaps' \in 0..MaxMishaps
  BY <1>1, MishapTyped DEF AppTypeOK
<1> QED
  BY <1>1, <1>2, ShowKeeps

-----------------------------------------------------------------------------
LEMMA AppInitHolds == AppInit => AppInv
<1> SUFFICES ASSUME AppInit PROVE AppInv
  OBVIOUS
<1>1. Tab("landing") \in TabState /\ Tab("landing").at = "landing"
      /\ Tab("landing").sid = None /\ ~Tab("landing").out
  BY TabTyped
<1>2. \A t \in Tabs : tab[t] = Tab("landing")
  BY DEF AppInit
<1>3. AppTypeOK
  BY <1>1, RelyingPartyAssumption DEF AppInit, AppTypeOK, IdOrNone, AccountOrNone
<1> QED
  BY <1>1, <1>2, <1>3 DEF AppInit, AppInv, PagesName, SavesName, AsksForJar, Names,
     SavedUnderAccountShown, SignedOutMeansOut

LEMMA AppStep == AppInv /\ [AppNext]_appVars => AppInv'
<1> SUFFICES ASSUME AppInv, [AppNext]_appVars PROVE AppInv'
  OBVIOUS
<1>1. ASSUME NEW r \in net, Serve(r) PROVE AppInv'
  BY <1>1, RedeemKeeps, CreateSessionKeeps, LogoutKeeps, SaveDocumentKeeps DEF Serve
<1>2. ASSUME NEW t \in Tabs, User(t) PROVE AppInv'
  <2>1. ASSUME NEW u \in Users, Grant(t, u) PROVE AppInv'
    <3>1. tab[t].attempt \in IdOrNone /\ u \in AccountOrNone
      BY DEF AppInv, AppTypeOK, TabState, AccountOrNone
    <3>2. Mishap \/ UNCHANGED mishaps
      BY <2>1 DEF Grant
    <3> QED
      BY <2>1, <3>1, <3>2, CompleteKeeps DEF Grant
  <2>2. CASE Refuse(t)
    <3>1. None \in IdOrNone /\ None \in AccountOrNone
      BY DEF IdOrNone, AccountOrNone
    <3> QED
      BY <2>2, <3>1, CompleteKeeps DEF Refuse
  <2>3. CASE ReloadCallback(t)
    <3>1. tab[t].attempt \in IdOrNone /\ tab[t].user \in AccountOrNone
      BY DEF AppInv, AppTypeOK, TabState
    <3> QED
      BY <2>3, <3>1, CompleteKeeps DEF ReloadCallback
  <2> QED
    BY <1>2, <2>1, <2>2, <2>3, LoginKeeps, ReloadKeeps, SaveKeeps, SignOutKeeps DEF User
<1>3. CASE UNCHANGED appVars
  BY <1>3 DEF appVars, AppInv, AppTypeOK, PagesName, SavesName, AsksForJar, Names, Live,
     SavedUnderAccountShown, SignedOutMeansOut
<1> QED
  BY <1>1, <1>2, <1>3, DeliverKeeps, LoseKeeps, RedeemFailsKeeps, ExpireKeeps DEF AppNext

\* The whole invariant holds in every behaviour of an application and its tabs.
THEOREM AppInductive == AppSpec => []AppInv
BY AppInitHolds, AppStep, PTL DEF AppSpec

\* Whatever tabs cross, a document is saved under the account its page shows: the CSRF
\* token is that of the session the page was loaded with.
THEOREM SavedUnderAccountShownHolds == AppSpec => []SavedUnderAccountShown
<1>1. AppInv => SavedUnderAccountShown
  BY DEF AppInv
<1> QED
  BY <1>1, AppInductive, PTL

\* Who signed out and was shown the landing page by the server has no session that
\* works, unless someone signed in since.
THEOREM SignedOutMeansOutHolds == AppSpec => []SignedOutMeansOut
<1>1. AppInv => SignedOutMeansOut
  BY DEF AppInv
<1> QED
  BY <1>1, AppInductive, PTL
=============================================================================
