---------------------------- MODULE LedgerProofs -----------------------------
(***************************************************************************)
(* Proofs about what zauth-core keeps for the record: AuditChain, for any    *)
(* number of writers and events, and Anchor, for any number of identities,   *)
(* versions, runs and failures.                                              *)
(***************************************************************************)
EXTENDS AuditChain, Anchor, TLAPS

-----------------------------------------------------------------------------
(* The audit log can always be walked back to GENESIS, and an event that no  *)
(* other write overlapped is chained to the event right before it.           *)

\* What each action leaves of the state the invariant looks at.
LEMMA HashTyped ==
  /\ Genesis \in Hashes
  /\ \A prev \in Hashes, p \in Payloads : Hash(prev, p) \in Hashes
BY DEF Genesis, Hash, Hashes

LEMMA LastHashTyped ==
  ASSUME ChainTypeOK
  PROVE  LastHash \subseteq Hashes
BY HashTyped DEF ChainTypeOK, LastHash, Newest, Row

LEMMA SelectEffect ==
  ASSUME ChainTypeOK, NEW w \in Writers, NEW p \in Payloads, SelectPrevious(w, p)
  PROVE  /\ ~Writing(w) /\ UNCHANGED <<log, nextId>>
         /\ job'[w].pc = "insert" /\ job'[w].prev \in LastHash
         /\ job'[w].alone => \A x \in Writers \ {w} : ~Writing(x)
         /\ \A v \in Writers \ {w} :
              /\ job'[v].pc = job[v].pc /\ job'[v].id = job[v].id
              /\ job'[v].prev = job[v].prev
              /\ Writing(v) => ~job'[v].alone
         /\ job' \in [Writers -> Job]
         /\ \A v \in Writers : Writing(v)' => job'[v].text \in Payloads
<1> PICK prev \in LastHash :
      job' = [v \in Writers |->
                IF v = w THEN [pc |-> "insert", id |-> 0, text |-> p, prev |-> prev,
                               alone |-> \A x \in Writers \ {w} : ~Writing(x)]
                ELSE IF Writing(v) THEN [job[v] EXCEPT !.alone = FALSE]
                ELSE job[v]]
  BY DEF SelectPrevious
<1>0. prev \in Hashes
  BY LastHashTyped
<1>1. ~Writing(w) /\ UNCHANGED <<log, nextId>>
  BY DEF SelectPrevious
<1>2. job'[w] = [pc |-> "insert", id |-> 0, text |-> p, prev |-> prev,
                 alone |-> \A x \in Writers \ {w} : ~Writing(x)]
  OBVIOUS
<1>3. (\A x \in Writers \ {w} : ~Writing(x)) \in BOOLEAN
  BY Zenon
<1>4. job'[w] \in Job
  BY <1>0, <1>2, <1>3 DEF Job
<1>5. ASSUME NEW v \in Writers \ {w}
      PROVE  /\ job'[v] \in Job
             /\ job'[v].pc = job[v].pc /\ job'[v].id = job[v].id
             /\ job'[v].prev = job[v].prev /\ job'[v].text = job[v].text
             /\ Writing(v) => ~job'[v].alone
  <2>1. job[v] \in Job
    BY DEF ChainTypeOK
  <2>2. CASE Writing(v)
    <3>1. job'[v] = [job[v] EXCEPT !.alone = FALSE]
      BY <2>2
    <3> QED
      BY <2>1, <3>1 DEF Job
  <2>3. CASE ~Writing(v)
    BY <2>1, <2>3
  <2> QED
    BY <2>2, <2>3
<1>6. job' \in [Writers -> Job]
  <2>1. \A v \in Writers : job'[v] \in Job
    BY <1>4, <1>5
  <2>2. job' = [v \in Writers |-> job'[v]]
    OBVIOUS
  <2> QED
    BY <2>1, <2>2
<1>7. \A v \in Writers : Writing(v)' => job'[v].text \in Payloads
  BY <1>2, <1>5 DEF ChainTypeOK, Writing
<1> QED
  BY <1>1, <1>2, <1>5, <1>6, <1>7

\* The three other actions change one job, and only a commit the log.
OneJob(w) == \A v \in Writers \ {w} : job'[v] = job[v]

LEMMA DrawEffect ==
  ASSUME ChainTypeOK, NEW w \in Writers, DrawId(w)
  PROVE  /\ job[w].pc = "insert" /\ job'[w].pc = "commit" /\ job'[w].id = nextId
         /\ job'[w].prev = job[w].prev /\ job'[w].text = job[w].text
         /\ job'[w].alone = job[w].alone
         /\ nextId' = nextId + 1 /\ log' = log
         /\ OneJob(w) /\ job' \in [Writers -> Job]
<1>1. job[w] \in Job /\ nextId \in Nat
  BY DEF ChainTypeOK
<1>2. job'[w] = [job[w] EXCEPT !.pc = "commit", !.id = nextId] /\ OneJob(w)
  BY DEF DrawId, ChainTypeOK, OneJob
<1>3. job'[w] \in Job
  BY <1>1, <1>2 DEF Job
<1> QED
  BY <1>1, <1>2, <1>3 DEF DrawId, ChainTypeOK, OneJob, Job

LEMMA CommitEffect ==
  ASSUME ChainTypeOK, NEW w \in Writers, CommitRow(w)
  PROVE  /\ job[w].pc = "commit" /\ job'[w] = NoEvent /\ nextId' = nextId
         /\ OneJob(w) /\ job' \in [Writers -> Job]
         /\ \E e \in Row : /\ log' = log \cup {e}
                           /\ e.id = job[w].id /\ e.prev = job[w].prev
                           /\ e.alone = job[w].alone
<1>1. job[w] \in Job /\ job[w].text \in Payloads
  BY DEF ChainTypeOK, CommitRow, Writing
<1>2. job'[w] = NoEvent /\ OneJob(w)
  BY DEF CommitRow, ChainTypeOK, OneJob
<1>3. NoEvent \in Job
  BY HashTyped DEF NoEvent, Job
<1>4. job' \in [Writers -> Job]
  BY <1>2, <1>3 DEF CommitRow, ChainTypeOK, OneJob
<1> DEFINE e == [id |-> job[w].id, payload |-> Jsonb[job[w].text], prev |-> job[w].prev,
                 hash |-> Hash(job[w].prev, job[w].text), alone |-> job[w].alone]
<1>5. job[w].id \in Nat /\ job[w].prev \in Hashes /\ job[w].alone \in BOOLEAN
  BY <1>1 DEF Job
<1>6. Jsonb[job[w].text] \in Payloads
  BY <1>1, ChainAssumption
<1>7. Hash(job[w].prev, job[w].text) \in Hashes
  BY <1>1, <1>5, HashTyped
<1>8. e \in Row
  BY <1>5, <1>6, <1>7 DEF Row
<1>9. log' = log \cup {e}
  BY DEF CommitRow
<1> QED
  BY <1>2, <1>4, <1>8, <1>9 DEF CommitRow

LEMMA FailEffect ==
  ASSUME ChainTypeOK, NEW w \in Writers, FailWrite(w)
  PROVE  /\ job'[w] = NoEvent /\ UNCHANGED <<log, nextId>>
         /\ OneJob(w) /\ job' \in [Writers -> Job]
<1>1. NoEvent \in Job
  BY HashTyped DEF NoEvent, Job
<1> QED
  BY <1>1 DEF FailWrite, ChainTypeOK, OneJob

-----------------------------------------------------------------------------
LEMMA ChainTypeInit == ChainInit => ChainTypeOK
<1>1. NoEvent \in Job
  BY HashTyped DEF NoEvent, Job
<1> QED
  BY <1>1 DEF ChainInit, ChainTypeOK, Writing, NoEvent

LEMMA ChainTypeStep == ChainTypeOK /\ [ChainNext]_chainVars => ChainTypeOK'
<1> SUFFICES ASSUME ChainTypeOK, [ChainNext]_chainVars PROVE ChainTypeOK'
  OBVIOUS
<1>1. ASSUME NEW w \in Writers, NEW p \in Payloads, SelectPrevious(w, p) PROVE ChainTypeOK'
  <2>1. /\ UNCHANGED <<log, nextId>> /\ job' \in [Writers -> Job]
        /\ \A v \in Writers : Writing(v)' => job'[v].text \in Payloads
    BY <1>1, SelectEffect
  <2> QED
    BY <2>1 DEF ChainTypeOK
<1>2. ASSUME NEW w \in Writers, DrawId(w) PROVE ChainTypeOK'
  BY <1>2, DrawEffect DEF ChainTypeOK, Writing, OneJob
<1>3. ASSUME NEW w \in Writers, CommitRow(w) PROVE ChainTypeOK'
  BY <1>3, CommitEffect DEF ChainTypeOK, Writing, OneJob, NoEvent
<1>4. ASSUME NEW w \in Writers, FailWrite(w) PROVE ChainTypeOK'
  BY <1>4, FailEffect DEF ChainTypeOK, Writing, OneJob, NoEvent
<1>5. CASE UNCHANGED chainVars
  BY <1>5 DEF chainVars, ChainTypeOK, Writing
<1> QED
  BY <1>1, <1>2, <1>3, <1>4, <1>5 DEF ChainNext

-----------------------------------------------------------------------------
(* The inductive invariant, one lemma per action.                           *)

\* What of the invariant is about the log alone.
LogOK == IdsUnique /\ WalksBack /\ AloneMeansLinked

LEMMA LogStays ==
  ASSUME LogOK, log' = log
  PROVE  LogOK'
BY DEF LogOK, IdsUnique, WalksBack, AloneMeansLinked, Follows, LinkedTo

Flight == IdsDrawn /\ HashesHeld /\ AloneHeld /\ AloneIsSettled

LEMMA SelectKeeps ==
  ASSUME ChainTypeOK, Flight, NEW w \in Writers, NEW p \in Payloads, SelectPrevious(w, p)
  PROVE  Flight'
<1>1. /\ ~Writing(w) /\ log' = log /\ nextId' = nextId
      /\ job'[w].pc = "insert" /\ job'[w].prev \in LastHash
      /\ job'[w].alone => \A x \in Writers \ {w} : ~Writing(x)
      /\ \A v \in Writers \ {w} :
           /\ job'[v].pc = job[v].pc /\ job'[v].id = job[v].id
           /\ job'[v].prev = job[v].prev
           /\ Writing(v) => ~job'[v].alone
  BY SelectEffect
<1>2. IdsDrawn'
  BY <1>1 DEF Flight, IdsDrawn
<1>3. HashesHeld'
  <2>1. HoldsVisible(w)'
    BY <1>1 DEF HoldsVisible, LastHash, Newest
  <2>2. ASSUME NEW v \in Writers \ {w}, Writing(v)' PROVE HoldsVisible(v)'
    BY <1>1, <2>2 DEF Flight, HashesHeld, HoldsVisible, Writing
  <2> QED
    BY <2>1, <2>2 DEF HashesHeld
<1>4. AloneHeld'
  <2>1. ASSUME job'[w].alone PROVE AloneHoldsNewest(w)'
    BY <1>1, <2>1 DEF AloneHoldsNewest, LastHash, Newest, Writing
  <2>2. ASSUME NEW v \in Writers \ {w}, Writing(v)' PROVE ~job'[v].alone
    BY <1>1, <2>2 DEF Writing
  <2> QED
    BY <2>1, <2>2 DEF AloneHeld
<1>5. AloneIsSettled'
  BY <1>1 DEF Flight, AloneIsSettled
<1> QED
  BY <1>2, <1>3, <1>4, <1>5 DEF Flight

LEMMA DrawKeeps ==
  ASSUME ChainTypeOK, Flight, NEW w \in Writers, DrawId(w)
  PROVE  Flight'
<1>1. /\ job[w].pc = "insert" /\ job'[w].pc = "commit" /\ job'[w].id = nextId
      /\ job'[w].prev = job[w].prev /\ job'[w].alone = job[w].alone
      /\ nextId' = nextId + 1 /\ log' = log
      /\ \A v \in Writers \ {w} : job'[v] = job[v]
  BY DrawEffect DEF OneJob
<1>2. /\ nextId \in Nat \ {0} /\ \A e \in log : e.id \in Nat
      /\ \A v \in Writers : job[v].id \in Nat
  BY DEF ChainTypeOK, Row, Job
<1>3. IdsDrawn'
  <2>1. \A e \in log : 0 < e.id /\ e.id < nextId + 1 /\ e.id # nextId
    BY <1>2 DEF Flight, IdsDrawn
  <2>2. ASSUME NEW v \in Writers \ {w}, job'[v].pc = "commit"
        PROVE  /\ 0 < job'[v].id /\ job'[v].id < nextId + 1
               /\ job'[v].id # nextId
               /\ \A e \in log : e.id # job'[v].id
               /\ \A u \in Writers \ {w} :
                    job'[u].pc = "commit" /\ job'[u].id = job'[v].id => u = v
    BY <1>1, <1>2, <2>2 DEF Flight, IdsDrawn
  <2> QED
    BY <1>1, <1>2, <2>1, <2>2 DEF IdsDrawn
<1>4. HashesHeld'
  <2>1. HoldsVisible(w)'
    BY <1>1 DEF Flight, HashesHeld, HoldsVisible, Writing, IdsDrawn
  <2>2. ASSUME NEW v \in Writers \ {w}, Writing(v)' PROVE HoldsVisible(v)'
    BY <1>1, <2>2 DEF Flight, HashesHeld, HoldsVisible, Writing
  <2> QED
    BY <2>1, <2>2 DEF HashesHeld
<1>5. AloneHeld'
  <2>1. ASSUME job'[w].alone PROVE AloneHoldsNewest(w)'
    <3>1. AloneHoldsNewest(w)
      BY <1>1, <2>1 DEF Flight, AloneHeld, Writing
    <3> QED
      BY <1>1, <3>1 DEF Flight, IdsDrawn, AloneHoldsNewest, Newest, Writing
  <2>2. ASSUME NEW v \in Writers \ {w}, Writing(v)' PROVE ~job'[v].alone
    BY <1>1, <2>2 DEF Flight, AloneHeld, AloneHoldsNewest, Writing
  <2> QED
    BY <2>1, <2>2 DEF AloneHeld
<1>6. AloneIsSettled'
  BY <1>1 DEF Flight, AloneIsSettled, IdsDrawn
<1> QED
  BY <1>3, <1>4, <1>5, <1>6 DEF Flight

LEMMA CommitKeeps ==
  ASSUME ChainTypeOK, Flight, LogOK, NEW w \in Writers, CommitRow(w)
  PROVE  Flight' /\ LogOK'
<1> PICK e \in Row : /\ log' = log \cup {e}
                     /\ e.id = job[w].id /\ e.prev = job[w].prev
                     /\ e.alone = job[w].alone
  BY CommitEffect
<1>1. /\ job[w].pc = "commit" /\ job'[w] = NoEvent /\ nextId' = nextId
      /\ \A v \in Writers \ {w} : job'[v] = job[v]
  BY CommitEffect DEF OneJob
<1>2. /\ nextId \in Nat /\ e.id \in Nat /\ \A d \in log : d.id \in Nat
      /\ \A v \in Writers : job[v].id \in Nat
  BY DEF ChainTypeOK, Row, Job
<1>3. /\ 0 < e.id /\ e.id < nextId /\ \A d \in log : d.id # e.id
      /\ \A v \in Writers \ {w} : job[v].pc = "commit" => job[v].id # e.id
  BY <1>1 DEF Flight, IdsDrawn
\* An event written alone meets nobody else.
<1>4. ASSUME e.alone
      PROVE  AloneHoldsNewest(w)
  BY <1>1, <1>4 DEF Flight, AloneHeld, Writing
<1>5. \A v \in Writers \ {w} : Writing(v) => ~job[v].alone
  BY <1>1 DEF Flight, AloneHeld, AloneHoldsNewest, Writing
<1>6. IdsDrawn'
  BY <1>1, <1>3 DEF Flight, IdsDrawn, NoEvent
<1>7. HashesHeld'
  BY <1>1 DEF Flight, HashesHeld, HoldsVisible, Writing, NoEvent
<1>8. AloneHeld'
  BY <1>1, <1>5 DEF AloneHeld, Writing, NoEvent
<1>9. AloneIsSettled'
  <2>1. e.alone => \A v \in Writers \ {w} : job[v].pc # "commit"
    BY <1>4 DEF AloneHoldsNewest, Writing
  <2> QED
    BY <1>1, <2>1 DEF Flight, AloneIsSettled, NoEvent
<1>10. IdsUnique'
  BY <1>3 DEF LogOK, IdsUnique
<1>11. WalksBack'
  <2>1. e.prev = Genesis \/ \E d \in log : d.id < e.id /\ LinkedTo(e, d)
    BY <1>1 DEF Flight, HashesHeld, HoldsVisible, Writing, LinkedTo
  <2> QED
    BY <2>1 DEF LogOK, WalksBack, LinkedTo
<1>12. AloneMeansLinked'
  <2>1. ASSUME e.alone
        PROVE  \/ \E d \in log : Follows(e, d)' /\ LinkedTo(e, d)
               \/ e.prev = Genesis /\ \A d \in log' : e.id <= d.id
    <3>1. CASE log = {} /\ job[w].prev = Genesis
      BY <1>2, <3>1
    <3>2. ASSUME NEW d \in Newest(log), d.hash = job[w].prev
          PROVE  d \in log /\ Follows(e, d)' /\ LinkedTo(e, d)
      BY <1>1, <1>2, <1>4, <2>1, <3>2 DEF Newest, Follows, LinkedTo, AloneHoldsNewest
    <3> QED
      BY <1>4, <2>1, <3>1, <3>2 DEF AloneHoldsNewest
  <2>2. ASSUME NEW f \in log, f.alone
        PROVE  \/ \E d \in log : Follows(f, d)' /\ LinkedTo(f, d)
               \/ f.prev = Genesis /\ \A d \in log' : f.id <= d.id
    <3>1. f.id < e.id
      BY <1>1, <2>2 DEF Flight, AloneIsSettled
    <3>2. ASSUME NEW d \in log, Follows(f, d) PROVE Follows(f, d)'
      BY <1>2, <3>1, <3>2 DEF Follows
    <3> QED
      BY <1>2, <2>2, <3>1, <3>2 DEF LogOK, AloneMeansLinked
  <2> QED
    BY <2>1, <2>2 DEF AloneMeansLinked, LinkedTo
<1> QED
  BY <1>6, <1>7, <1>8, <1>9, <1>10, <1>11, <1>12 DEF Flight, LogOK

LEMMA FailKeeps ==
  ASSUME ChainTypeOK, Flight, NEW w \in Writers, FailWrite(w)
  PROVE  Flight'
<1>1. /\ job'[w] = NoEvent /\ log' = log /\ nextId' = nextId
      /\ \A v \in Writers \ {w} : job'[v] = job[v]
  BY FailEffect DEF OneJob
<1>2. IdsDrawn'
  BY <1>1 DEF Flight, IdsDrawn, NoEvent
<1>3. HashesHeld'
  BY <1>1 DEF Flight, HashesHeld, HoldsVisible, Writing, NoEvent
<1>4. AloneHeld'
  BY <1>1 DEF Flight, AloneHeld, AloneHoldsNewest, Newest, Writing, NoEvent
<1>5. AloneIsSettled'
  BY <1>1 DEF Flight, AloneIsSettled, NoEvent
<1> QED
  BY <1>2, <1>3, <1>4, <1>5 DEF Flight

LEMMA ChainInvParts == ChainInv <=> ChainTypeOK /\ Flight /\ LogOK
BY DEF ChainInv, Flight, LogOK

LEMMA ChainInvInit == ChainInit => ChainInv
BY ChainTypeInit DEF ChainInit, ChainInv, IdsUnique, IdsDrawn, HashesHeld, AloneHeld,
   AloneIsSettled, WalksBack, AloneMeansLinked, Writing, NoEvent

LEMMA ChainInvStep == ChainInv /\ [ChainNext]_chainVars => ChainInv'
<1> SUFFICES ASSUME ChainInv, [ChainNext]_chainVars PROVE ChainInv'
  OBVIOUS
<1>0. ChainTypeOK /\ Flight /\ LogOK /\ ChainTypeOK'
  BY ChainInvParts, ChainTypeStep
<1>1. ASSUME NEW w \in Writers, NEW p \in Payloads, SelectPrevious(w, p)
      PROVE  Flight' /\ LogOK'
  <2>1. log' = log
    BY <1>1 DEF SelectPrevious
  <2> QED
    BY <1>0, <1>1, <2>1, SelectKeeps, LogStays
<1>2. ASSUME NEW w \in Writers, DrawId(w) PROVE Flight' /\ LogOK'
  <2>1. log' = log
    BY <1>2 DEF DrawId
  <2> QED
    BY <1>0, <1>2, <2>1, DrawKeeps, LogStays
<1>3. ASSUME NEW w \in Writers, CommitRow(w) PROVE Flight' /\ LogOK'
  BY <1>0, <1>3, CommitKeeps
<1>4. ASSUME NEW w \in Writers, FailWrite(w) PROVE Flight' /\ LogOK'
  <2>1. log' = log
    BY <1>4 DEF FailWrite
  <2> QED
    BY <1>0, <1>4, <2>1, FailKeeps, LogStays
<1>5. ASSUME UNCHANGED chainVars PROVE Flight' /\ LogOK'
  <2>1. Flight'
    BY <1>0, <1>5 DEF chainVars, Flight, IdsDrawn, HashesHeld, HoldsVisible, AloneHeld,
       AloneHoldsNewest, AloneIsSettled, Newest, Writing
  <2> QED
    BY <1>0, <1>5, <2>1, LogStays DEF chainVars
<1>6. Flight' /\ LogOK'
  BY <1>1, <1>2, <1>3, <1>4, <1>5 DEF ChainNext
<1>7. ChainInv' <=> ChainTypeOK' /\ Flight' /\ LogOK'
  BY DEF ChainInv, Flight, LogOK
<1> QED
  BY <1>0, <1>6, <1>7

\* The whole invariant holds for any number of writers and events.
THEOREM ChainInductive == ChainSpec => []ChainInv
BY ChainInvInit, ChainInvStep, PTL DEF ChainSpec

\* From every event in the log one can walk back to GENESIS.
THEOREM WalksBackHolds == ChainSpec => []WalksBack
<1>1. ChainInv => WalksBack
  BY DEF ChainInv
<1> QED
  BY <1>1, ChainInductive, PTL

\* An event that was written alone is chained to its predecessor for good.
THEOREM AloneMeansLinkedHolds == ChainSpec => []AloneMeansLinked
<1>1. ChainInv => AloneMeansLinked
  BY DEF ChainInv
<1> QED
  BY <1>1, ChainInductive, PTL

-----------------------------------------------------------------------------
(* Anchoring: every step of a run moves that run only.                      *)

OneRun(r) == \A q \in Runs \ {r} : run'[q] = run[q]

LEMMA InitHolds == Init => IInv
<1> SUFFICES ASSUME Init PROVE IInv
  OBVIOUS
<1>1. Created = {} /\ Committed = {} /\ Busy = {}
  BY DEF Init, Created, Committed, Busy, Idle
<1>2. TypeOK
  <2>1. Idle \in Run
    BY DEF Idle, Run
  <2>2. 0 \in 0..Versions /\ 0 \in 0..MaxFaults /\ 0 \in 0..2
    BY AnchorAssumption
  <2> QED
    BY <2>1, <2>2 DEF Init, TypeOK
<1>3. NothingSkipped /\ OncePerIdentity /\ ChainAgrees /\ TableCovers
  BY <1>1 DEF Init, NothingSkipped, OncePerIdentity, ChainAgrees, TableCovers
<1>4. ASSUME NEW r \in Runs PROVE RunCarries(r)
  BY <1>1 DEF Init, RunCarries, Idle, Uid
<1> QED
  BY <1>1, <1>2, <1>3, <1>4 DEF IInv

-----------------------------------------------------------------------------
\* Rows that come and change do no harm if those that come while a run is in progress
\* are noted.
LEMMA RowsKeep ==
  ASSUME IInv, TypeOK', UNCHANGED <<books, run, chain, faults, overlapped>>,
         Created \subseteq Created', Committed \subseteq Committed', crossed \subseteq crossed',
         Busy # {} => Created' \ crossed' \subseteq Created \ crossed,
         \A u \in Created' : root'[u] > 0
  PROVE  IInv'
<1>1. /\ old' = old /\ times' = times /\ vouched' = vouched /\ run' = run
      /\ chain' = chain /\ faults' = faults /\ overlapped' = overlapped /\ Busy' = Busy
  BY DEF books, Busy
<1>2. NothingSkipped' /\ OncePerIdentity' /\ ChainAgrees' /\ TableCovers'
  BY <1>1 DEF IInv, NothingSkipped, OncePerIdentity, ChainAgrees, TableCovers, Uid
<1>3. Busy' # {} => Created' \ crossed' \subseteq Committed'
  BY <1>1 DEF IInv
<1>4. ~overlapped' => \A r1, r2 \in Busy' : r1 = r2
  BY <1>1 DEF IInv
<1>5. ASSUME NEW r \in Runs PROVE RunCarries(r)'
  <2>1. RunCarries(r)
    BY DEF IInv
  <2>2. run[r].pc \in {"submit", "store"} => Busy # {}
    BY DEF Busy
  <2> QED
    BY <1>1, <2>1, <2>2 DEF RunCarries, Uid
<1> QED
  BY <1>2, <1>3, <1>4, <1>5 DEF IInv

LEMMA InsertBeginsKeeps ==
  ASSUME IInv, NEW u \in Uids, InsertBegins(u) PROVE IInv'
<1>1. TypeOK
  BY DEF IInv
<1>2. TypeOK'
  BY <1>1, AnchorAssumption DEF TypeOK, InsertBegins, books
<1>3. Created' = Created \cup {u} /\ Committed' = Committed
  BY <1>1 DEF TypeOK, InsertBegins, Created, Committed
<1>4. crossed \subseteq crossed'
      /\ (Busy # {} => Created' \ crossed' \subseteq Created \ crossed)
  BY <1>3 DEF InsertBegins
<1>5. \A v \in Created' : root'[v] > 0
  BY <1>1, <1>3 DEF TypeOK, InsertBegins, Created, IInv, TableCovers
<1> QED
  BY <1>2, <1>3, <1>4, <1>5, RowsKeep DEF InsertBegins

LEMMA InsertEndsKeeps ==
  ASSUME IInv, NEW u \in Uids, InsertEnds(u) PROVE IInv'
<1>1. TypeOK
  BY DEF IInv
<1>2. TypeOK'
  BY <1>1 DEF TypeOK, InsertEnds, books
<1>3. Created' = Created /\ Committed' = Committed \cup {u}
  BY <1>1 DEF TypeOK, InsertEnds, Created, Committed
<1>4. \A v \in Created' : root'[v] > 0
  BY <1>3 DEF InsertEnds, IInv, TableCovers
<1> QED
  BY <1>2, <1>3, <1>4, RowsKeep DEF InsertEnds

LEMMA ReenrollKeeps ==
  ASSUME IInv, NEW u \in Uids, Reenroll(u) PROVE IInv'
<1>1. TypeOK
  BY DEF IInv
<1>2. TypeOK'
  BY <1>1, AnchorAssumption DEF TypeOK, Reenroll, books
<1>3. Created' = Created /\ Committed' = Committed
  BY DEF Reenroll, Created, Committed
<1>4. \A v \in Created' : root'[v] > 0
  BY <1>1, <1>3 DEF TypeOK, Reenroll, IInv, TableCovers
<1> QED
  BY <1>2, <1>3, <1>4, RowsKeep DEF Reenroll

LEMMA AuditEventKeeps ==
  ASSUME IInv, AuditEvent PROVE IInv'
<1>1. TypeOK'
  BY DEF IInv, TypeOK, AuditEvent, books
<1>2. Created' = Created /\ Committed' = Committed
  BY DEF AuditEvent, Created, Committed
<1> QED
  BY <1>1, <1>2, RowsKeep DEF AuditEvent, IInv, TableCovers

-----------------------------------------------------------------------------
LEMMA StartKeeps ==
  ASSUME IInv, NEW r \in Runs, Start(r) PROVE IInv'
<1>1. TypeOK
  BY DEF IInv
<1>2. run'[r] = [pc |-> "select", before |-> old, leaves |-> {}, real |-> FALSE] /\ OneRun(r)
  BY <1>1 DEF TypeOK, Start, Idle, OneRun
<1>3. /\ Created' = Created /\ Committed' = Committed /\ root' = root
      /\ old' = old /\ times' = times /\ vouched' = vouched /\ chain' = chain
      /\ faults' = faults /\ crossed' = crossed \cup (Created \ Committed)
      /\ Busy' = Busy \cup {r} /\ r \notin Busy
  BY <1>2 DEF Start, Created, Committed, books, Busy, OneRun
<1>4. TypeOK'
  <2>1. run'[r] \in Run
    BY <1>1, <1>2 DEF TypeOK, Run
  <2>2. run' \in [Runs -> Run]
    BY <1>1, <1>2, <2>1 DEF TypeOK, Start, OneRun
  <2>3. overlapped' \in BOOLEAN
    BY DEF Start
  <2> QED
    BY <1>1, <1>3, <2>2, <2>3 DEF TypeOK, Start, Created, Committed
<1>5. NothingSkipped' /\ TableCovers'
  BY <1>3 DEF IInv, NothingSkipped, TableCovers
<1>6. OncePerIdentity'
  <2>1. \A q \in Runs : run'[q].leaves \subseteq run[q].leaves
    BY <1>2 DEF OneRun
  <2>2. ~overlapped' => ~overlapped
    BY DEF Start
  <2> QED
    BY <1>3, <2>1, <2>2 DEF IInv, OncePerIdentity, Uid
<1>7. ChainAgrees'
  <2>1. \A q \in Runs : run[q].leaves \subseteq run'[q].leaves
    BY <1>2 DEF IInv, RunCarries, Start, OneRun
  <2> QED
    BY <1>3, <2>1 DEF IInv, ChainAgrees
<1>8. Created' \ crossed' \subseteq Committed'
  BY <1>3
<1>9. ~overlapped' => \A r1, r2 \in Busy' : r1 = r2
  BY <1>3 DEF Start
<1>10. ASSUME NEW q \in Runs PROVE RunCarries(q)'
  <2>1. RunCarries(q)
    BY DEF IInv
  <2>2. CASE q = r
    BY <1>2, <1>3, <2>2 DEF RunCarries, Uid
  <2>3. CASE q # r
    <3>1. run'[q] = run[q] /\ (overlapped => overlapped')
      BY <1>2, <2>3 DEF OneRun, Start
    <3> QED
      BY <1>3, <2>1, <3>1 DEF RunCarries
  <2> QED
    BY <2>2, <2>3
<1> QED
  BY <1>4, <1>5, <1>6, <1>7, <1>8, <1>9, <1>10 DEF IInv

\* A run that ends changes nothing for the others.
LEMMA SelectLeavesKeeps ==
  ASSUME IInv, NEW r \in Runs, SelectLeaves(r) PROVE IInv'
<1> DEFINE leaves == {<<u, root[u]>> : u \in Committed \ run[r].before}
<1>1. TypeOK /\ TableCovers /\ RunCarries(r) /\ run[r] \in Run
  BY DEF IInv, TypeOK
<1>2. Uid(leaves) = Committed \ run[r].before
  <2>1. ASSUME NEW u \in Committed \ run[r].before PROVE u \in Uid(leaves)
    <3>1. <<u, root[u]>> \in leaves /\ <<u, root[u]>>[1] = u
      OBVIOUS
    <3> HIDE DEF leaves
    <3> QED
      BY <3>1 DEF Uid
  <2>2. ASSUME NEW u \in Uid(leaves) PROVE u \in Committed \ run[r].before
    <3>1. PICK leaf \in leaves : u = leaf[1]
      BY DEF Uid
    <3>2. PICK v \in Committed \ run[r].before : leaf = <<v, root[v]>>
      BY <3>1
    <3> QED
      BY <3>1, <3>2
  <2> QED
    BY <2>1, <2>2
<1>3. leaves \subseteq Leaves
  <2>1. \A u \in Committed : u \in Uids /\ root[u] \in 1..Versions
    BY <1>1, AnchorAssumption DEF TypeOK, TableCovers, Committed, Created
  <2> QED
    BY <2>1 DEF Leaves
<1>4. /\ OneRun(r)
      /\ \/ run'[r] = Idle /\ leaves = {}
         \/ run'[r] = [pc |-> "submit", before |-> run[r].before, leaves |-> leaves,
                       real |-> run[r].real]
  BY <1>1 DEF SelectLeaves, TypeOK, OneRun, Run
<1>5. /\ Created' = Created /\ Committed' = Committed /\ root' = root /\ crossed' = crossed
      /\ old' = old /\ times' = times /\ vouched' = vouched /\ chain' = chain
      /\ faults' = faults /\ overlapped' = overlapped
      /\ Busy' \subseteq Busy /\ r \in Busy
  BY <1>4 DEF SelectLeaves, Created, Committed, env, books, Busy, OneRun
<1>6. run[r].pc = "select" /\ run[r].leaves = {} /\ run[r].real = FALSE
  BY <1>1 DEF SelectLeaves, RunCarries, Run
<1>7. TypeOK'
  <2>1. run'[r] \in Run
    <3>1. run[r].before \subseteq Uids /\ run[r].real \in BOOLEAN
      BY <1>1 DEF Run
    <3> HIDE DEF leaves
    <3>2. [pc |-> "submit", before |-> run[r].before, leaves |-> leaves,
           real |-> run[r].real] \in Run
      BY <1>3, <3>1 DEF Run
    <3>3. Idle \in Run
      BY DEF Run, Idle
    <3> QED
      BY <1>4, <3>2, <3>3
  <2>2. run' \in [Runs -> Run]
    BY <1>1, <1>4, <2>1 DEF TypeOK, SelectLeaves, OneRun
  <2> QED
    BY <1>1, <2>2 DEF TypeOK, SelectLeaves, env, books
<1>8. NothingSkipped' /\ TableCovers'
  BY <1>5 DEF IInv, NothingSkipped, TableCovers
<1>9. OncePerIdentity'
  <2> SUFFICES ASSUME ~overlapped, NEW u \in Uids, times[u] = 1, NEW q \in Runs
               PROVE  u \notin Uid(run'[q].leaves)
    BY <1>5 DEF IInv, OncePerIdentity
  <2>1. CASE q # r
    BY <1>4, <2>1 DEF IInv, OncePerIdentity, OneRun
  <2>2. CASE q = r
    <3>1. u \in run[r].before
      BY <1>1, <1>6 DEF TableCovers, RunCarries
    <3> QED
      BY <1>2, <1>4, <2>2, <3>1 DEF Idle, Uid
  <2> QED
    BY <2>1, <2>2
<1>10. ChainAgrees'
  <2>1. \A q \in Runs : run[q].leaves \subseteq run'[q].leaves
    BY <1>4, <1>6 DEF OneRun
  <2> QED
    BY <1>5, <2>1 DEF IInv, ChainAgrees
<1>11. Created \ crossed \subseteq Committed /\ (~overlapped => \A r1, r2 \in Busy' : r1 = r2)
  BY <1>5 DEF IInv
<1>12. ASSUME NEW q \in Runs PROVE RunCarries(q)'
  <2>1. RunCarries(q)
    BY DEF IInv
  <2>2. CASE q # r
    <3>1. run'[q] = run[q]
      BY <1>4, <2>2 DEF OneRun
    <3> QED
      BY <1>5, <2>1, <3>1 DEF RunCarries
  <2>3. CASE run'[r] = Idle /\ q = r
    BY <1>5, <2>3 DEF RunCarries, Idle, Uid
  <2>4. CASE run'[r] # Idle /\ q = r
    <3>1. run'[q] = [pc |-> "submit", before |-> run[r].before, leaves |-> leaves,
                     real |-> FALSE]
      BY <1>4, <1>6, <2>4
    <3>2. Created \ crossed \subseteq Uid(leaves) \cup run[r].before
      BY <1>2, <1>11
    <3> HIDE DEF leaves
    <3> QED
      BY <1>2, <1>5, <1>6, <2>1, <2>4, <3>1, <3>2 DEF RunCarries
  <2> QED
    BY <2>2, <2>3, <2>4
<1> QED
  BY <1>5, <1>7, <1>8, <1>9, <1>10, <1>11, <1>12 DEF IInv

\* The chain's answer, whatever it is.
LEMMA SubmitKeeps ==
  ASSUME IInv, NEW r \in Runs, ChainAnchors(r) \/ ChainFails(r) PROVE IInv'
<1>1. TypeOK /\ RunCarries(r) /\ run[r] \in Run
  BY DEF IInv, TypeOK
<1>2. PICK real \in BOOLEAN :
        /\ run'[r] = [pc |-> "store", before |-> run[r].before, leaves |-> run[r].leaves,
                      real |-> real]
        /\ real => chain' = chain \cup run[r].leaves /\ faults' = faults
        /\ ~real => faults' = faults + 1 /\ faults < MaxFaults
  <2>1. CASE ChainAnchors(r)
    BY <1>1, <2>1 DEF ChainAnchors, TypeOK, Run
  <2>2. CASE ChainFails(r)
    <3>1. run[r].real = FALSE
      BY <1>1, <2>2 DEF ChainFails, RunCarries, Run
    <3> QED
      BY <1>1, <2>2, <3>1 DEF ChainFails, TypeOK, Run
  <2> QED
    BY <2>1, <2>2
<1>3. /\ OneRun(r) /\ run' \in [Runs -> Run]
  <2>1. OneRun(r) /\ DOMAIN run' = Runs /\ run' = [q \in Runs |-> run'[q]]
    BY <1>1 DEF ChainAnchors, ChainFails, TypeOK, OneRun
  <2>2. run'[r] \in Run
    BY <1>1, <1>2 DEF Run
  <2>3. \A q \in Runs : run'[q] \in Run
    BY <1>1, <2>1, <2>2 DEF OneRun, TypeOK
  <2> QED
    BY <2>1, <2>3
<1>4. /\ Created' = Created /\ Committed' = Committed /\ root' = root /\ crossed' = crossed
      /\ old' = old /\ times' = times /\ vouched' = vouched /\ overlapped' = overlapped
      /\ row' = row /\ audit' = audit
  BY DEF ChainAnchors, ChainFails, Created, Committed, env, books
<1>5. chain \subseteq chain' /\ chain' \subseteq chain \cup run[r].leaves
  BY DEF ChainAnchors, ChainFails
<1>6. Busy' = Busy /\ run[r].pc = "submit" /\ r \in Busy
  BY <1>2, <1>3 DEF ChainAnchors, ChainFails, Busy, OneRun
<1>7. \A q \in Runs : run'[q].leaves = run[q].leaves /\ run'[q].before = run[q].before
  BY <1>2, <1>3 DEF OneRun
<1>8. TypeOK'
  <2>1. faults \in Nat /\ faults' \in 0..MaxFaults
    BY <1>1, <1>2, AnchorAssumption DEF TypeOK
  <2>2. chain' \subseteq Leaves
    BY <1>1, <1>5 DEF TypeOK, Run
  <2> QED
    BY <1>1, <1>3, <1>4, <2>1, <2>2 DEF TypeOK
<1>9. NothingSkipped' /\ TableCovers' /\ OncePerIdentity'
  BY <1>4, <1>7 DEF IInv, NothingSkipped, TableCovers, OncePerIdentity
<1>10. ChainAgrees'
  <2>1. /\ vouched \subseteq chain
        /\ faults = 0 => chain \subseteq vouched \cup UNION {run[q].leaves : q \in Runs}
    BY DEF IInv, ChainAgrees
  <2>2. {run'[q].leaves : q \in Runs} = {run[q].leaves : q \in Runs}
    BY <1>7
  <2>3. faults' = 0 => faults = 0
    BY <1>1, <1>2, AnchorAssumption DEF TypeOK
  <2> QED
    BY <1>4, <1>5, <2>1, <2>2, <2>3 DEF ChainAgrees
<1>11. /\ Busy # {} => Created \ crossed \subseteq Committed
       /\ ~overlapped => \A r1, r2 \in Busy : r1 = r2
  BY DEF IInv
<1>12. ASSUME NEW q \in Runs PROVE RunCarries(q)'
  <2>1. RunCarries(q) /\ run[q] \in Run
    BY <1>1 DEF IInv, TypeOK
  <2>2. faults' = 0 => faults = 0
    BY <1>1, <1>2, AnchorAssumption DEF TypeOK
  <2>3. CASE q # r
    <3>1. run'[q] = run[q]
      BY <1>3, <2>3 DEF OneRun
    <3> QED
      BY <1>4, <1>5, <2>1, <2>2, <3>1 DEF RunCarries
  <2>4. CASE q = r
    <3>1. run'[q].real => run'[q].leaves \subseteq chain'
      BY <1>2, <1>5, <2>4
    <3>2. faults' = 0 => run'[q].real
      BY <1>1, <1>2, <2>4, AnchorAssumption DEF TypeOK
    <3> QED
      BY <1>2, <1>4, <1>6, <2>1, <2>4, <3>1, <3>2 DEF RunCarries
  <2> QED
    BY <2>3, <2>4
<1> QED
  BY <1>4, <1>6, <1>8, <1>9, <1>10, <1>11, <1>12 DEF IInv

LEMMA StoreKeeps ==
  ASSUME IInv, NEW r \in Runs, Store(r) PROVE IInv'
<1>1. TypeOK /\ RunCarries(r) /\ run[r] \in Run /\ TableCovers /\ NothingSkipped
  BY DEF IInv, TypeOK
<1>2. run'[r] = Idle /\ OneRun(r) /\ run' \in [Runs -> Run]
  <2>1. Idle \in Run
    BY DEF Idle, Run
  <2> QED
    BY <1>1, <2>1 DEF Store, TypeOK, OneRun
<1>3. /\ Created' = Created /\ Committed' = Committed /\ root' = root /\ crossed' = crossed
      /\ chain' = chain /\ faults' = faults /\ overlapped' = overlapped
      /\ old' = Created /\ row' = row /\ audit' = audit
  BY DEF Store, Created, Committed, env
<1>4. run[r].pc = "store" /\ r \in Busy /\ Busy' = Busy \ {r}
  BY <1>2 DEF Store, Busy, OneRun, Idle
<1>5. \A u \in Uids :
        /\ times[u] \in 0..2 /\ times'[u] \in 0..2
        /\ u \in Uid(run[r].leaves) => times'[u] > 0
        /\ u \notin Uid(run[r].leaves) => times'[u] = times[u]
        /\ times[u] > 0 => times'[u] > 0
        /\ times[u] = 0 => times'[u] \in 0..1
  BY <1>1 DEF Store, TypeOK
<1>6. Created \subseteq Uids /\ Committed \subseteq Created
      /\ Created \ crossed \subseteq Uid(run[r].leaves) \cup run[r].before
  BY <1>1, <1>4 DEF RunCarries, Created, Committed
<1>7. TypeOK'
  <2>1. times' \in [Uids -> 0..2]
    BY <1>5 DEF Store
  <2>2. vouched' \subseteq Leaves
    BY <1>1 DEF Store, TypeOK, Run
  <2> QED
    BY <1>1, <1>2, <1>3, <1>6, <2>1, <2>2 DEF TypeOK
<1>8. NothingSkipped'
  <2> SUFFICES ASSUME NEW u \in Created \ crossed PROVE times'[u] > 0
    BY <1>3 DEF NothingSkipped
  <2>1. CASE u \in Uid(run[r].leaves)
    BY <1>5, <1>6, <2>1
  <2>2. CASE u \in run[r].before
    <3>1. times[u] > 0
      BY <1>1, <2>2 DEF RunCarries, NothingSkipped
    <3> QED
      BY <1>5, <1>6, <3>1
  <2> QED
    BY <1>6, <2>1, <2>2
<1>9. TableCovers'
  <2>1. \A u \in Uids : times'[u] > 0 => u \in Created
    <3> SUFFICES ASSUME NEW u \in Uids, times'[u] > 0 PROVE u \in Created
      OBVIOUS
    <3>1. CASE u \in Uid(run[r].leaves)
      BY <1>1, <1>6, <3>1 DEF RunCarries
    <3>2. CASE u \notin Uid(run[r].leaves)
      BY <1>1, <1>5, <3>2 DEF TableCovers
    <3> QED
      BY <3>1, <3>2
  <2> QED
    BY <1>1, <1>3, <2>1 DEF TableCovers
<1>10. OncePerIdentity'
  <2> SUFFICES ASSUME ~overlapped, NEW u \in Uids
               PROVE  times'[u] <= 1 /\ \A q \in Runs : u \notin Uid(run'[q].leaves)
    BY <1>3 DEF OncePerIdentity
  <2>1. \A q \in Runs : run'[q].leaves = {}
    <3> SUFFICES ASSUME NEW q \in Runs, q # r PROVE run'[q].leaves = {}
      BY <1>2 DEF Idle
    <3>1. q \notin Busy
      BY <1>4 DEF IInv
    <3>2. run[q].leaves = {}
      BY <3>1 DEF Busy, IInv, RunCarries
    <3> QED
      BY <1>2, <3>2 DEF OneRun
  <2>2. times'[u] <= 1
    <3>1. times[u] <= 1 /\ (times[u] = 1 => u \notin Uid(run[r].leaves))
      BY DEF IInv, OncePerIdentity
    <3> QED
      BY <1>5, <3>1
  <2> QED
    BY <2>1, <2>2 DEF Uid
<1>11. ChainAgrees'
  <2>1. /\ vouched \subseteq chain
        /\ faults = 0 => chain \subseteq vouched \cup UNION {run[q].leaves : q \in Runs}
    BY DEF IInv, ChainAgrees
  <2>2. vouched' \subseteq chain /\ vouched \subseteq vouched'
    BY <1>1, <2>1 DEF Store, RunCarries
  <2>3. faults = 0 => run[r].leaves \subseteq vouched'
    BY <1>1, <1>4 DEF Store, RunCarries
  <2>4. \A q \in Runs \ {r} : run'[q].leaves = run[q].leaves
    BY <1>2 DEF OneRun
  <2> QED
    BY <1>3, <2>1, <2>2, <2>3, <2>4 DEF ChainAgrees
<1>12. /\ Busy' # {} => Created \ crossed \subseteq Committed
       /\ ~overlapped => \A r1, r2 \in Busy' : r1 = r2
  BY <1>4 DEF IInv
<1>13. ASSUME NEW q \in Runs PROVE RunCarries(q)'
  <2>1. CASE q = r
    BY <1>2, <1>3, <2>1 DEF RunCarries, Idle, Uid
  <2>2. CASE q # r
    <3>1. run'[q] = run[q] /\ RunCarries(q) /\ old \subseteq Created
      BY <1>1, <1>2, <2>2 DEF OneRun, IInv, TableCovers
    <3>2. ~overlapped => run[q].pc = "idle"
      BY <1>4, <2>2 DEF IInv, Busy
    <3> QED
      BY <1>3, <3>1, <3>2 DEF RunCarries
  <2> QED
    BY <2>1, <2>2
<1> QED
  BY <1>3, <1>7, <1>8, <1>9, <1>10, <1>11, <1>12, <1>13 DEF IInv

LEMMA RunFailsKeeps ==
  ASSUME IInv, RunFails PROVE IInv'
<1>1. TypeOK
  BY DEF IInv
<1>2. PICK lost \in {Busy} \cup {{r} : r \in Busy} :
        run' = [r \in Runs |-> IF r \in lost THEN Idle ELSE run[r]]
  BY DEF RunFails
<1>3. \A r \in Runs : run'[r] \in {Idle, run[r]} /\ Idle \in Run
  BY <1>2 DEF Idle, Run
<1>4. /\ Created' = Created /\ Committed' = Committed /\ root' = root /\ crossed' = crossed
      /\ old' = old /\ times' = times /\ vouched' = vouched /\ chain' = chain
      /\ overlapped' = overlapped /\ row' = row /\ audit' = audit
  BY DEF RunFails, Created, Committed, env, books
<1>5. faults \in Nat /\ faults' \in 0..MaxFaults /\ faults' # 0
  BY <1>1, AnchorAssumption DEF TypeOK, RunFails
<1>6. Busy' \subseteq Busy
  BY <1>3 DEF Busy, Idle
<1>7. TypeOK'
  <2>1. run' \in [Runs -> Run]
    BY <1>1, <1>2, <1>3 DEF TypeOK
  <2> QED
    BY <1>1, <1>4, <1>5, <2>1 DEF TypeOK
<1>8. \A r \in Runs : run'[r].leaves \subseteq run[r].leaves
  BY <1>3 DEF Idle
<1>9. NothingSkipped' /\ TableCovers' /\ OncePerIdentity' /\ ChainAgrees'
  BY <1>4, <1>5, <1>8 DEF IInv, NothingSkipped, TableCovers, OncePerIdentity, ChainAgrees, Uid
<1>10. /\ Busy' # {} => Created \ crossed \subseteq Committed
       /\ ~overlapped => \A r1, r2 \in Busy' : r1 = r2
  BY <1>6 DEF IInv
<1>11. ASSUME NEW q \in Runs PROVE RunCarries(q)'
  <2>1. RunCarries(q)
    BY DEF IInv
  <2>2. CASE run'[q] = Idle
    BY <1>4, <2>2 DEF RunCarries, Idle, Uid
  <2>3. CASE run'[q] = run[q]
    BY <1>4, <1>5, <2>1, <2>3 DEF RunCarries
  <2> QED
    BY <1>3, <2>2, <2>3
<1> QED
  BY <1>4, <1>7, <1>9, <1>10, <1>11 DEF IInv

-----------------------------------------------------------------------------
LEMMA StepKeeps == IInv /\ [Next]_vars => IInv'
<1> SUFFICES ASSUME IInv, [Next]_vars PROVE IInv'
  OBVIOUS
<1>1. ASSUME NEW u \in Uids, InsertBegins(u) \/ InsertEnds(u) \/ Reenroll(u) PROVE IInv'
  BY <1>1, InsertBeginsKeeps, InsertEndsKeeps, ReenrollKeeps
<1>2. CASE AuditEvent
  BY <1>2, AuditEventKeeps
<1>3. ASSUME NEW r \in Runs, RunBatch(r) \/ ChainFails(r) PROVE IInv'
  BY <1>3, StartKeeps, SelectLeavesKeeps, SubmitKeeps, StoreKeeps DEF RunBatch
<1>4. CASE RunFails
  BY <1>4, RunFailsKeeps
<1>5. CASE UNCHANGED vars
  <2>1. /\ Created' = Created /\ Committed' = Committed /\ TypeOK'
        /\ UNCHANGED <<books, run, chain, faults, overlapped, crossed, root>>
    BY <1>5 DEF vars, env, books, Created, Committed, IInv, TypeOK
  <2> QED
    BY <2>1, RowsKeep DEF IInv, TableCovers
<1> QED
  BY <1>1, <1>2, <1>3, <1>4, <1>5 DEF Next

\* The inductive invariant of anchoring: what a run of runAnchorBatch has in hand and
\* what the table of batches covers fit together in every reachable state.
THEOREM AnchorInductive == Spec => []IInv
<1> QED
  BY InitHolds, StepKeeps, PTL DEF Spec

\* While runs do not overlap, runAnchorBatch puts no commitment into two batches.
THEOREM OncePerIdentityHolds == Spec => []OncePerIdentity
<1>1. IInv => OncePerIdentity
  BY DEF IInv
<1> QED
  BY <1>1, AnchorInductive, PTL

\* A batch stored with a real transaction hash is under a root of ZAuthAnchor, and
\* without failures ZAuthAnchor has no root that is of no batch.
THEOREM ChainAgreesHolds == Spec => []ChainAgrees
<1>1. IInv => ChainAgrees
  BY DEF IInv
<1> QED
  BY <1>1, AnchorInductive, PTL

\* anchored_at, later than the selection of its batch, skips no commitment but those
\* whose INSERT overlapped a run.
THEOREM NothingSkippedHolds == Spec => []NothingSkipped
<1>1. IInv => NothingSkipped
  BY DEF IInv
<1> QED
  BY <1>1, AnchorInductive, PTL
=============================================================================
