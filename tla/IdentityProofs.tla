---------------------------- MODULE IdentityProofs ---------------------------
(***************************************************************************)
(* Proofs about Identity, for any number of drafts, proof requests, HTTP     *)
(* requests in flight and failures.                                         *)
(***************************************************************************)
EXTENDS Identity, TLAPS

\* The other handlers stand where they stood.
Others(w) == \A v \in Workers \ {w} : job'[v] = job[v]

\* Worker w goes on to pc for the uid, face and request it began with.
Moves(w, pc) ==
  /\ job'[w].pc = pc
  /\ job'[w].uid = job[w].uid /\ job'[w].face = job[w].face
  /\ job'[w].request = job[w].request
  /\ Others(w)

Stops(w) == job'[w] = Idle /\ Others(w)

LEMMA JobFields ==
  ASSUME TypeOK, NEW w \in Workers
  PROVE  /\ job[w] \in Job
         /\ job[w].pc \in {"idle"} \cup Completing \cup Proving
         /\ job[w].uid \in Uids \cup {None} /\ job[w].face \in Roots \cup {None}
         /\ job[w].version \in Nat /\ job[w].prev \in Roots \cup {None}
         /\ job[w].tx \in Nat /\ job[w].request \in Requests \cup {None}
         /\ job[w].pc # "idle" => job[w].uid \in Uids
         /\ job[w].pc \in Completing => job[w].face \in Roots /\ job[w].request = None
         /\ job[w].pc \in Proving => job[w].request \in Requests
<1>1. job[w] \in Job
  BY DEF TypeOK
<1> QED
  BY <1>1 DEF TypeOK, Job

LEMMA IdleFields ==
  /\ Idle \in Job /\ Idle.pc = "idle" /\ Idle.uid = None /\ Idle.face = None
  /\ Idle.request = None
BY DEF Idle, Job

JobsOK ==
  /\ job \in [Workers -> Job]
  /\ \A w \in Workers :
       /\ job[w].pc # "idle" => job[w].uid \in Uids
       /\ job[w].pc \in Completing => job[w].face \in Roots /\ job[w].request = None
       /\ job[w].pc \in Proving => job[w].request \in Requests
       /\ job[w].pc = "idle" => job[w].request = None

LEMMA GotoMoves ==
  ASSUME TypeOK, NEW w \in Workers, NEW pc \in Completing \cup Proving, Goto(w, pc)
  PROVE  /\ Moves(w, pc) /\ job' \in [Workers -> Job]
         /\ job'[w].version = job[w].version /\ job'[w].prev = job[w].prev
         /\ job'[w].tx = job[w].tx
<1> DEFINE k == [job[w] EXCEPT !.pc = pc]
<1>1. job[w] \in Job
  BY DEF TypeOK
<1>2. /\ k \in Job /\ k.pc = pc /\ k.uid = job[w].uid /\ k.face = job[w].face
      /\ k.request = job[w].request /\ k.version = job[w].version /\ k.prev = job[w].prev
      /\ k.tx = job[w].tx
  BY <1>1 DEF Job
<1>3. job' = [job EXCEPT ![w] = k]
  BY DEF Goto
<1> HIDE DEF k
<1>4. job'[w] = k /\ Others(w) /\ job' \in [Workers -> Job]
  BY <1>2, <1>3 DEF TypeOK, Others
<1> QED
  BY <1>2, <1>4 DEF Moves

LEMMA SetStarts ==
  ASSUME TypeOK, NEW w \in Workers, NEW j \in Job, job' = [job EXCEPT ![w] = j]
  PROVE  job'[w] = j /\ Others(w) /\ job' \in [Workers -> Job]
BY DEF TypeOK, Others

\* What a step does to one handler decides whether all are in order.
LEMMA JobsKeep ==
  ASSUME TypeOK, NEW w \in Workers, Others(w), job' \in [Workers -> Job],
         job'[w].pc # "idle" => job'[w].uid \in Uids,
         job'[w].pc \in Completing => job'[w].face \in Roots /\ job'[w].request = None,
         job'[w].pc \in Proving => job'[w].request \in Requests,
         job'[w].pc = "idle" => job'[w].request = None
  PROVE  JobsOK'
<1>1. ASSUME NEW v \in Workers
      PROVE  /\ job'[v].pc # "idle" => job'[v].uid \in Uids
             /\ job'[v].pc \in Completing => job'[v].face \in Roots /\ job'[v].request = None
             /\ job'[v].pc \in Proving => job'[v].request \in Requests
             /\ job'[v].pc = "idle" => job'[v].request = None
  <2>1. CASE v = w
    BY <2>1
  <2>2. CASE v # w
    BY <2>2 DEF TypeOK, Others
  <2> QED
    BY <2>1, <2>2
<1> QED
  BY <1>1 DEF JobsOK

\* A completion stays a completion, a submission a submission.
LEMMA MoveKeeps ==
  ASSUME TypeOK, NEW w \in Workers, job' \in [Workers -> Job],
         NEW pc, Moves(w, pc), pc # "idle", job[w].pc # "idle",
         pc \in Completing => job[w].pc \in Completing,
         pc \in Proving => job[w].pc \in Proving
  PROVE  JobsOK'
<1>1. /\ job'[w].pc = pc /\ job'[w].uid = job[w].uid /\ job'[w].face = job[w].face
      /\ job'[w].request = job[w].request /\ Others(w)
  BY DEF Moves
<1>2. job[w].uid \in Uids
  BY JobFields
<1> QED
  BY <1>1, <1>2, JobFields, JobsKeep

LEMMA StopKeeps ==
  ASSUME TypeOK, NEW w \in Workers, job' = [job EXCEPT ![w] = Idle]
  PROVE  Stops(w) /\ JobsOK'
<1>1. Stops(w) /\ job' \in [Workers -> Job]
  BY IdleFields, SetStarts DEF Stops
<1> QED
  BY <1>1, IdleFields, JobsKeep DEF Stops, Completing, Proving

-----------------------------------------------------------------------------
(* What each action does to the job of its worker.                           *)

LEMMA ReadEffect ==
  ASSUME TypeOK, NEW w \in Workers, NEW d \in Drafts, CompleteRead(w, d)
  PROVE  /\ job[w].pc = "idle" /\ draft[d] \in Uids
         /\ job'[w].pc = "map" /\ job'[w].uid = draft[d] /\ job'[w].face = d
         /\ job'[w].request = None /\ Others(w) /\ JobsOK'
<1> DEFINE j == [Idle EXCEPT !.pc = "map", !.uid = draft[d], !.face = d]
<1>1. job[w].pc = "idle" /\ draft[d] \in Uids /\ job' = [job EXCEPT ![w] = j]
  BY DEF CompleteRead, TypeOK
<1>2. j \in Job /\ j.pc = "map" /\ j.uid = draft[d] /\ j.face = d /\ j.request = None
  BY <1>1 DEF Idle, Job, Completing, Uids, Roots
<1> HIDE DEF j
<1>3. job'[w] = j /\ Others(w) /\ job' \in [Workers -> Job]
  BY <1>1, <1>2, SetStarts
<1>4. JobsOK'
  BY <1>1, <1>2, <1>3, JobsKeep DEF Completing, Proving, Roots
<1> QED
  BY <1>1, <1>2, <1>3, <1>4

\* The statements of a completion that only pass on what it carries.
LEMMA PassEffect ==
  ASSUME TypeOK, NEW w \in Workers,
         NEW from \in Completing, NEW to \in Completing, job[w].pc = from, Goto(w, to)
  PROVE  /\ Moves(w, to) /\ JobsOK' /\ job[w].uid \in Uids /\ job[w].face \in Roots
         /\ job'[w].version = job[w].version /\ job'[w].prev = job[w].prev
         /\ job'[w].tx = job[w].tx
<1>1. job[w].pc # "idle" /\ to # "idle" /\ to \notin Proving
  BY DEF Completing, Proving
<1> QED
  BY <1>1, JobFields, GotoMoves, MoveKeeps

LEMMA VersionEffect ==
  ASSUME TypeOK, NEW w \in Workers, CompleteVersion(w)
  PROVE  /\ job[w].pc = "version" /\ job[w].uid \in Uids
         /\ Moves(w, "log") /\ JobsOK'
         /\ NextVersion(job[w].uid, job'[w].version, job'[w].prev)
<1>1. PICK n \in 1..(Len(log[job[w].uid]) + 1), prev \in Roots \cup {None} :
        /\ NextVersion(job[w].uid, n, prev)
        /\ job' = [job EXCEPT ![w].pc = "log", ![w].version = n, ![w].prev = prev]
  BY DEF CompleteVersion
<1> DEFINE k == [job[w] EXCEPT !.pc = "log", !.version = n, !.prev = prev]
<1>2. job[w] \in Job /\ job[w].pc = "version" /\ job[w].uid \in Uids
  BY JobFields DEF CompleteVersion
<1>3. log[job[w].uid] \in Seq(Row)
  BY <1>2 DEF TypeOK
<1>4. n \in Nat
  BY <1>3
<1>5. /\ k \in Job /\ k.pc = "log" /\ k.uid = job[w].uid /\ k.face = job[w].face
      /\ k.request = job[w].request /\ k.version = n /\ k.prev = prev
  BY <1>2, <1>4 DEF Job, Completing
<1>6. job' = [job EXCEPT ![w] = k]
  BY <1>1, <1>2 DEF TypeOK
<1> HIDE DEF k
<1>7. job'[w] = k /\ Others(w) /\ job' \in [Workers -> Job]
  BY <1>5, <1>6, SetStarts
<1>8. Moves(w, "log")
  BY <1>5, <1>7 DEF Moves
<1>9. JobsOK'
  BY <1>2, <1>7, <1>8, MoveKeeps DEF Completing, Proving
<1> QED
  BY <1>1, <1>2, <1>5, <1>7, <1>8, <1>9

Event == [uid : Uids, root : Roots, version : Nat]

\* The contract's count and its event, for any root of any uid.
LEMMA EnrollEffect ==
  ASSUME TypeOK, NEW u \in Uids, NEW root \in Roots, EnrollIdentity(u, root)
  PROVE  /\ registry' \in [Uids -> [root : Roots \cup {None}, version : Nat]]
         /\ events' \in Seq(Event) /\ Len(events') = Len(events) + 1
         /\ registry'[u].root = root /\ registry'[u].version = registry[u].version + 1
         /\ \A v \in Uids \ {u} : registry'[v] = registry[v]
         /\ \A i \in DOMAIN events : i \in DOMAIN events' /\ events'[i] = events[i]
         /\ Len(events') \in DOMAIN events'
         /\ events'[Len(events')].uid = u /\ events'[Len(events')].root = root
<1> DEFINE n == registry[u].version + 1
           entry == [root |-> root, version |-> n]
           event == [uid |-> u, root |-> root, version |-> n]
<1>1. n \in Nat
  BY DEF TypeOK
<1>2. registry' = [registry EXCEPT ![u] = entry] /\ events' = Append(events, event)
  BY DEF EnrollIdentity
<1>3. /\ entry \in [root : Roots \cup {None}, version : Nat]
      /\ entry.root = root /\ entry.version = registry[u].version + 1
      /\ event \in Event /\ event.uid = u /\ event.root = root
  BY <1>1 DEF Event
<1> HIDE DEF n, entry, event
<1>4. /\ registry' \in [Uids -> [root : Roots \cup {None}, version : Nat]]
      /\ registry'[u] = entry /\ \A v \in Uids \ {u} : registry'[v] = registry[v]
  BY <1>2, <1>3 DEF TypeOK
<1>5. events \in Seq(Event)
  BY DEF TypeOK, Event
<1>6. /\ events' \in Seq(Event) /\ Len(events') = Len(events) + 1
      /\ \A i \in DOMAIN events : i \in DOMAIN events' /\ events'[i] = events[i]
      /\ Len(events') \in DOMAIN events' /\ events'[Len(events')] = event
  BY <1>2, <1>3, <1>5
<1> QED
  BY <1>3, <1>4, <1>6

LEMMA MinesEffect ==
  ASSUME TypeOK, NEW w \in Workers, ChainMines(w)
  PROVE  /\ job[w].pc = "chain" /\ job[w].uid \in Uids /\ job[w].face \in Roots
         /\ Moves(w, "tx") /\ JobsOK'
         /\ job'[w].version = job[w].version /\ job'[w].tx = Len(events')
         /\ events' \in Seq(Event)
<1>1. job[w] \in Job /\ job[w].pc = "chain" /\ job[w].uid \in Uids /\ job[w].face \in Roots
  BY JobFields DEF ChainMines, Completing
<1>3. events' \in Seq(Event)
  BY <1>1, EnrollEffect DEF ChainMines
<1> PICK e \in Nat : e = Len(events')
  BY <1>3
<1> DEFINE k == [job[w] EXCEPT !.pc = "tx", !.tx = e]
<1>4. /\ k \in Job /\ k.pc = "tx" /\ k.uid = job[w].uid /\ k.face = job[w].face
      /\ k.request = job[w].request /\ k.version = job[w].version /\ k.tx = e
  BY <1>1 DEF Job, Completing
<1>5. job' = [job EXCEPT ![w] = k]
  BY <1>1 DEF TypeOK, ChainMines
<1> HIDE DEF k
<1>6. job'[w] = k /\ Others(w) /\ job' \in [Workers -> Job]
  BY <1>4, <1>5, SetStarts
<1>7. Moves(w, "tx")
  BY <1>4, <1>6 DEF Moves
<1>8. JobsOK'
  BY <1>1, <1>6, <1>7, MoveKeeps DEF Completing, Proving
<1> QED
  BY <1>1, <1>3, <1>4, <1>6, <1>7, <1>8

LEMMA SubmitEffect ==
  ASSUME TypeOK, NEW w \in Workers, NEW r \in Requests, NEW f \in Roots, SubmitRead(w, r, f)
  PROVE  /\ job[w].pc = "idle" /\ r \notin nullified
         /\ job'[w].pc = "identity" /\ job'[w].request = r /\ Others(w) /\ JobsOK'
<1> DEFINE j == [Idle EXCEPT !.pc = "identity", !.request = r, !.uid = request[r], !.face = f]
<1>1. /\ job[w].pc = "idle" /\ request[r] \in Uids /\ r \notin nullified
      /\ job' = [job EXCEPT ![w] = j]
  BY DEF SubmitRead, TypeOK
<1>2. j \in Job /\ j.pc = "identity" /\ j.uid = request[r] /\ j.request = r
  BY <1>1 DEF Idle, Job, Proving, Roots
<1> HIDE DEF j
<1>3. job'[w] = j /\ Others(w) /\ job' \in [Workers -> Job]
  BY <1>1, <1>2, SetStarts
<1>4. JobsOK'
  BY <1>1, <1>2, <1>3, JobsKeep DEF Completing, Proving
<1> QED
  BY <1>1, <1>2, <1>3, <1>4

LEMMA IdentityEffect ==
  ASSUME TypeOK, NEW w \in Workers, SubmitIdentity(w)
  PROVE  job[w].pc = "identity" /\ (Moves(w, "nullify") \/ Stops(w)) /\ JobsOK'
<1>1. job[w] \in Job /\ job[w].pc = "identity"
  BY DEF SubmitIdentity, TypeOK
<1>2. CASE map[job[w].uid] = job[w].face
  <2> PICK verified \in BOOLEAN :
        job' = [job EXCEPT ![w].pc = "nullify", ![w].verified = verified]
    BY <1>2 DEF SubmitIdentity
  <2> DEFINE k == [job[w] EXCEPT !.pc = "nullify", !.verified = verified]
  <2>1. /\ k \in Job /\ k.pc = "nullify" /\ k.uid = job[w].uid /\ k.face = job[w].face
        /\ k.request = job[w].request
    BY <1>1 DEF Job, Proving
  <2>2. job' = [job EXCEPT ![w] = k]
    BY DEF TypeOK
  <2> HIDE DEF k
  <2>3. job'[w] = k /\ Others(w) /\ job' \in [Workers -> Job]
    BY <2>1, <2>2, SetStarts
  <2>4. Moves(w, "nullify")
    BY <2>1, <2>3 DEF Moves
  <2>5. JobsOK'
    BY <1>1, <2>3, <2>4, MoveKeeps DEF Completing, Proving
  <2> QED
    BY <1>1, <2>4, <2>5
<1>3. CASE map[job[w].uid] # job[w].face
  BY <1>1, <1>3, StopKeeps DEF SubmitIdentity
<1> QED
  BY <1>2, <1>3

LEMMA NullifyEffect ==
  ASSUME TypeOK, NEW w \in Workers, Nullify(w)
  PROVE  /\ job[w].pc = "nullify" /\ job[w].request \in Requests
         /\ Moves(w, "receipt") /\ JobsOK'
<1>1. job[w].pc = "nullify" /\ Goto(w, "receipt")
  BY DEF Nullify
<1>2. Moves(w, "receipt") /\ job' \in [Workers -> Job]
  BY <1>1, GotoMoves DEF Proving
<1> QED
  BY <1>1, <1>2, JobFields, MoveKeeps DEF Completing, Proving

LEMMA ReceiptEffect ==
  ASSUME TypeOK, NEW w \in Workers, InsertReceipt(w)
  PROVE  /\ job[w].pc = "receipt" /\ job[w].request \in Requests /\ Stops(w) /\ JobsOK'
         /\ receipts' = [receipts EXCEPT ![job[w].request] = @ + 1]
<1>1. job[w].pc = "receipt" /\ job' = [job EXCEPT ![w] = Idle]
  BY DEF InsertReceipt
<1> QED
  BY <1>1, JobFields, StopKeeps DEF InsertReceipt, Proving

-----------------------------------------------------------------------------
(* Type correctness.                                                        *)

LEMMA InitTypes == Init => TypeOK
<1> SUFFICES ASSUME Init PROVE TypeOK
  OBVIOUS
<1>1. JobsOK
  BY IdleFields DEF Init, JobsOK, Completing, Proving
<1>2. faults \in 0..MaxFaults /\ served \in 0..MaxServed
  BY IdentityAssumption DEF Init
<1>3. [root |-> None, version |-> 0] \in [root : Roots \cup {None}, version : Nat]
  OBVIOUS
<1>4. registry \in [Uids -> [root : Roots \cup {None}, version : Nat]]
  BY <1>3 DEF Init
<1>5. /\ log \in [Uids -> Seq(Row)] /\ born \in Seq(Uids)
      /\ events \in Seq([uid : Uids, root : Roots, version : Nat])
  BY DEF Init
<1>6. /\ draft \in [Drafts -> Uids \cup {None}] /\ map \in [Uids -> Roots \cup {None}]
      /\ commits \in [Uids -> Roots \cup {None}]
      /\ request \in [Requests -> Uids \cup {None}] /\ receipts \in [Requests -> Nat]
  BY DEF Init
<1> QED
  BY <1>1, <1>2, <1>4, <1>5, <1>6 DEF Init, TypeOK, JobsOK

LEMMA ServedTypes == TypeOK /\ served < MaxServed => served + 1 \in 0..MaxServed
BY IdentityAssumption DEF TypeOK

LEMMA FaultTypes == TypeOK /\ faults < MaxFaults => faults + 1 \in 0..MaxFaults
BY IdentityAssumption DEF TypeOK

LEMMA CurrentTypes == TypeOK => Current \in Uids \cup {None}
BY DEF TypeOK, Current, Last

LEMMA TypeKeeps == TypeOK /\ [Next]_vars => TypeOK'
<1> SUFFICES ASSUME TypeOK, [Next]_vars PROVE TypeOK'
  OBVIOUS
<1> USE DEF JobsOK
<1>1. ASSUME NEW d \in Drafts, StartEnrollment(d) PROVE TypeOK'
  <2>1. draft' \in [Drafts -> Uids \cup {None}]
    BY <1>1, CurrentTypes DEF StartEnrollment, TypeOK, Uids
  <2> QED
    BY <1>1, <2>1 DEF StartEnrollment, TypeOK, proving
<1>2. ASSUME NEW w \in Workers, NEW d \in Drafts, CompleteRead(w, d) PROVE TypeOK'
  <2>1. JobsOK' /\ draft[d] \in Uids
    BY <1>2, ReadEffect
  <2>2. served' \in 0..MaxServed /\ crossed' \subseteq Uids
    BY <1>2, <2>1, ServedTypes DEF CompleteRead, TypeOK
  <2> QED
    BY <1>2, <2>1, <2>2 DEF CompleteRead, TypeOK, proving
<1>3. ASSUME NEW r \in Requests, NEW u \in Uids, CreateChallenge(r, u) PROVE TypeOK'
  BY <1>3 DEF CreateChallenge, TypeOK, enrollment
<1>4. ASSUME NEW w \in Workers, NEW r \in Requests, NEW f \in Roots, SubmitRead(w, r, f)
      PROVE  TypeOK'
  <2>1. JobsOK'
    BY <1>4, SubmitEffect
  <2>2. served' \in 0..MaxServed
    BY <1>4, ServedTypes DEF SubmitRead
  <2> QED
    BY <1>4, <2>1, <2>2 DEF SubmitRead, TypeOK, enrollment, proving
<1>5. ASSUME NEW w \in Workers, CompleteMap(w) PROVE TypeOK'
  <2>1. JobsOK' /\ job[w].uid \in Uids /\ job[w].face \in Roots
    BY <1>5, PassEffect DEF CompleteMap, Completing
  <2>2. map' \in [Uids -> Roots \cup {None}] /\ born' \in Seq(Uids)
    BY <1>5, <2>1 DEF CompleteMap, TypeOK
  <2> QED
    BY <1>5, <2>1, <2>2 DEF CompleteMap, TypeOK, proving
<1>6. ASSUME NEW w \in Workers, CompleteCommit(w) PROVE TypeOK'
  <2>1. JobsOK' /\ job[w].uid \in Uids /\ job[w].face \in Roots
    BY <1>6, PassEffect DEF CompleteCommit, Completing
  <2>2. commits' \in [Uids -> Roots \cup {None}]
    BY <1>6, <2>1 DEF CompleteCommit, TypeOK
  <2> QED
    BY <1>6, <2>1, <2>2 DEF CompleteCommit, TypeOK, proving
<1>7. ASSUME NEW w \in Workers, CompleteVersion(w) PROVE TypeOK'
  <2>1. JobsOK'
    BY <1>7, VersionEffect
  <2> QED
    BY <1>7, <2>1 DEF CompleteVersion, TypeOK, enrollment, proving
<1>8. ASSUME NEW w \in Workers, CompleteLog(w) PROVE TypeOK'
  <2>1. JobsOK' /\ job[w].uid \in Uids /\ job[w].face \in Roots
    BY <1>8, PassEffect DEF CompleteLog, Completing
  <2> DEFINE row == [version |-> job[w].version, root |-> job[w].face,
                     prev |-> job[w].prev, tx |-> 0]
  <2>2. row \in Row /\ log[job[w].uid] \in Seq(Row)
    BY <2>1, JobFields DEF Row, TypeOK
  <2>3. log' = [log EXCEPT ![job[w].uid] = Append(log[job[w].uid], row)]
    BY <1>8 DEF CompleteLog
  <2> HIDE DEF row
  <2>4. log' \in [Uids -> Seq(Row)]
    BY <2>1, <2>2, <2>3 DEF TypeOK
  <2> QED
    BY <1>8, <2>1, <2>4 DEF CompleteLog, TypeOK, proving
<1>9. ASSUME NEW w \in Workers, ChainMines(w) PROVE TypeOK'
  <2>1. JobsOK' /\ events' \in Seq([uid : Uids, root : Roots, version : Nat])
    BY <1>9, MinesEffect DEF Event
  <2>2. registry' \in [Uids -> [root : Roots \cup {None}, version : Nat]]
    BY <1>9, MinesEffect, EnrollEffect DEF ChainMines
  <2> QED
    BY <1>9, <2>1, <2>2 DEF ChainMines, TypeOK, proving
<1>10. ASSUME NEW w \in Workers, ChainFails(w) PROVE TypeOK'
  <2>1. JobsOK' /\ job[w].uid \in Uids /\ job[w].face \in Roots
    BY <1>10, PassEffect DEF ChainFails, Completing
  <2>2. /\ registry' \in [Uids -> [root : Roots \cup {None}, version : Nat]]
        /\ events' \in Seq([uid : Uids, root : Roots, version : Nat])
    BY <1>10, <2>1, EnrollEffect DEF ChainFails, TypeOK, Event
  <2>3. faults' \in 0..MaxFaults /\ offchain' \subseteq Uids
    BY <1>10, <2>1, FaultTypes DEF ChainFails, TypeOK
  <2> QED
    BY <1>10, <2>1, <2>2, <2>3 DEF ChainFails, TypeOK, proving
<1>11. ASSUME NEW w \in Workers, SetChainTx(w) PROVE TypeOK'
  <2>1. JobsOK' /\ job[w].uid \in Uids /\ job[w].tx \in Nat
    BY <1>11, PassEffect, JobFields DEF SetChainTx, Completing
  <2> DEFINE rows == log[job[w].uid]
             marked == [i \in DOMAIN rows |-> IF rows[i].version = job[w].version
                                             THEN [rows[i] EXCEPT !.tx = job[w].tx]
                                             ELSE rows[i]]
  <2>2. log' = [log EXCEPT ![job[w].uid] = marked]
    BY <1>11 DEF SetChainTx
  <2>3. rows \in Seq(Row)
    BY <2>1 DEF TypeOK
  <2>4. ASSUME NEW i \in DOMAIN rows PROVE marked[i] \in Row
    <3>1. rows[i] \in Row
      BY <2>3
    <3> QED
      BY <2>1, <3>1 DEF Row
  <2>5. marked \in Seq(Row)
    <3>1. DOMAIN marked = 1..Len(rows) /\ Len(rows) \in Nat
      BY <2>3
    <3> HIDE DEF rows
    <3>2. marked \in [1..Len(rows) -> Row]
      BY <2>4, <3>1
    <3> HIDE DEF marked
    <3> QED
      BY <3>1, <3>2
  <2> HIDE DEF marked
  <2>6. log' \in [Uids -> Seq(Row)]
    BY <2>1, <2>2, <2>5 DEF TypeOK
  <2> QED
    BY <1>11, <2>1, <2>6 DEF SetChainTx, TypeOK, proving
<1>12. ASSUME NEW w \in Workers, Finish(w) PROVE TypeOK'
  <2>1. JobsOK' /\ job[w].face \in Roots
    BY <1>12, StopKeeps, JobFields DEF Finish, Completing
  <2> QED
    BY <1>12, <2>1 DEF Finish, TypeOK, proving, Roots
<1>13. ASSUME NEW w \in Workers, SubmitIdentity(w) PROVE TypeOK'
  <2>1. JobsOK'
    BY <1>13, IdentityEffect
  <2> QED
    BY <1>13, <2>1 DEF SubmitIdentity, TypeOK, enrollment, proving
<1>14. ASSUME NEW w \in Workers, Nullify(w) PROVE TypeOK'
  <2>1. JobsOK' /\ job[w].request \in Requests
    BY <1>14, NullifyEffect
  <2> QED
    BY <1>14, <2>1 DEF Nullify, TypeOK, enrollment
<1>15. ASSUME NEW w \in Workers, InsertReceipt(w) PROVE TypeOK'
  <2>1. JobsOK' /\ job[w].request \in Requests
    BY <1>15, ReceiptEffect
  <2>2. receipts' \in [Requests -> Nat]
    BY <1>15, <2>1 DEF InsertReceipt, TypeOK
  <2> QED
    BY <1>15, <2>1, <2>2 DEF InsertReceipt, TypeOK, enrollment
<1>16. ASSUME NEW w \in Workers, JobFails(w) PROVE TypeOK'
  <2>1. JobsOK' /\ (job[w].pc # "idle" => job[w].uid \in Uids)
    BY <1>16, StopKeeps, JobFields DEF JobFails
  <2>2. faults' \in 0..MaxFaults /\ broken' \subseteq Uids
    BY <1>16, <2>1, FaultTypes DEF JobFails, TypeOK, Completing
  <2> QED
    BY <1>16, <2>1, <2>2 DEF JobFails, TypeOK, proving
<1>17. CASE UNCHANGED vars
  BY <1>17 DEF vars, enrollment, proving, TypeOK
<1> QED
  BY <1>1, <1>2, <1>3, <1>4, <1>5, <1>6, <1>7, <1>8, <1>9, <1>10, <1>11, <1>12, <1>13,
     <1>14, <1>15, <1>16, <1>17 DEF Next, Complete, Submit

-----------------------------------------------------------------------------
(* A proof request yields one receipt.                                      *)

ReceiptPart == \A r \in Requests : Receipted(r)

\* Steps that write neither nullifiers nor receipts, bring nobody before the INSERT of
\* a receipt and past the check only who finds a request open.
LEMMA ReceiptFrame ==
  ASSUME ReceiptPart, UNCHANGED <<nullified, receipts, twice>>,
         \A w \in Workers : job'[w].pc = "receipt" => job'[w] = job[w],
         \A w \in Workers, r \in Requests :
           Checked(w, r)' => Checked(w, r) \/ r \notin nullified
  PROVE  ReceiptPart'
<1>1. \A r \in Requests, w \in Workers : Receipting(w, r)' => Receipting(w, r)
  BY DEF Receipting
<1> QED
  BY <1>1 DEF ReceiptPart, Receipted

LEMMA ReceiptKeeps == TypeOK /\ ReceiptPart /\ [Next]_vars => ReceiptPart'
<1> SUFFICES ASSUME TypeOK, ReceiptPart, [Next]_vars PROVE ReceiptPart'
  OBVIOUS
<1>1. ASSUME NEW w \in Workers, Others(w), job'[w].pc # "receipt",
             \A r \in Requests : Checked(w, r)' => Checked(w, r) \/ r \notin nullified,
             UNCHANGED <<nullified, receipts, twice>>
      PROVE  ReceiptPart'
  <2>1. \A v \in Workers : job'[v].pc = "receipt" => job'[v] = job[v]
    BY <1>1 DEF Others
  <2>2. \A v \in Workers \ {w}, r \in Requests : Checked(v, r)' => Checked(v, r)
    BY <1>1 DEF Others, Checked
  <2> QED
    BY <1>1, <2>1, <2>2, ReceiptFrame
<1>0. ASSUME NEW w \in Workers, Others(w), job'[w].pc \notin Proving,
             UNCHANGED <<nullified, receipts, twice>>
      PROVE  ReceiptPart'
  <2>1. \A r \in Requests : ~ Checked(w, r)'
    BY <1>0 DEF Checked, Proving
  <2> QED
    BY <1>0, <1>1, <2>1 DEF Proving
<1>2. CASE \/ \E d \in Drafts : StartEnrollment(d)
           \/ \E r \in Requests, u \in Uids : CreateChallenge(r, u)
           \/ UNCHANGED vars
  BY <1>2, ReceiptFrame DEF StartEnrollment, CreateChallenge, vars, proving, enrollment, Checked
<1>3. ASSUME NEW w \in Workers, NEW d \in Drafts, CompleteRead(w, d) PROVE ReceiptPart'
  BY <1>0, <1>3, ReadEffect DEF CompleteRead, proving, Proving
<1>4. ASSUME NEW w \in Workers, NEW r \in Requests, NEW f \in Roots, SubmitRead(w, r, f)
      PROVE  ReceiptPart'
  <2>1. \A q \in Requests : Checked(w, q)' => q \notin nullified
    BY <1>4, SubmitEffect DEF Checked
  <2> QED
    BY <1>1, <1>4, <2>1, SubmitEffect DEF SubmitRead, proving
<1>5. ASSUME NEW w \in Workers, Complete(w) PROVE ReceiptPart'
  <2>1. UNCHANGED <<nullified, receipts, twice>>
    BY <1>5 DEF Complete, CompleteMap, CompleteCommit, CompleteVersion, CompleteLog,
       ChainMines, ChainFails, SetChainTx, Finish, proving
  <2>2. CASE CompleteVersion(w) \/ ChainMines(w)
    BY <1>0, <2>1, <2>2, VersionEffect, MinesEffect DEF Moves, Proving
  <2>3. CASE Finish(w)
    BY <1>0, <2>1, <2>3, StopKeeps, IdleFields DEF Finish, Stops, Proving
  <2>4. ASSUME NEW to \in Completing, Goto(w, to) PROVE ReceiptPart'
    BY <1>0, <2>1, <2>4, GotoMoves DEF Moves, Completing, Proving
  <2>5. CASE CompleteMap(w) \/ CompleteCommit(w) \/ CompleteLog(w) \/ ChainFails(w) \/ SetChainTx(w)
    <3>1. \E to \in Completing : Goto(w, to)
      BY <2>5 DEF CompleteMap, CompleteCommit, CompleteLog, ChainFails, SetChainTx, Completing
    <3> QED
      BY <2>4, <3>1
  <2> QED
    BY <1>5, <2>2, <2>3, <2>5 DEF Complete
<1>6. ASSUME NEW w \in Workers, SubmitIdentity(w) PROVE ReceiptPart'
  <2>1. \A q \in Requests : Checked(w, q)' => Checked(w, q)
    BY <1>6, IdentityEffect, IdleFields DEF Checked, Moves, Stops
  <2> QED
    BY <1>1, <1>6, <2>1, IdentityEffect, IdleFields DEF SubmitIdentity, proving, Moves, Stops
<1>7. ASSUME NEW w \in Workers, JobFails(w) PROVE ReceiptPart'
  BY <1>0, <1>7, StopKeeps, IdleFields DEF JobFails, proving, Stops, Proving
<1>8. ASSUME NEW w \in Workers, Nullify(w) PROVE ReceiptPart'
  <2> PICK q \in Requests : q = job[w].request
    BY <1>8, NullifyEffect
  <2>1. /\ job[w].pc = "nullify" /\ job'[w].pc = "receipt" /\ job'[w].request = q /\ Others(w)
        /\ nullified' = nullified \cup {q} /\ receipts' = receipts
        /\ twice' = IF Races(w, q) THEN twice \cup {q} ELSE twice
    BY <1>8, NullifyEffect DEF Nullify, Moves
  <2>2. ASSUME NEW r \in Requests, r # q PROVE Receipted(r)'
    <3>1. \A v \in Workers : Receipting(v, r)' => Receipting(v, r)
      BY <2>1, <2>2 DEF Receipting, Others
    <3>3. \A v \in Workers : Checked(v, r)' => Checked(v, r)
      BY <2>1, <2>2 DEF Checked, Others
    <3>2. Receipted(r) /\ (r \in twice' <=> r \in twice) /\ (r \in nullified' <=> r \in nullified)
      BY <2>1, <2>2 DEF ReceiptPart
    <3> QED
      BY <2>1, <3>1, <3>2, <3>3 DEF Receipted
  <2>3. Receipted(q)'
    <3>1. \A v \in Workers : Receipting(v, q)' => v = w \/ Receipting(v, q)
      BY <2>1 DEF Receipting, Others
    <3>2. CASE Races(w, q) \/ q \in twice
      BY <2>1, <3>1, <3>2 DEF Receipted
    \* the only submission past the check found the request open: nobody is past it
    <3>3. CASE ~ Races(w, q) /\ q \notin twice
      <4>1. Checked(w, q) /\ Receipted(q) /\ receipts[q] \in Nat
        BY <2>1 DEF Checked, ReceiptPart, TypeOK
      <4>2. q \notin nullified
        BY <3>3, <4>1 DEF Receipted
      <4>3. receipts[q] = 0 /\ \A v \in Workers : ~ Receipting(v, q)
        BY <4>1, <4>2 DEF Receipted
      <4>4. \A v \in Workers : ~ Checked(v, q)'
        BY <2>1, <3>3 DEF Checked, Races, Others
      <4> QED
        BY <2>1, <3>1, <4>3, <4>4 DEF Receipted
    <3> QED
      BY <3>2, <3>3
  <2> QED
    BY <2>2, <2>3 DEF ReceiptPart
<1>9. ASSUME NEW w \in Workers, InsertReceipt(w) PROVE ReceiptPart'
  <2> PICK q \in Requests : q = job[w].request
    BY <1>9, ReceiptEffect
  <2>1. /\ job[w].pc = "receipt" /\ job'[w].pc = "idle" /\ Others(w)
        /\ receipts' = [receipts EXCEPT ![q] = @ + 1]
        /\ UNCHANGED <<nullified, twice>>
    BY <1>9, ReceiptEffect, IdleFields DEF InsertReceipt, Stops
  <2>2. \A v \in Workers, r \in Requests : Receipting(v, r)' => v # w /\ Receipting(v, r)
    BY <2>1 DEF Receipting, Others
  <2>5. \A v \in Workers, r \in Requests : Checked(v, r)' => Checked(v, r)
    BY <2>1 DEF Checked, Others
  <2>3. ASSUME NEW r \in Requests, r # q PROVE Receipted(r)'
    <3>1. receipts'[r] = receipts[r] /\ Receipted(r)
      BY <2>1, <2>3 DEF ReceiptPart, TypeOK
    <3> QED
      BY <2>1, <2>2, <2>5, <3>1 DEF Receipted
  <2>4. Receipted(q)'
    <3>1. Receipting(w, q) /\ Receipted(q) /\ receipts'[q] = receipts[q] + 1 /\ receipts[q] \in Nat
      BY <2>1 DEF Receipting, ReceiptPart, TypeOK
    <3>2. q \notin twice => receipts[q] = 0 /\ \A v \in Workers : ~ Receipting(v, q)'
      BY <2>2, <3>1 DEF Receipted
    <3>3. q \in nullified /\ \A v \in Workers : Receipting(v, q)' => q \in nullified'
      BY <2>1, <2>2, <3>1 DEF Receipted
    <3> QED
      BY <2>1, <2>5, <3>1, <3>2, <3>3 DEF Receipted
  <2> QED
    BY <2>3, <2>4 DEF ReceiptPart
<1> QED
  BY <1>2, <1>3, <1>4, <1>5, <1>6, <1>7, <1>8, <1>9 DEF Next, Submit

\* One step of a settled request.
LEMMA SettledStays ==
  ASSUME TypeOK, [Next]_vars, NEW r \in Requests, r \in nullified,
         \A w \in Workers : job[w].request # r
  PROVE  receipts'[r] = receipts[r] /\ \A w \in Workers : job'[w].request # r
<1> DEFINE Goal == receipts'[r] = receipts[r] /\ \A w \in Workers : job'[w].request # r
<1>1. ASSUME NEW w \in Workers, Others(w), job'[w].request # r, receipts'[r] = receipts[r]
      PROVE  Goal
  BY <1>1 DEF Others
<1>2. CASE \/ \E d \in Drafts : StartEnrollment(d)
           \/ \E q \in Requests, u \in Uids : CreateChallenge(q, u)
           \/ UNCHANGED vars
  BY <1>2 DEF StartEnrollment, CreateChallenge, vars, proving, enrollment
<1>3. Idle.request # r /\ None # r
  BY IdleFields, IdentityAssumption
<1>4. ASSUME NEW w \in Workers, NEW d \in Drafts, CompleteRead(w, d) PROVE Goal
  BY <1>1, <1>3, <1>4, ReadEffect DEF CompleteRead, proving
<1>5. ASSUME NEW w \in Workers, NEW q \in Requests, NEW f \in Roots, SubmitRead(w, q, f)
      PROVE  Goal
  <2>1. q \notin nullified /\ job'[w].request = q /\ Others(w)
    BY <1>5, SubmitEffect
  <2>2. receipts' = receipts
    BY <1>5 DEF SubmitRead, proving
  <2> QED
    BY <1>1, <2>1, <2>2
<1>6. ASSUME NEW w \in Workers, Complete(w) PROVE Goal
  <2>1. UNCHANGED receipts
    BY <1>6 DEF Complete, CompleteMap, CompleteCommit, CompleteVersion, CompleteLog,
       ChainMines, ChainFails, SetChainTx, Finish, proving
  <2>2. CASE CompleteVersion(w) \/ ChainMines(w)
    BY <1>1, <2>1, <2>2, VersionEffect, MinesEffect DEF Moves
  <2>3. CASE Finish(w)
    BY <1>1, <1>3, <2>1, <2>3, StopKeeps DEF Finish, Stops
  <2>4. ASSUME NEW to \in Completing, Goto(w, to) PROVE Goal
    BY <1>1, <2>1, <2>4, GotoMoves DEF Moves
  <2>5. CASE CompleteMap(w) \/ CompleteCommit(w) \/ CompleteLog(w) \/ ChainFails(w) \/ SetChainTx(w)
    <3>1. \E to \in Completing : Goto(w, to)
      BY <2>5 DEF CompleteMap, CompleteCommit, CompleteLog, ChainFails, SetChainTx, Completing
    <3> QED
      BY <2>4, <3>1
  <2> QED
    BY <1>6, <2>2, <2>3, <2>5 DEF Complete
<1>7. ASSUME NEW w \in Workers, Submit(w) PROVE Goal
  <2>1. job'[w].request # r /\ Others(w)
    BY <1>3, <1>7, IdentityEffect, NullifyEffect, ReceiptEffect DEF Submit, Moves, Stops
  <2>2. receipts'[r] = receipts[r]
    BY <1>7, ReceiptEffect DEF Submit, SubmitIdentity, Nullify, proving, TypeOK
  <2> QED
    BY <1>1, <2>1, <2>2
<1>8. ASSUME NEW w \in Workers, JobFails(w) PROVE Goal
  BY <1>1, <1>3, <1>8, StopKeeps DEF JobFails, proving, Stops
<1> QED
  BY <1>2, <1>4, <1>5, <1>6, <1>7, <1>8 DEF Next

-----------------------------------------------------------------------------
(* The tables and the chain agree.                                          *)

\* Rows and events are only ever added or replaced.
Grows ==
  /\ \A u \in Uids : /\ map[u] # None => map'[u] # None
                     /\ commits[u] # None => commits'[u] # None
                     /\ log[u] # <<>> => log'[u] # <<>>
  /\ \A i \in DOMAIN events : i \in DOMAIN events' /\ events'[i] = events[i]

\* A step of a handler on uid u touches no other.
Only(u) ==
  \A v \in Uids \ {u} :
    /\ map'[v] = map[v] /\ commits'[v] = commits[v] /\ log'[v] = log[v]
    /\ registry'[v] = registry[v]
    /\ v \in broken => v \in broken'
    /\ v \in offchain => v \in offchain'

LEMMA WrittenKeeps ==
  ASSUME TypeOK, Grows, NEW w \in Workers, Written(w), job'[w] = job[w]
  PROVE  Written(w)'
<1>1. job[w].pc \in Completing => job[w].uid \in Uids
  BY JobFields DEF Completing
<1> QED
  BY <1>1 DEF Grows, Written

\* Whoever completes uid u is not touched by a step on another uid.
LEMMA CleanFrame ==
  ASSUME TypeOK, NEW u \in Uids, Clean(u),
         \A i \in DOMAIN events : i \in DOMAIN events' /\ events'[i] = events[i],
         map'[u] = map[u], commits'[u] = commits[u], log'[u] = log[u],
         registry'[u] = registry[u], u \in broken => u \in broken',
         u \in offchain => u \in offchain',
         CompletionsOf(u)' = CompletionsOf(u),
         \A w \in CompletionsOf(u) : job'[w] = job[w]
  PROVE  Clean(u)'
<1>1. Linear(u)'
  BY DEF Clean, Linear
<1>2. Traced(u)'
  BY DEF Clean, Traced
<1>3. ASSUME NEW w \in CompletionsOf(u) PROVE Alone(w)'
  <2>1. job'[w] = job[w] /\ job[w].uid = u /\ Alone(w)
    BY DEF CompletionsOf, Clean
  <2> QED
    BY <2>1 DEF Alone
<1>4. u \notin broken' => InStep(u)'
  BY DEF Clean, InStep
<1>5. u \notin broken' => AtRest(u)'
  BY DEF Clean, AtRest
<1> QED
  BY <1>1, <1>2, <1>3, <1>4, <1>5 DEF Clean

LEMMA SameCompletions ==
  ASSUME NEW w \in Workers, Others(w), NEW u \in Uids,
         w \in CompletionsOf(u)' <=> w \in CompletionsOf(u),
         w \in CompletionsOf(u) => job'[w] = job[w]
  PROVE  /\ CompletionsOf(u)' = CompletionsOf(u)
         /\ \A v \in CompletionsOf(u) : job'[v] = job[v]
BY DEF CompletionsOf, Others

\* A step of one handler on uid u leaves the others clean.
LEMMA ElsewhereKeeps ==
  ASSUME TypeOK, NEW w \in Workers, Others(w), NEW u \in Uids, Only(u), Grows,
         job[w].pc \in Completing => job[w].uid = u,
         job'[w].pc \in Completing => job'[w].uid = u,
         NEW v \in Uids \ {u}, Clean(v)
  PROVE  Clean(v)'
<1>1. w \notin CompletionsOf(v) /\ w \notin CompletionsOf(v)'
  BY DEF CompletionsOf
<1>2. /\ CompletionsOf(v)' = CompletionsOf(v)
      /\ \A x \in CompletionsOf(v) : job'[x] = job[x]
  BY <1>1, SameCompletions
<1>3. /\ map'[v] = map[v] /\ commits'[v] = commits[v] /\ log'[v] = log[v]
      /\ registry'[v] = registry[v] /\ (v \in broken => v \in broken')
      /\ (v \in offchain => v \in offchain')
  BY DEF Only
<1>4. \A i \in DOMAIN events : i \in DOMAIN events' /\ events'[i] = events[i]
  BY DEF Grows
<1> QED
  BY <1>2, <1>3, <1>4, CleanFrame

\* What holds of a completion that is alone with its uid.
LEMMA Solo ==
  ASSUME TypeOK, NEW w \in Workers, job[w].pc \in Completing, Clean(job[w].uid)
  PROVE  /\ job[w].uid \in Uids /\ CompletionsOf(job[w].uid) = {w} /\ Alone(w)
<1>1. job[w].uid \in Uids /\ w \in CompletionsOf(job[w].uid)
  BY JobFields DEF CompletionsOf, Completing
<1>2. Alone(w)
  BY <1>1 DEF Clean
<1> QED
  BY <1>1, <1>2 DEF Alone

LEMMA StaysSolo ==
  ASSUME NEW w \in Workers, NEW u \in Uids, CompletionsOf(u) = {w}, Others(w)
  PROVE  /\ job'[w].pc \in Completing /\ job'[w].uid = u => CompletionsOf(u)' = {w}
         /\ job'[w].pc \notin Completing => CompletionsOf(u)' = {}
BY DEF CompletionsOf, Others

\* The next version of a log that counts up from one.
LEMMA NextOfLinear ==
  ASSUME TypeOK, NEW u \in Uids, Linear(u), NEW n, NEW prev, NextVersion(u, n, prev)
  PROVE  /\ n = Len(log[u]) + 1
         /\ prev = IF Len(log[u]) = 0 THEN None ELSE Last(log[u]).root
<1> DEFINE rows == ToSet(log[u])
           top == {row \in rows : \A other \in rows : other.version <= row.version}
           m == Len(log[u])
<1>1. log[u] \in Seq(Row) /\ m \in Nat /\ DOMAIN log[u] = 1..m
  BY DEF TypeOK
<1>2. \A i \in 1..m : log[u][i].version = i
  BY <1>1 DEF Linear
<1>3. rows = {log[u][i] : i \in 1..m}
  BY <1>1 DEF ToSet
<1>4. CASE m = 0
  <2>1. rows = {} /\ top = {}
    BY <1>3, <1>4
  <2> QED
    BY <1>4, <2>1 DEF NextVersion
<1>5. CASE m # 0
  <2>1. m \in 1..m
    BY <1>1, <1>5
  <2>2. log[u][m] \in rows /\ log[u][m].version = m
    BY <1>2, <1>3, <2>1
  <2>3. \A other \in rows : other.version <= m
    BY <1>1, <1>2, <1>3
  <2>4. log[u][m] \in top
    BY <2>2, <2>3
  <2>5. PICK row \in top : n = row.version + 1 /\ prev = row.root
    BY <2>4 DEF NextVersion
  <2>6. PICK i \in 1..m : row = log[u][i]
    BY <1>3
  <2>7. row.version = i /\ m <= row.version
    BY <1>2, <2>2, <2>6
  <2>8. i = m
    BY <1>1, <2>7
  <2> QED
    BY <1>5, <2>5, <2>6, <2>7, <2>8 DEF Last
<1> QED
  BY <1>4, <1>5

WrittenPart == \A w \in Workers : Written(w)
CleanPart == \A u \in Uids \ crossed : Clean(u)

\* A step of the completion w of uid u: what is left to show is what w has written
\* and, if it is alone with u, that u is clean again.
LEMMA CompletionKeeps ==
  ASSUME TypeOK, WrittenPart, CleanPart, NEW w \in Workers, NEW u \in Uids,
         job[w].pc \in Completing, job[w].uid = u, Others(w), Only(u), Grows,
         crossed' = crossed, job'[w].pc \in Completing => job'[w].uid = u,
         Written(w)',
         Clean(u) /\ CompletionsOf(u) = {w} /\ Alone(w) => Clean(u)'
  PROVE  Grows /\ WrittenPart' /\ CleanPart'
<1>1. WrittenPart'
  BY WrittenKeeps DEF WrittenPart, Others
<1>2. ASSUME NEW v \in Uids \ crossed PROVE Clean(v)'
  <2>1. Clean(v)
    BY DEF CleanPart
  <2>2. CASE v = u
    BY <2>1, <2>2, Solo
  <2>3. CASE v # u
    BY <2>1, <2>3, ElsewhereKeeps
  <2> QED
    BY <2>2, <2>3
<1> QED
  BY <1>1, <1>2 DEF CleanPart

LEMMA MapCleans ==
  ASSUME TypeOK, WrittenPart, CleanPart, NEW w \in Workers, CompleteMap(w)
  PROVE  Grows /\ WrittenPart' /\ CleanPart'
<1>1. job[w].pc = "map" /\ Goto(w, "commit")
  BY DEF CompleteMap
<1>2. Moves(w, "commit") /\ job[w].uid \in Uids /\ job[w].face \in Roots
  BY <1>1, PassEffect DEF Completing
<1> PICK u \in Uids : u = job[w].uid
  BY <1>2
<1>3. /\ job'[w].pc = "commit" /\ job'[w].uid = u /\ job'[w].face = job[w].face /\ Others(w)
      /\ map' = [map EXCEPT ![u] = job[w].face]
      /\ UNCHANGED <<commits, log, registry, events, crossed, broken, offchain>>
  BY <1>1, <1>2 DEF CompleteMap, Moves
<1>4. /\ map'[u] = job[w].face /\ map'[u] # None /\ \A v \in Uids \ {u} : map'[v] = map[v]
  BY <1>2, <1>3, IdentityAssumption DEF TypeOK, Roots
<1>5. Only(u) /\ Grows
  BY <1>3, <1>4 DEF Only, Grows
<1>6. Written(w)'
  BY <1>3, <1>4 DEF Written
<1>7. ASSUME Clean(u), CompletionsOf(u) = {w}, Alone(w) PROVE Clean(u)'
  <2>1. CompletionsOf(u)' = {w}
    BY <1>3, <1>7, StaysSolo DEF Completing
  <2>2. Linear(u)' /\ Traced(u)'
    BY <1>3, <1>7 DEF Clean, Linear, Traced
  <2>3. Alone(w)'
    BY <1>3, <1>4, <2>1 DEF Alone
  <2>4. u \notin broken => InStep(u)' /\ AtRest(u)'
    BY <1>1, <1>3, <1>7, <2>1 DEF Clean, InStep, AtRest
  <2> QED
    BY <1>3, <2>1, <2>2, <2>3, <2>4 DEF Clean
<1> QED
  BY <1>1, <1>3, <1>5, <1>6, <1>7, CompletionKeeps DEF Completing

LEMMA CommitCleans ==
  ASSUME TypeOK, WrittenPart, CleanPart, NEW w \in Workers, CompleteCommit(w)
  PROVE  Grows /\ WrittenPart' /\ CleanPart'
<1>1. job[w].pc = "commit" /\ Goto(w, "version")
  BY DEF CompleteCommit
<1>2. Moves(w, "version") /\ job[w].uid \in Uids /\ job[w].face \in Roots
  BY <1>1, PassEffect DEF Completing
<1> PICK u \in Uids : u = job[w].uid
  BY <1>2
<1>3. /\ job'[w].pc = "version" /\ job'[w].uid = u /\ job'[w].face = job[w].face /\ Others(w)
      /\ commits' = [commits EXCEPT ![u] = job[w].face]
      /\ UNCHANGED <<map, log, registry, events, crossed, broken, offchain>>
  BY <1>1, <1>2 DEF CompleteCommit, Moves
<1>4. /\ commits'[u] = job[w].face /\ commits'[u] # None
      /\ \A v \in Uids \ {u} : commits'[v] = commits[v]
  BY <1>2, <1>3, IdentityAssumption DEF TypeOK, Roots
<1>5. Only(u) /\ Grows
  BY <1>3, <1>4 DEF Only, Grows
<1>6. Written(w)'
  BY <1>1, <1>3, <1>4 DEF Written, WrittenPart, Completing
<1>7. ASSUME Clean(u), CompletionsOf(u) = {w}, Alone(w) PROVE Clean(u)'
  <2>1. CompletionsOf(u)' = {w}
    BY <1>3, <1>7, StaysSolo DEF Completing
  <2>2. Linear(u)' /\ Traced(u)'
    BY <1>3, <1>7 DEF Clean, Linear, Traced
  <2>3. Alone(w)'
    BY <1>1, <1>3, <1>4, <1>7, <2>1 DEF Alone
  <2>4. u \notin broken => InStep(u)' /\ AtRest(u)'
    BY <1>1, <1>3, <1>7, <2>1 DEF Clean, InStep, AtRest
  <2> QED
    BY <1>3, <2>1, <2>2, <2>3, <2>4 DEF Clean
<1> QED
  BY <1>1, <1>3, <1>5, <1>6, <1>7, CompletionKeeps DEF Completing

LEMMA VersionCleans ==
  ASSUME TypeOK, WrittenPart, CleanPart, NEW w \in Workers, CompleteVersion(w)
  PROVE  Grows /\ WrittenPart' /\ CleanPart'
<1>1. /\ job[w].pc = "version" /\ job[w].uid \in Uids /\ Moves(w, "log")
      /\ NextVersion(job[w].uid, job'[w].version, job'[w].prev)
  BY VersionEffect
<1> PICK u \in Uids : u = job[w].uid
  BY <1>1
<1>2. /\ job'[w].pc = "log" /\ job'[w].uid = u /\ job'[w].face = job[w].face /\ Others(w)
      /\ UNCHANGED <<map, commits, log, registry, events, crossed, broken, offchain>>
      /\ NextVersion(u, job'[w].version, job'[w].prev)
  BY <1>1 DEF CompleteVersion, Moves, enrollment
<1>3. Only(u) /\ Grows
  BY <1>2 DEF Only, Grows
<1>4. Written(w)'
  BY <1>1, <1>2 DEF Written, WrittenPart, Completing
<1>5. ASSUME Clean(u), CompletionsOf(u) = {w}, Alone(w) PROVE Clean(u)'
  <2>1. CompletionsOf(u)' = {w}
    BY <1>2, <1>5, StaysSolo DEF Completing
  <2>2. Linear(u) /\ Linear(u)' /\ Traced(u)'
    BY <1>2, <1>5 DEF Clean, Linear, Traced
  <2> PICK m : m = job'[w].version
    OBVIOUS
  <2> PICK prev : prev = job'[w].prev
    OBVIOUS
  <2>3. m = Len(log[u]) + 1 /\ prev = IF Len(log[u]) = 0 THEN None ELSE Last(log[u]).root
    BY <1>2, <2>2, NextOfLinear
  <2>4. Alone(w)'
    BY <1>1, <1>2, <1>5, <2>1, <2>3 DEF Alone
  <2>5. u \notin broken => InStep(u)' /\ AtRest(u)'
    BY <1>1, <1>2, <1>5, <2>1 DEF Clean, InStep, AtRest
  <2> QED
    BY <1>2, <2>1, <2>2, <2>4, <2>5 DEF Clean
<1> QED
  BY <1>1, <1>2, <1>3, <1>4, <1>5, CompletionKeeps DEF Completing

\* A row added at the end leaves those before it where they are.
LEMMA AppendFacts ==
  ASSUME NEW S, NEW s \in Seq(S), NEW e \in S
  PROVE  /\ Append(s, e) # <<>> /\ Len(Append(s, e)) = Len(s) + 1
         /\ DOMAIN Append(s, e) = 1..(Len(s) + 1)
         /\ \A i \in 1..Len(s) : Append(s, e)[i] = s[i]
         /\ Append(s, e)[Len(s) + 1] = e
OBVIOUS

LEMMA LogCleans ==
  ASSUME TypeOK, WrittenPart, CleanPart, NEW w \in Workers, CompleteLog(w)
  PROVE  Grows /\ WrittenPart' /\ CleanPart'
<1>1. job[w].pc = "log" /\ Goto(w, "chain")
  BY DEF CompleteLog
<1>2. /\ Moves(w, "chain") /\ job[w].uid \in Uids /\ job[w].face \in Roots
      /\ job'[w].version = job[w].version
      /\ job[w].version \in Nat /\ job[w].prev \in Roots \cup {None}
  BY <1>1, PassEffect, JobFields DEF Completing
<1> PICK u \in Uids : u = job[w].uid
  BY <1>2
<1> PICK n \in Nat : n = Len(log[u])
  BY DEF TypeOK
<1> DEFINE row == [version |-> job[w].version, root |-> job[w].face, prev |-> job[w].prev,
                   tx |-> 0]
<1>3. /\ job'[w].pc = "chain" /\ job'[w].uid = u /\ job'[w].face = job[w].face /\ Others(w)
      /\ log' = [log EXCEPT ![u] = Append(@, row)]
      /\ UNCHANGED <<map, commits, registry, events, crossed, broken, offchain>>
  BY <1>1, <1>2 DEF CompleteLog, Moves
<1>4. /\ row \in Row /\ row.version = job[w].version /\ row.root = job[w].face
      /\ row.prev = job[w].prev /\ row.tx = 0
  BY <1>2 DEF Row
<1> HIDE DEF row
<1>5. log[u] \in Seq(Row) /\ DOMAIN log[u] = 1..n
  BY DEF TypeOK
<1>6. /\ log'[u] = Append(log[u], row) /\ \A v \in Uids \ {u} : log'[v] = log[v]
  BY <1>3 DEF TypeOK
<1>7. /\ log'[u] # <<>> /\ Len(log'[u]) = n + 1 /\ DOMAIN log'[u] = 1..(n + 1)
      /\ \A i \in 1..n : log'[u][i] = log[u][i]
      /\ log'[u][n + 1] = row
  BY <1>4, <1>5, <1>6, AppendFacts
<1>8. Last(log'[u]) = row
  BY <1>7 DEF Last
<1>9. Only(u) /\ Grows
  BY <1>3, <1>6, <1>7 DEF Only, Grows
<1>10. Written(w)'
  BY <1>1, <1>3, <1>7 DEF Written, WrittenPart, Completing
<1>11. ASSUME Clean(u), CompletionsOf(u) = {w}, Alone(w) PROVE Clean(u)'
  <2>1. CompletionsOf(u)' = {w}
    BY <1>3, <1>11, StaysSolo DEF Completing
  <2>2. Linear(u) /\ Traced(u)
    BY <1>11 DEF Clean
  <2>3. /\ row.version = n + 1 /\ row.prev = IF n = 0 THEN None ELSE log[u][n].root
    BY <1>1, <1>4, <1>11 DEF Alone, Last
  <2>4. Linear(u)'
    <3>1. ASSUME NEW i \in 1..(n + 1)
          PROVE  /\ log'[u][i].version = i
                 /\ log'[u][i].prev = IF i = 1 THEN None ELSE log'[u][i - 1].root
      <4>1. CASE i \in 1..n
        <5>1. i # 1 => i - 1 \in 1..n
          BY <4>1
        <5>2. /\ log[u][i].version = i
              /\ log[u][i].prev = IF i = 1 THEN None ELSE log[u][i - 1].root
          BY <1>5, <2>2, <4>1 DEF Linear
        <5>3. log'[u][i] = log[u][i] /\ (i # 1 => log'[u][i - 1] = log[u][i - 1])
          BY <1>7, <4>1, <5>1
        <5> QED
          BY <5>2, <5>3
      <4>2. CASE i = n + 1
        <5>1. log'[u][i] = row
          BY <1>7, <4>2
        <5>2. i # 1 => n \in 1..n /\ i - 1 = n /\ n # 0
          BY <4>2
        <5>3. i # 1 => log'[u][i - 1] = log[u][n]
          BY <1>7, <5>2
        <5>4. i = 1 <=> n = 0
          BY <4>2
        <5> QED
          BY <2>3, <4>2, <5>1, <5>3, <5>4
      <4> QED
        BY <4>1, <4>2
    <3> QED
      BY <1>7, <3>1 DEF Linear
  <2>5. Traced(u)'
    <3>1. ASSUME NEW i \in 1..(n + 1), log'[u][i].tx # 0
          PROVE  i \in 1..n /\ log'[u][i] = log[u][i]
      BY <1>4, <1>7, <3>1
    <3>2. ASSUME NEW i \in 1..(n + 1), log'[u][i].tx # 0
          PROVE  /\ log'[u][i].tx \in DOMAIN events
                 /\ events[log'[u][i].tx].uid = u
                 /\ events[log'[u][i].tx].root = log'[u][i].root
      <4>1. i \in 1..n /\ log'[u][i] = log[u][i]
        BY <3>1, <3>2
      <4> QED
        BY <1>5, <2>2, <3>2, <4>1 DEF Traced
    <3>3. DOMAIN log'[u] = 1..(n + 1) /\ events' = events
      BY <1>3, <1>7
    <3> QED
      BY <3>2, <3>3 DEF Traced
  <2>6. Alone(w)'
    BY <1>1, <1>2, <1>3, <1>4, <1>7, <1>8, <1>11, <2>1, <2>3 DEF Alone
  <2>7. u \notin broken => InStep(u)' /\ AtRest(u)'
    <3> SUFFICES ASSUME u \notin broken PROVE InStep(u)' /\ AtRest(u)'
      OBVIOUS
    <3>1. u \notin offchain => registry[u].version = n
      BY <1>1, <1>11 DEF Clean, InStep
    <3>2. InStep(u)'
      BY <1>3, <1>7, <2>1, <3>1 DEF InStep
    <3>3. AtRest(u)'
      BY <1>3, <2>1 DEF AtRest
    <3> QED
      BY <3>2, <3>3
  <2> QED
    BY <1>3, <2>1, <2>4, <2>5, <2>6, <2>7 DEF Clean
<1> QED
  BY <1>1, <1>3, <1>9, <1>10, <1>11, CompletionKeeps DEF Completing

\* What the contract's count and event mean to the uid they are about.
LEMMA EnrollKeeps ==
  ASSUME TypeOK, NEW u \in Uids, NEW root \in Roots, EnrollIdentity(u, root),
         UNCHANGED <<map, commits, log, broken>>, u \in offchain => u \in offchain',
         \A v \in Uids \ {u} : v \in offchain => v \in offchain'
  PROVE  Only(u) /\ Grows
<1>1. /\ \A v \in Uids \ {u} : registry'[v] = registry[v]
      /\ \A i \in DOMAIN events : i \in DOMAIN events' /\ events'[i] = events[i]
  BY EnrollEffect
<1> QED
  BY <1>1 DEF Only, Grows

LEMMA MinesCleans ==
  ASSUME TypeOK, WrittenPart, CleanPart, NEW w \in Workers, ChainMines(w)
  PROVE  Grows /\ WrittenPart' /\ CleanPart'
<1>1. /\ job[w].pc = "chain" /\ job[w].uid \in Uids /\ job[w].face \in Roots
      /\ Moves(w, "tx") /\ job'[w].version = job[w].version /\ job'[w].tx = Len(events')
      /\ events' \in Seq(Event)
  BY MinesEffect
<1> PICK u \in Uids : u = job[w].uid
  BY <1>1
<1> PICK face \in Roots : face = job[w].face
  BY <1>1
<1> PICK e \in Nat : e = Len(events')
  BY <1>1
<1>2. /\ job'[w].pc = "tx" /\ job'[w].uid = u /\ job'[w].face = face /\ Others(w)
      /\ EnrollIdentity(u, face)
      /\ UNCHANGED <<map, commits, log, crossed, broken, offchain>>
  BY <1>1 DEF ChainMines, Moves
<1>3. /\ registry'[u].root = face /\ registry'[u].version = registry[u].version + 1
      /\ \A i \in DOMAIN events : i \in DOMAIN events' /\ events'[i] = events[i]
      /\ e \in DOMAIN events' /\ events'[e].uid = u /\ events'[e].root = face
  BY <1>2, EnrollEffect
<1>4. Only(u) /\ Grows
  BY <1>2, EnrollKeeps
<1>5. Written(w)'
  BY <1>1, <1>2, <1>3 DEF Written, WrittenPart, Completing
<1>6. ASSUME Clean(u), CompletionsOf(u) = {w}, Alone(w) PROVE Clean(u)'
  <2>1. CompletionsOf(u)' = {w}
    BY <1>2, <1>6, StaysSolo DEF Completing
  <2>2. Linear(u)'
    BY <1>2, <1>6 DEF Clean, Linear
  <2>3. Traced(u)'
    BY <1>2, <1>3, <1>6 DEF Clean, Traced
  <2>4. Alone(w)'
    BY <1>1, <1>2, <1>6, <2>1 DEF Alone
  <2>5. u \notin broken => InStep(u)' /\ AtRest(u)'
    <3> SUFFICES ASSUME u \notin broken PROVE InStep(u)' /\ AtRest(u)'
      OBVIOUS
    <3>1. Len(log[u]) \in Nat /\ registry[u].version \in Nat
      BY DEF TypeOK
    <3>2. u \notin offchain => registry[u].version = Len(log[u]) - 1
      BY <1>1, <1>6 DEF Clean, InStep
    <3>3. u \notin offchain => registry'[u].version = Len(log[u])
      BY <1>3, <3>1, <3>2
    <3>4. InStep(u)'
      BY <1>2, <1>3, <2>1, <3>3 DEF InStep
    <3>5. AtRest(u)'
      BY <1>2, <2>1 DEF AtRest
    <3> QED
      BY <3>4, <3>5
  <2> QED
    BY <1>2, <2>1, <2>2, <2>3, <2>4, <2>5 DEF Clean
<1> QED
  BY <1>1, <1>2, <1>4, <1>5, <1>6, CompletionKeeps DEF Completing

LEMMA FailsCleans ==
  ASSUME TypeOK, WrittenPart, CleanPart, NEW w \in Workers, ChainFails(w)
  PROVE  Grows /\ WrittenPart' /\ CleanPart'
<1>1. job[w].pc = "chain" /\ Goto(w, "finish")
  BY DEF ChainFails
<1>2. /\ Moves(w, "finish") /\ job[w].uid \in Uids /\ job[w].face \in Roots
      /\ job'[w].version = job[w].version
  BY <1>1, PassEffect DEF Completing
<1> PICK u \in Uids : u = job[w].uid
  BY <1>2
<1> PICK face \in Roots : face = job[w].face
  BY <1>2
<1>3. /\ job'[w].pc = "finish" /\ job'[w].uid = u /\ job'[w].face = face /\ Others(w)
      /\ EnrollIdentity(u, face) \/ UNCHANGED <<registry, events>>
      /\ offchain' = offchain \cup {u}
      /\ UNCHANGED <<map, commits, log, crossed, broken>>
  BY <1>2 DEF ChainFails, Moves
<1>4. Only(u) /\ Grows
  <2>1. CASE EnrollIdentity(u, face)
    BY <1>3, <2>1, EnrollKeeps
  <2>2. CASE UNCHANGED <<registry, events>>
    BY <1>3, <2>2 DEF Only, Grows
  <2> QED
    BY <1>3, <2>1, <2>2
<1>5. Written(w)'
  BY <1>1, <1>3 DEF Written, WrittenPart, Completing
<1>6. ASSUME Clean(u), CompletionsOf(u) = {w}, Alone(w) PROVE Clean(u)'
  <2>1. CompletionsOf(u)' = {w}
    BY <1>3, <1>6, StaysSolo DEF Completing
  <2>2. Linear(u)' /\ Traced(u)'
    BY <1>3, <1>4, <1>6 DEF Clean, Linear, Traced, Grows
  <2>3. Alone(w)'
    BY <1>1, <1>2, <1>3, <1>6, <2>1 DEF Alone
  <2>4. InStep(u)' /\ AtRest(u)'
    BY <1>3, <2>1 DEF InStep, AtRest
  <2> QED
    BY <1>3, <2>1, <2>2, <2>3, <2>4 DEF Clean
<1> QED
  BY <1>1, <1>3, <1>4, <1>5, <1>6, CompletionKeeps DEF Completing

LEMMA SetTxCleans ==
  ASSUME TypeOK, WrittenPart, CleanPart, NEW w \in Workers, SetChainTx(w)
  PROVE  Grows /\ WrittenPart' /\ CleanPart'
<1>1. job[w].pc = "tx" /\ Goto(w, "finish")
  BY DEF SetChainTx
<1>2. /\ Moves(w, "finish") /\ job[w].uid \in Uids /\ job[w].face \in Roots
      /\ job'[w].version = job[w].version /\ job[w].version \in Nat /\ job[w].tx \in Nat
  BY <1>1, PassEffect, JobFields DEF Completing
<1> PICK u \in Uids : u = job[w].uid
  BY <1>2
<1> PICK n \in Nat : n = Len(log[u])
  BY DEF TypeOK
<1> DEFINE set(row) == IF row.version = job[w].version THEN [row EXCEPT !.tx = job[w].tx]
                                                       ELSE row
<1>3. /\ job'[w].pc = "finish" /\ job'[w].uid = u /\ job'[w].face = job[w].face /\ Others(w)
      /\ log' = [log EXCEPT ![u] = [i \in DOMAIN @ |-> set(@[i])]]
      /\ UNCHANGED <<map, commits, registry, events, crossed, broken, offchain>>
  BY <1>1, <1>2 DEF SetChainTx, Moves
<1>4. log[u] \in Seq(Row) /\ DOMAIN log[u] = 1..n
  BY DEF TypeOK
<1>5. log[u] # <<>> /\ n \in 1..n
  BY <1>1, <1>4 DEF Written, WrittenPart, Completing
<1>6. \A row \in Row : /\ set(row) \in Row /\ set(row).version = row.version
                       /\ set(row).root = row.root /\ set(row).prev = row.prev
                       /\ row.version # job[w].version => set(row).tx = row.tx
                       /\ row.version = job[w].version => set(row).tx = job[w].tx
  BY <1>2 DEF Row
<1>7. /\ log'[u] = [i \in 1..n |-> set(log[u][i])]
      /\ \A v \in Uids \ {u} : log'[v] = log[v]
  BY <1>3, <1>4 DEF TypeOK
<1>8. \A i \in 1..n : log[u][i] \in Row /\ log'[u][i] = set(log[u][i])
  BY <1>4, <1>7
<1> HIDE DEF set
<1>9. /\ log'[u] \in Seq(Row) /\ DOMAIN log'[u] = 1..n /\ Len(log'[u]) = n /\ log'[u] # <<>>
  BY <1>4, <1>5, <1>6, <1>7
<1>10. \A i \in 1..n :
         /\ log'[u][i].version = log[u][i].version /\ log'[u][i].root = log[u][i].root
         /\ log'[u][i].prev = log[u][i].prev
         /\ log[u][i].version # job[w].version => log'[u][i].tx = log[u][i].tx
         /\ log[u][i].version = job[w].version => log'[u][i].tx = job[w].tx
  BY <1>6, <1>8
<1>11. Only(u) /\ Grows
  BY <1>3, <1>7, <1>9 DEF Only, Grows
<1>12. Written(w)'
  BY <1>1, <1>3, <1>9 DEF Written, WrittenPart, Completing
<1>13. ASSUME Clean(u), CompletionsOf(u) = {w}, Alone(w) PROVE Clean(u)'
  <2>1. CompletionsOf(u)' = {w}
    BY <1>3, <1>13, StaysSolo DEF Completing
  <2>2. Linear(u) /\ Traced(u)
    BY <1>13 DEF Clean
  <2>3. Linear(u)'
    <3>1. \A i \in 1..n : i # 1 => i - 1 \in 1..n
      OBVIOUS
    <3> QED
      BY <1>4, <1>9, <1>10, <2>2, <3>1 DEF Linear
  <2>4. job[w].version = n /\ log[u][n].root = job[w].face
    BY <1>1, <1>13 DEF Alone, Last
  <2>5. Traced(u)'
    \* the row that gets the hash is the last, which has the root the event has
    <3>1. /\ job[w].tx \in DOMAIN events /\ events[job[w].tx].uid = u
          /\ events[job[w].tx].root = job[w].face
      BY <1>1 DEF Written, WrittenPart, Completing
    <3>2. \A i \in 1..n : log[u][i].version = i
      BY <1>4, <2>2 DEF Linear
    <3>3. ASSUME NEW i \in 1..n, log'[u][i].tx # 0
          PROVE  /\ log'[u][i].tx \in DOMAIN events /\ events[log'[u][i].tx].uid = u
                 /\ events[log'[u][i].tx].root = log'[u][i].root
      <4>1. CASE i = n
        BY <1>10, <2>4, <3>1, <3>2, <4>1
      <4>2. CASE i # n
        <5>1. log[u][i].version # job[w].version
          BY <2>4, <3>2, <4>2
        <5>2. log'[u][i].tx = log[u][i].tx /\ log'[u][i].root = log[u][i].root
          BY <1>10, <5>1
        <5>3. log[u][i].tx # 0 /\ i \in DOMAIN log[u]
          BY <1>4, <3>3, <5>2
        <5>4. /\ log[u][i].tx \in DOMAIN events /\ events[log[u][i].tx].uid = u
              /\ events[log[u][i].tx].root = log[u][i].root
          BY <2>2, <5>3 DEF Traced
        <5> QED
          BY <5>2, <5>4
      <4> QED
        BY <4>1, <4>2
    <3> QED
      BY <1>3, <1>9, <3>3 DEF Traced
  <2>6. Last(log'[u]).root = job[w].face
    BY <1>5, <1>9, <1>10, <2>4 DEF Last
  <2>7. Alone(w)'
    BY <1>1, <1>2, <1>3, <1>9, <1>13, <2>1, <2>4, <2>6 DEF Alone
  <2>8. u \notin broken => InStep(u)' /\ AtRest(u)'
    <3> SUFFICES ASSUME u \notin broken PROVE InStep(u)' /\ AtRest(u)'
      OBVIOUS
    <3>1. u \notin offchain => registry[u].version = n /\ registry[u].root = job[w].face
      BY <1>1, <1>13 DEF Clean, InStep
    <3>2. InStep(u)'
      BY <1>3, <1>9, <2>1, <3>1 DEF InStep
    <3>3. AtRest(u)'
      BY <1>3, <2>1 DEF AtRest
    <3> QED
      BY <3>2, <3>3
  <2> QED
    BY <1>3, <2>1, <2>3, <2>5, <2>7, <2>8 DEF Clean
<1> QED
  BY <1>1, <1>3, <1>11, <1>12, <1>13, CompletionKeeps DEF Completing

LEMMA FinishCleans ==
  ASSUME TypeOK, WrittenPart, CleanPart, NEW w \in Workers, Finish(w)
  PROVE  Grows /\ WrittenPart' /\ CleanPart'
<1>1. job[w].pc = "finish" /\ job[w].uid \in Uids /\ Stops(w)
  BY JobFields, StopKeeps DEF Finish, Completing
<1> PICK u \in Uids : u = job[w].uid
  BY <1>1
<1>2. /\ job'[w].pc = "idle" /\ Others(w)
      /\ UNCHANGED <<map, commits, log, registry, events, crossed, broken, offchain>>
  BY <1>1, IdleFields DEF Finish, Stops
<1>3. job'[w].pc \notin Completing
  BY <1>2 DEF Completing
<1>4. Only(u) /\ Grows
  BY <1>2 DEF Only, Grows
<1>5. Written(w)'
  BY <1>3 DEF Written
<1>6. ASSUME Clean(u), CompletionsOf(u) = {w}, Alone(w) PROVE Clean(u)'
  <2>1. CompletionsOf(u)' = {}
    BY <1>2, <1>3, <1>6, StaysSolo
  <2>2. Linear(u)' /\ Traced(u)'
    BY <1>2, <1>6 DEF Clean, Linear, Traced
  <2>3. u \notin broken => InStep(u)' /\ AtRest(u)'
    <3> SUFFICES ASSUME u \notin broken PROVE InStep(u)' /\ AtRest(u)'
      OBVIOUS
    <3>1. /\ log[u] # <<>> /\ map[u] = job[w].face /\ commits[u] = job[w].face
          /\ Last(log[u]).root = job[w].face
      BY <1>1, <1>6 DEF Alone, Written, WrittenPart, Completing
    <3>2. u \notin offchain => /\ registry[u].version = Len(log[u])
                               /\ registry[u].root = job[w].face
      BY <1>1, <1>6 DEF Clean, InStep
    <3>3. InStep(u)'
      BY <1>2, <2>1, <3>2 DEF InStep
    <3>4. AtRest(u)'
      BY <1>2, <3>1, <3>2 DEF AtRest
    <3> QED
      BY <3>3, <3>4
  <2> QED
    BY <1>2, <2>1, <2>2, <2>3 DEF Clean
<1> QED
  BY <1>1, <1>2, <1>3, <1>4, <1>5, <1>6, CompletionKeeps DEF Completing

\* Handlers that complete nothing, before and after.
LEMMA AsideKeeps ==
  ASSUME TypeOK, WrittenPart, CleanPart, NEW w \in Workers, Others(w),
         job[w].pc \notin Completing, job'[w].pc \notin Completing,
         UNCHANGED <<map, commits, log, registry, events, crossed, broken, offchain>>
  PROVE  Grows /\ WrittenPart' /\ CleanPart'
<1>1. Grows
  BY DEF Grows
<1>2. ASSUME NEW v \in Workers PROVE Written(v)'
  BY <1>1, WrittenKeeps DEF WrittenPart, Written, Others
<1>3. ASSUME NEW u \in Uids \ crossed PROVE Clean(u)'
  <2>1. w \notin CompletionsOf(u) /\ w \notin CompletionsOf(u)'
    BY DEF CompletionsOf
  <2>2. /\ CompletionsOf(u)' = CompletionsOf(u)
        /\ \A v \in CompletionsOf(u) : job'[v] = job[v]
    BY <2>1, SameCompletions
  <2> QED
    BY <2>2, CleanFrame DEF CleanPart
<1> QED
  BY <1>1, <1>2, <1>3 DEF WrittenPart, CleanPart

\* What no handler does, the reading of drafts and requests.
LEMMA QuietKeeps ==
  ASSUME TypeOK, WrittenPart, CleanPart,
         UNCHANGED <<map, commits, log, registry, events, crossed, broken, offchain, job>>
  PROVE  Grows /\ WrittenPart' /\ CleanPart'
<1>1. Grows
  BY DEF Grows
<1>2. ASSUME NEW v \in Workers PROVE Written(v)'
  BY <1>1, WrittenKeeps DEF WrittenPart
<1>3. ASSUME NEW u \in Uids \ crossed PROVE Clean(u)'
  <2>1. /\ CompletionsOf(u)' = CompletionsOf(u)
        /\ \A v \in CompletionsOf(u) : job'[v] = job[v]
    BY DEF CompletionsOf
  <2> QED
    BY <2>1, CleanFrame DEF CleanPart
<1> QED
  BY <1>1, <1>2, <1>3 DEF WrittenPart, CleanPart

LEMMA ReadCleans ==
  ASSUME TypeOK, WrittenPart, CleanPart, NEW w \in Workers, NEW d \in Drafts, CompleteRead(w, d)
  PROVE  Grows /\ WrittenPart' /\ CleanPart'
<1>1. /\ job[w].pc = "idle" /\ draft[d] \in Uids /\ job'[w].pc = "map"
      /\ job'[w].uid = draft[d] /\ Others(w)
  BY ReadEffect
<1> PICK u \in Uids : u = draft[d]
  BY <1>1
<1>2. /\ UNCHANGED <<map, commits, log, registry, events, broken, offchain>>
      /\ crossed' = IF CompletionsOf(u) = {} THEN crossed ELSE crossed \cup {u}
  BY DEF CompleteRead
<1>3. Only(u) /\ Grows /\ job[w].pc \notin Completing /\ job'[w].pc \in Completing
  BY <1>1, <1>2 DEF Only, Grows, Completing
<1>4. WrittenPart'
  BY <1>1, <1>3, WrittenKeeps DEF WrittenPart, Written, Others
<1>5. ASSUME NEW v \in Uids \ crossed' PROVE Clean(v)'
  <2>1. Clean(v)
    BY <1>2 DEF CleanPart
  <2>2. CASE v # u
    BY <1>1, <1>3, <2>1, <2>2, ElsewhereKeeps
  <2>3. CASE v = u
    \* nobody else is at it: a second completion would have crossed the first
    <3>1. CompletionsOf(u) = {}
      BY <1>2, <2>3
    <3>2. CompletionsOf(u)' = {w}
      BY <1>1, <1>3, <3>1 DEF CompletionsOf, Others
    <3>3. Linear(u)' /\ Traced(u)'
      BY <1>2, <2>1, <2>3 DEF Clean, Linear, Traced
    <3>4. Alone(w)'
      BY <1>1, <3>2 DEF Alone
    <3>5. u \notin broken => InStep(u)' /\ AtRest(u)'
      BY <1>1, <1>2, <2>1, <2>3, <3>1, <3>2 DEF Clean, InStep, AtRest
    <3> QED
      BY <1>2, <2>3, <3>2, <3>3, <3>4, <3>5 DEF Clean
  <2> QED
    BY <2>2, <2>3
<1> QED
  BY <1>3, <1>4, <1>5 DEF CleanPart

LEMMA FailureCleans ==
  ASSUME TypeOK, WrittenPart, CleanPart, NEW w \in Workers, JobFails(w)
  PROVE  Grows /\ WrittenPart' /\ CleanPart'
<1>1. /\ Stops(w) /\ job[w].pc \in Completing \cup Proving
      /\ UNCHANGED <<map, commits, log, registry, events, crossed, offchain>>
      /\ broken' = IF job[w].pc \in Completing \ {"map"} THEN broken \cup {job[w].uid} ELSE broken
  BY StopKeeps DEF JobFails
<1>2. job'[w].pc \notin Completing /\ Others(w)
  BY <1>1, IdleFields DEF Stops, Completing
<1>3. CASE job[w].pc \in Proving
  BY <1>1, <1>2, <1>3, AsideKeeps DEF Completing, Proving
<1>4. CASE job[w].pc \in Completing
  <2> PICK u \in Uids : u = job[w].uid
    BY <1>4, JobFields DEF Completing
  <2>1. Only(u) /\ Grows
    BY <1>1 DEF Only, Grows
  <2>2. Written(w)'
    BY <1>2 DEF Written
  <2>3. ASSUME Clean(u), CompletionsOf(u) = {w}, Alone(w) PROVE Clean(u)'
    <3>1. CompletionsOf(u)' = {}
      BY <1>2, <2>3, StaysSolo
    <3>2. Linear(u)' /\ Traced(u)'
      BY <1>1, <2>3 DEF Clean, Linear, Traced
    <3>3. u \notin broken' => InStep(u)' /\ AtRest(u)'
      <4> SUFFICES ASSUME u \notin broken' PROVE InStep(u)' /\ AtRest(u)'
        OBVIOUS
      <4>1. u \notin broken /\ job[w].pc = "map"
        BY <1>1, <1>4
      <4> QED
        BY <1>1, <2>3, <3>1, <4>1 DEF Clean, InStep, AtRest
    <3> QED
      BY <3>1, <3>2, <3>3 DEF Clean
  <2> QED
    BY <1>1, <1>2, <1>4, <2>1, <2>2, <2>3, CompletionKeeps
<1> QED
  BY <1>1, <1>3, <1>4

\* One step of anyone.
LEMMA RecordsKeep ==
  ASSUME TypeOK, WrittenPart, CleanPart, [Next]_vars
  PROVE  Grows /\ WrittenPart' /\ CleanPart'
<1>1. CASE \/ \E d \in Drafts : StartEnrollment(d)
           \/ \E r \in Requests, u \in Uids : CreateChallenge(r, u)
           \/ UNCHANGED vars
  BY <1>1, QuietKeeps DEF StartEnrollment, CreateChallenge, vars, enrollment
<1>2. ASSUME NEW w \in Workers, NEW d \in Drafts, CompleteRead(w, d)
      PROVE  Grows /\ WrittenPart' /\ CleanPart'
  BY <1>2, ReadCleans
<1>3. ASSUME NEW w \in Workers, NEW r \in Requests, NEW f \in Roots, SubmitRead(w, r, f)
      PROVE  Grows /\ WrittenPart' /\ CleanPart'
  <2>1. Others(w) /\ job[w].pc = "idle" /\ job'[w].pc = "identity"
    BY <1>3, SubmitEffect
  <2> QED
    BY <1>3, <2>1, AsideKeeps DEF SubmitRead, enrollment, Completing
<1>4. ASSUME NEW w \in Workers, Submit(w) PROVE Grows /\ WrittenPart' /\ CleanPart'
  <2>1. Others(w) /\ job[w].pc \in Proving /\ job'[w].pc \in Proving \cup {"idle"}
    BY <1>4, IdentityEffect, NullifyEffect, ReceiptEffect, IdleFields
       DEF Submit, Moves, Stops, Proving
  <2>2. UNCHANGED enrollment
    BY <1>4 DEF Submit, SubmitIdentity, Nullify, InsertReceipt
  <2> QED
    BY <2>1, <2>2, AsideKeeps DEF enrollment, Completing, Proving
<1>5. ASSUME NEW w \in Workers, Complete(w) PROVE Grows /\ WrittenPart' /\ CleanPart'
  BY <1>5, MapCleans, CommitCleans, VersionCleans, LogCleans, MinesCleans, FailsCleans,
     SetTxCleans, FinishCleans DEF Complete
<1>6. ASSUME NEW w \in Workers, JobFails(w) PROVE Grows /\ WrittenPart' /\ CleanPart'
  BY <1>6, FailureCleans
<1> QED
  BY <1>1, <1>2, <1>3, <1>4, <1>5, <1>6 DEF Next

\* Finish flags the account; the rows it has written are never taken away.
LEMMA FlaggedKeeps ==
  ASSUME TypeOK, WrittenPart, Flagged, Grows, [Next]_vars PROVE Flagged'
<1>1. CASE enrolled' = enrolled
  BY <1>1 DEF Flagged, Grows
<1>2. ASSUME NEW w \in Workers, Finish(w) PROVE Flagged'
  <2> PICK u \in Uids : u = job[w].uid
    BY <1>2, JobFields DEF Finish
  <2>1. map[u] # None /\ commits[u] # None /\ log[u] # <<>>
    BY <1>2 DEF Finish, WrittenPart, Written, Completing
  <2> QED
    BY <2>1 DEF Grows, Flagged
<1>3. enrolled' = enrolled \/ \E w \in Workers : Finish(w)
  BY DEF Next, Complete, Submit, StartEnrollment, CompleteRead, CompleteMap, CompleteCommit,
     CompleteVersion, CompleteLog, ChainMines, ChainFails, SetChainTx, CreateChallenge,
     SubmitRead, SubmitIdentity, Nullify, InsertReceipt, JobFails, enrollment, vars
<1> QED
  BY <1>1, <1>2, <1>3

-----------------------------------------------------------------------------
(* The properties.                                                          *)

LEMMA InitHolds == Init => IInv
<1> SUFFICES ASSUME Init PROVE IInv
  OBVIOUS
<1>1. TypeOK
  BY InitTypes
<1>2. \A w \in Workers : job[w].pc = "idle" /\ job[w].pc \notin Completing
  BY IdleFields DEF Init, Completing
<1>3. \A w \in Workers : Written(w)
  BY <1>2 DEF Written
<1>4. ASSUME NEW u \in Uids PROVE Clean(u)
  <2>1. CompletionsOf(u) = {}
    BY <1>2 DEF CompletionsOf
  <2>2. map[u] = None /\ log[u] = <<>> /\ DOMAIN log[u] = {} /\ registry[u].version = 0
    BY DEF Init
  <2>3. Linear(u) /\ Traced(u)
    BY <2>2 DEF Linear, Traced
  <2>4. InStep(u) /\ AtRest(u)
    BY <2>1, <2>2 DEF InStep, AtRest
  <2> QED
    BY <2>1, <2>3, <2>4 DEF Clean
<1>5. Flagged
  BY DEF Init, Flagged
<1>6. \A r \in Requests : Receipted(r)
  BY <1>2 DEF Init, Receipted, Receipting, Checked
<1> QED
  BY <1>1, <1>3, <1>4, <1>5, <1>6 DEF IInv

\* What the inductive invariant says.
LEMMA Parts == IInv <=> TypeOK /\ WrittenPart /\ CleanPart /\ Flagged /\ ReceiptPart
BY DEF IInv, WrittenPart, CleanPart, ReceiptPart

LEMMA StepKeeps == IInv /\ [Next]_vars => IInv'
<1> SUFFICES ASSUME IInv, [Next]_vars PROVE IInv'
  OBVIOUS
<1>1. TypeOK /\ WrittenPart /\ CleanPart /\ Flagged /\ ReceiptPart
  BY Parts
<1>2. TypeOK' /\ ReceiptPart'
  BY <1>1, TypeKeeps, ReceiptKeeps
<1>3. Grows /\ WrittenPart' /\ CleanPart'
  BY <1>1, RecordsKeep
<1>4. Flagged'
  BY <1>1, <1>3, FlaggedKeeps
<1> QED
  BY <1>2, <1>3, <1>4 DEF IInv, WrittenPart, CleanPart, ReceiptPart

\* The strengthening below holds in every state of every enrollment and proof.
THEOREM Inductive == Spec => []IInv
BY InitHolds, StepKeeps, PTL DEF Spec

\* Every table, the registry and every handler of completeEnrollment and submitProof
\* (pramaanV2Service.ts) stay of their types: a completion has a face and no proof
\* request, a submission has a proof request.
THEOREM TypeCorrect == Spec => []TypeOK
<1>1. IInv => TypeOK
  BY DEF IInv
<1> QED
  BY <1>1, Inductive, PTL

\* completeEnrollment reads the highest version and inserts the next one in separate
\* statements: while completions of a uid do not overlap, its log counts up from one
\* and each row names the root before it, however many of them fail half way.
THEOREM LogStaysLinear == Spec => []LogIsLinear
<1>1. IInv => LogIsLinear
  BY DEF IInv, Clean, LogIsLinear
<1> QED
  BY <1>1, Inductive, PTL

\* The identity row, the commitment row, the log and the registry contract are written
\* one after the other without a transaction: of a uid at rest whose completions
\* neither overlapped nor broke off they agree, each hash in the log is that of the
\* event that committed its root, and a flagged account has its rows.
THEOREM RecordsStayInAgreement == Spec => []RecordsAgree
<1>1. ASSUME IInv PROVE RecordsAgree
  <2>1. TypeOK
    BY <1>1 DEF IInv
  <2>2. ASSUME NEW u \in Uids \ (crossed \cup broken), CompletionsOf(u) = {}, map[u] # None
        PROVE  /\ log[u] # <<>>
               /\ commits[u] = map[u] /\ Last(log[u]).root = map[u]
               /\ u \notin offchain =>
                    registry[u] = [root |-> map[u], version |-> Last(log[u]).version]
    <3>1. Linear(u) /\ InStep(u) /\ AtRest(u)
      BY <1>1 DEF IInv, Clean
    <3>2. /\ log[u] # <<>> /\ commits[u] = map[u] /\ Last(log[u]).root = map[u]
          /\ u \notin offchain => registry[u].root = map[u]
      BY <2>2, <3>1 DEF AtRest
    <3>3. log[u] \in Seq(Row) /\ Len(log[u]) \in DOMAIN log[u]
      BY <2>1, <3>2 DEF TypeOK
    <3>4. Last(log[u]).version = Len(log[u])
      BY <3>1, <3>3 DEF Linear, Last
    <3>5. u \notin offchain => registry[u].version = Len(log[u])
      BY <2>2, <3>1 DEF InStep
    <3>6. registry[u] \in [root : Roots \cup {None}, version : Nat]
      BY <2>1 DEF TypeOK
    <3> QED
      BY <3>2, <3>4, <3>5, <3>6
  <2>3. \A u \in Uids \ crossed : Traced(u)
    BY <1>1 DEF IInv, Clean
  <2>4. Flagged
    BY <1>1 DEF IInv
  <2> QED
    BY <2>2, <2>3, <2>4 DEF RecordsAgree, Traced, Flagged
<1> QED
  BY <1>1, Inductive, PTL

\* submitProof looks for a nullifier, awaits the verifier and inserts one without asking
\* whether it was there: a request has at most one receipt unless two submissions both
\* passed the look, and one receipted is nullified.
THEOREM RequestsReceiptOnce == Spec => []OneReceiptUnlessRaced
<1>1. IInv => OneReceiptUnlessRaced
  BY DEF IInv, Receipted, OneReceiptUnlessRaced
<1> QED
  BY <1>1, Inductive, PTL

\* A request nullified with no submission of it in flight takes no further one: its
\* receipts stay what they are in every later step.
THEOREM SettledStaysFinal == Spec => SettledRequestIsFinal
<1> DEFINE Final == \A r \in Requests :
                      (r \in nullified /\ \A w \in Workers : job[w].request # r)
                        => /\ receipts'[r] = receipts[r]
                           /\ \A w \in Workers : job'[w].request # r
<1>1. TypeOK /\ [Next]_vars => [Final]_vars
  BY SettledStays
<1> QED
  BY <1>1, TypeCorrect, PTL DEF Spec, SettledRequestIsFinal

=============================================================================
