------------------------------ MODULE Identity -------------------------------
(***************************************************************************)
(* Enrollment and proof of one account's identity in zauth-core (          *)
(* pramaanV2Service, /pramaan/v2/... of routes/pramaan.ts) and the registry  *)
(* contract ZAuthIdentity.                                                  *)
(*                                                                         *)
(* Completing an enrollment is a sequence of statements without a            *)
(* transaction: the identity row and the commitment row are replaced, the    *)
(* next version is read from the log and inserted, the chain is told, the    *)
(* account is flagged and the draft dropped.  A proof is checked against a   *)
(* request row, then against the identity row, then nullified and receipted. *)
(* Statements fail, and other requests run between them.  A draft (5 to 10    *)
(* minutes) or a request (5 minutes) that has expired is refused and leaves   *)
(* no mark, so that expiry only takes behaviours away and is left out.        *)
(***************************************************************************)
EXTENDS Naturals, FiniteSets, Sequences, SequencesExt

CONSTANTS
  Drafts,     \* enrollment drafts, each with a face captured for it; the draft of a
              \* new identity mints its uid
  Requests,   \* proof requests
  Workers,    \* HTTP requests in flight that complete an enrollment or submit a proof
  MaxFaults,  \* bound: failures in one behaviour
  MaxServed,  \* bound: HTTP requests in one behaviour
  None

ASSUME IdentityAssumption ==
  /\ None \notin Drafts \cup Requests
  /\ MaxFaults \in Nat /\ MaxServed \in Nat

VARIABLES
  draft,      \* the uid each draft is for; None before it starts
  gone,       \* drafts completed, hence no longer in the cache
  map,        \* pramaan_identity_map: the root of each uid, or None
  commits,    \* identity_commitments: the same, written next
  born,       \* uids in the order of their created_at
  log,        \* identity_commitment_log: the rows of each uid in order of insertion
  registry,   \* ZAuthIdentity.identities
  events,     \* IdentityCommitted events of the chain
  enrolled,   \* users.enrolled
  request,    \* zk_proof_requests: the uid of each, or None
  nullified,  \* proof_request_nullifiers
  receipts,   \* zk_proof_receipts: how many each request has
  job,        \* what each worker is doing
  faults,     \* failures so far
  served,     \* HTTP requests begun
  crossed,    \* history: uids two completions of which overlapped
  broken,     \* history: uids a completion of which broke off half way
  offchain,   \* history: uids a registration of which came to nothing here
  twice       \* history: requests nullified while another submission had passed the check

enrollment == <<draft, gone, map, commits, born, log, registry, events, enrolled,
                crossed, broken, offchain>>
proving == <<request, nullified, receipts, twice>>
vars == <<enrollment, proving, job, faults, served>>

Uids == Drafts
\* sha256(hash1:hash2:did:uid:circuit), told apart by the face captured.
Roots == Drafts
Row == [version : Nat, root : Roots, prev : Roots \cup {None}, tx : Nat]

Completing == {"map", "commit", "version", "log", "chain", "tx", "finish"}
Proving == {"identity", "nullify", "receipt"}
Job == [pc : {"idle"} \cup Completing \cup Proving,
        uid : Uids \cup {None}, face : Roots \cup {None},
        version : Nat, prev : Roots \cup {None}, tx : Nat, request : Requests \cup {None},
        verified : BOOLEAN]
Idle == [pc |-> "idle", uid |-> None, face |-> None, version |-> 0,
         prev |-> None, tx |-> 0, request |-> None, verified |-> FALSE]

CompletionsOf(u) == {w \in Workers : job[w].pc \in Completing /\ job[w].uid = u}

\* findIdentityForSubject: the row created last.
Current == IF born = <<>> THEN None ELSE Last(born)

\* A submission that has found its request open and has not nullified it yet.
Checked(w, r) == job[w].pc \in {"identity", "nullify"} /\ job[w].request = r

\* Submissions race for a request when it is nullified while another is Checked.
Races(w, r) == \E v \in Workers \ {w} : Checked(v, r)

Goto(w, pc) == job' = [job EXCEPT ![w].pc = pc]

-----------------------------------------------------------------------------
Init ==
  /\ draft = [d \in Drafts |-> None] /\ gone = {}
  /\ map = [u \in Uids |-> None] /\ commits = map /\ born = <<>>
  /\ log = [u \in Uids |-> <<>>] /\ events = <<>>
  /\ registry = [u \in Uids |-> [root |-> None, version |-> 0]]
  /\ enrolled = FALSE
  /\ request = [r \in Requests |-> None] /\ nullified = {}
  /\ receipts = [r \in Requests |-> 0]
  /\ job = [w \in Workers |-> Idle] /\ faults = 0 /\ served = 0
  /\ crossed = {} /\ broken = {} /\ offchain = {} /\ twice = {}

\* startEnrollment: an account that has an identity keeps its uid, another gets
\* a new one.  The draft's id is random, so nobody waits for its saving.
StartEnrollment(d) ==
  /\ draft[d] = None
  /\ draft' = [draft EXCEPT ![d] = IF Current = None THEN d ELSE Current]
  /\ UNCHANGED <<gone, map, commits, born, log, registry, events, enrolled, crossed,
                 broken, offchain, proving, job, faults, served>>

\* A mistake to be found: the draft is taken for what the client sent.
CompleteReadAny(w, d) ==
  /\ job[w].pc = "idle" /\ served < MaxServed
  /\ job' = [job EXCEPT ![w] = [Idle EXCEPT !.pc = "map", !.uid = draft[d], !.face = d]]
  /\ crossed' = IF CompletionsOf(draft[d]) = {} THEN crossed ELSE crossed \cup {draft[d]}
  /\ served' = served + 1
  /\ UNCHANGED <<draft, gone, map, commits, born, log, registry, events, enrolled,
                 broken, offchain, proving, faults>>

\* completeEnrollment up to its first INSERT: the draft is in the cache and its
\* own, the hashes and the proof fit it.  Others get an error and leave no mark.
CompleteRead(w, d) ==
  /\ job[w].pc = "idle" /\ served < MaxServed
  /\ draft[d] # None /\ d \notin gone
  /\ job' = [job EXCEPT ![w] = [Idle EXCEPT !.pc = "map", !.uid = draft[d], !.face = d]]
  /\ crossed' = IF CompletionsOf(draft[d]) = {} THEN crossed ELSE crossed \cup {draft[d]}
  /\ served' = served + 1
  /\ UNCHANGED <<draft, gone, map, commits, born, log, registry, events, enrolled,
                 broken, offchain, proving, faults>>

\* INSERT ... ON CONFLICT (uid) DO UPDATE, which leaves created_at alone.
CompleteMap(w) ==
  LET u == job[w].uid IN
  /\ job[w].pc = "map"
  /\ map' = [map EXCEPT ![u] = job[w].face]
  /\ born' = IF map[u] = None THEN Append(born, u) ELSE born
  /\ Goto(w, "commit")
  /\ UNCHANGED <<draft, gone, commits, log, registry, events, enrolled, crossed, broken,
                 offchain, proving, faults, served>>

\* A mistake to be found: an existing row is left alone (DO NOTHING).
CompleteCommitOnce(w) ==
  /\ job[w].pc = "commit"
  /\ commits' = [commits EXCEPT ![job[w].uid] = IF @ = None THEN job[w].face ELSE @]
  /\ Goto(w, "version")
  /\ UNCHANGED <<draft, gone, map, born, log, registry, events, enrolled, crossed, broken,
                 offchain, proving, faults, served>>

CompleteCommit(w) ==
  /\ job[w].pc = "commit"
  /\ commits' = [commits EXCEPT ![job[w].uid] = job[w].face]
  /\ Goto(w, "version")
  /\ UNCHANGED <<draft, gone, map, born, log, registry, events, enrolled, crossed, broken,
                 offchain, proving, faults, served>>

\* A mistake to be found: the root before is the first one's, not the last's.
NextVersionFirst(u, n, prev) ==
  /\ n = Len(log[u]) + 1
  /\ prev = IF log[u] = <<>> THEN None ELSE Head(log[u]).root

\* COALESCE(MAX(version), 0) + 1, and the root of a row ORDER BY version DESC
\* LIMIT 1: of several with the same version, any.
NextVersion(u, n, prev) ==
  LET rows == ToSet(log[u])
      top  == {row \in rows : \A other \in rows : other.version <= row.version}
  IN  \/ top = {} /\ n = 1 /\ prev = None
      \/ \E row \in top : n = row.version + 1 /\ prev = row.root

CompleteVersion(w) ==
  /\ job[w].pc = "version"
  /\ \E n \in 1..(Len(log[job[w].uid]) + 1), prev \in Roots \cup {None} :
       /\ NextVersion(job[w].uid, n, prev)
       /\ job' = [job EXCEPT ![w].pc = "log", ![w].version = n, ![w].prev = prev]
  /\ UNCHANGED <<enrollment, proving, faults, served>>

\* The log has no constraint on (uid, version).
CompleteLog(w) ==
  LET j == job[w] IN
  /\ j.pc = "log"
  /\ log' = [log EXCEPT ![j.uid] = Append(@, [version |-> j.version, root |-> j.face,
                                              prev |-> j.prev, tx |-> 0])]
  /\ Goto(w, "chain")
  /\ UNCHANGED <<draft, gone, map, commits, born, registry, events, enrolled, crossed,
                 broken, offchain, proving, faults, served>>

\* ZAuthIdentity.enrollIdentity: the contract counts versions by itself.
EnrollIdentity(u, root) ==
  LET n == registry[u].version + 1 IN
  /\ registry' = [registry EXCEPT ![u] = [root |-> root, version |-> n]]
  /\ events' = Append(events, [uid |-> u, root |-> root, version |-> n])

\* enrollOnChain: the transaction is mined and its receipt arrives.
ChainMines(w) ==
  /\ job[w].pc = "chain"
  /\ EnrollIdentity(job[w].uid, job[w].face)
  /\ job' = [job EXCEPT ![w].pc = "tx", ![w].tx = Len(events')]
  /\ UNCHANGED <<draft, gone, map, commits, born, log, enrolled, crossed, broken,
                 offchain, proving, faults, served>>

\* It is refused, or mined while the receipt is lost: the error is logged and
\* the enrollment goes on without a hash.
ChainFails(w) ==
  LET u == job[w].uid IN
  /\ job[w].pc = "chain" /\ faults < MaxFaults
  /\ faults' = faults + 1
  /\ \/ EnrollIdentity(u, job[w].face)
     \/ UNCHANGED <<registry, events>>
  /\ offchain' = offchain \cup {u}
  /\ Goto(w, "finish")
  /\ UNCHANGED <<draft, gone, map, commits, born, log, enrolled, crossed, broken, proving, served>>

\* UPDATE identity_commitment_log SET chain_tx_hash WHERE uid AND version.
SetChainTx(w) ==
  /\ job[w].pc = "tx"
  /\ log' = [log EXCEPT ![job[w].uid] =
               [i \in DOMAIN @ |-> IF @[i].version = job[w].version
                                   THEN [@[i] EXCEPT !.tx = job[w].tx] ELSE @[i]]]
  /\ Goto(w, "finish")
  /\ UNCHANGED <<draft, gone, map, commits, born, registry, events, enrolled, crossed,
                 broken, offchain, proving, faults, served>>

\* The recovery codes are inserted (module Recovery), the account is flagged, the
\* draft dropped and the client answered.
Finish(w) ==
  /\ job[w].pc = "finish"
  /\ enrolled' = TRUE /\ gone' = gone \cup {job[w].face}
  /\ job' = [job EXCEPT ![w] = Idle]
  /\ UNCHANGED <<draft, map, commits, born, log, registry, events, crossed, broken,
                 offchain, proving, faults, served>>

-----------------------------------------------------------------------------
\* createProofChallenge: the uid has an identity row.
CreateChallenge(r, u) ==
  /\ request[r] = None /\ map[u] # None
  /\ request' = [request EXCEPT ![r] = u]
  /\ UNCHANGED <<enrollment, nullified, receipts, twice, job, faults, served>>

\* A mistake to be found: nobody looks for a nullifier.
SubmitReadAgain(w, r, f) ==
  /\ job[w].pc = "idle" /\ served < MaxServed
  /\ request[r] # None
  /\ job' = [job EXCEPT ![w] = [Idle EXCEPT !.pc = "identity", !.request = r,
                                            !.uid = request[r], !.face = f]]
  /\ served' = served + 1
  /\ UNCHANGED <<enrollment, proving, faults>>

\* submitProof, the request: it exists and has no nullifier.
SubmitRead(w, r, f) ==
  /\ job[w].pc = "idle" /\ served < MaxServed
  /\ request[r] # None /\ r \notin nullified
  /\ job' = [job EXCEPT ![w] = [Idle EXCEPT !.pc = "identity", !.request = r,
                                            !.uid = request[r], !.face = f]]
  /\ served' = served + 1
  /\ UNCHANGED <<enrollment, proving, faults>>

\* submitProof, the identity: a hash that is not the one enrolled is refused and
\* leaves the request open; a proof of the one enrolled is verified, unless the
\* verifier breaks down.
SubmitIdentity(w) ==
  LET j == job[w] IN
  /\ j.pc = "identity"
  /\ IF map[j.uid] = j.face
     THEN \E verified \in BOOLEAN :
            job' = [job EXCEPT ![w].pc = "nullify", ![w].verified = verified]
     ELSE job' = [job EXCEPT ![w] = Idle]
  /\ UNCHANGED <<enrollment, proving, faults, served>>

\* INSERT ... ON CONFLICT DO NOTHING, and nobody asks whether it inserted.
Nullify(w) ==
  LET r == job[w].request IN
  /\ job[w].pc = "nullify"
  /\ nullified' = nullified \cup {r}
  /\ twice' = IF Races(w, r) THEN twice \cup {r} ELSE twice
  /\ Goto(w, "receipt")
  /\ UNCHANGED <<enrollment, request, receipts, faults, served>>

\* The receipt, and the proof sent to the chain, which changes nothing here.
InsertReceipt(w) ==
  /\ job[w].pc = "receipt"
  /\ receipts' = [receipts EXCEPT ![job[w].request] = @ + 1]
  /\ job' = [job EXCEPT ![w] = Idle]
  /\ UNCHANGED <<enrollment, request, nullified, twice, faults, served>>

\* A statement fails or the process stops.  What was written stays.
JobFails(w) ==
  /\ job[w].pc \in Completing \cup Proving /\ faults < MaxFaults
  /\ faults' = faults + 1
  /\ broken' = IF job[w].pc \in Completing \ {"map"} THEN broken \cup {job[w].uid} ELSE broken
  /\ job' = [job EXCEPT ![w] = Idle]
  /\ UNCHANGED <<draft, gone, map, commits, born, log, registry, events, enrolled, crossed,
                 offchain, proving, served>>

Complete(w) ==
  \/ CompleteMap(w) \/ CompleteCommit(w) \/ CompleteVersion(w) \/ CompleteLog(w)
  \/ ChainMines(w) \/ ChainFails(w) \/ SetChainTx(w) \/ Finish(w)

Submit(w) == SubmitIdentity(w) \/ Nullify(w) \/ InsertReceipt(w)

Next ==
  \/ \E d \in Drafts : StartEnrollment(d)
  \/ \E w \in Workers, d \in Drafts : CompleteRead(w, d)
  \/ \E r \in Requests, u \in Uids : CreateChallenge(r, u)
  \/ \E w \in Workers, r \in Requests, f \in Roots : SubmitRead(w, r, f)
  \/ \E w \in Workers : Complete(w) \/ Submit(w) \/ JobFails(w)

Spec == Init /\ [][Next]_vars

-----------------------------------------------------------------------------
TypeOK ==
  /\ draft \in [Drafts -> Uids \cup {None}] /\ gone \subseteq Drafts
  /\ map \in [Uids -> Roots \cup {None}] /\ commits \in [Uids -> Roots \cup {None}]
  /\ born \in Seq(Uids) /\ log \in [Uids -> Seq(Row)]
  /\ registry \in [Uids -> [root : Roots \cup {None}, version : Nat]]
  /\ events \in Seq([uid : Uids, root : Roots, version : Nat])
  /\ enrolled \in BOOLEAN
  /\ request \in [Requests -> Uids \cup {None}]
  /\ nullified \subseteq Requests /\ twice \subseteq Requests
  /\ receipts \in [Requests -> Nat]
  /\ job \in [Workers -> Job] /\ faults \in 0..MaxFaults /\ served \in 0..MaxServed
  /\ \A w \in Workers :
       /\ job[w].pc # "idle" => job[w].uid \in Uids
       /\ job[w].pc \in Completing => job[w].face \in Roots /\ job[w].request = None
       /\ job[w].pc \in Proving => job[w].request \in Requests
       /\ job[w].pc = "idle" => job[w].request = None
  /\ crossed \subseteq Uids /\ broken \subseteq Uids /\ offchain \subseteq Uids

Linear(u) ==
  \A i \in DOMAIN log[u] :
    /\ log[u][i].version = i
    /\ log[u][i].prev = IF i = 1 THEN None ELSE log[u][i - 1].root

\* db/init.ts: the log is append-only, one versioned entry per enrollment.  Of a
\* uid whose completions did not overlap the versions count up from one and each
\* entry names the root before it, however many of them broke off.
LogIsLinear == \A u \in Uids \ crossed : Linear(u)

\* The four records of a commitment, three tables and the registry, tell the same
\* of a uid at rest, if its completions neither overlapped nor broke off and the
\* chain took each.  The hash an entry of the log carries is that of the event which
\* committed its root, and an account flagged as enrolled has all the rows.
RecordsAgree ==
  /\ \A u \in Uids \ (crossed \cup broken) :
       CompletionsOf(u) = {} /\ map[u] # None =>
         /\ log[u] # <<>>
         /\ commits[u] = map[u] /\ Last(log[u]).root = map[u]
         /\ u \notin offchain =>
              registry[u] = [root |-> map[u], version |-> Last(log[u]).version]
  /\ \A u \in Uids \ crossed :
       \A i \in DOMAIN log[u] : log[u][i].tx # 0 =>
         /\ events[log[u][i].tx].uid = u
         /\ events[log[u][i].tx].root = log[u][i].root
  /\ enrolled => \E u \in Uids : map[u] # None /\ commits[u] # None /\ log[u] # <<>>

\* A request answers for one proof, however often it is submitted and wherever a
\* submission breaks off, unless two submissions had both found it open before either
\* nullified it; what was receipted is nullified.
OneReceiptUnlessRaced ==
  \A r \in Requests :
    /\ r \notin twice => receipts[r] <= 1
    /\ receipts[r] > 0 => r \in nullified

\* A request nullified and at rest is finished: no retry and no late submission
\* adds a receipt to it.
SettledRequestIsFinal ==
  [][\A r \in Requests :
       (r \in nullified /\ \A w \in Workers : job[w].request # r)
         => /\ receipts'[r] = receipts[r]
            /\ \A w \in Workers : job'[w].request # r]_vars

-----------------------------------------------------------------------------
(* What each step preserves; with it the properties above hold for any      *)
(* number of drafts, requests, handlers in flight and failures.             *)

\* What a completion has written, whoever else writes the same uid.
Written(w) ==
  LET u == job[w].uid IN
  job[w].pc \in Completing =>
    /\ job[w].pc # "map" => map[u] # None
    /\ job[w].pc \notin {"map", "commit"} => commits[u] # None
    /\ job[w].pc \in {"chain", "tx", "finish"} => log[u] # <<>>
    /\ job[w].pc = "tx" => job[w].tx \in DOMAIN events /\ events[job[w].tx].uid = u
                           /\ events[job[w].tx].root = job[w].face

\* What it has written and read, where it is the only one of its uid.
Alone(w) ==
  LET u == job[w].uid
      n == Len(log[u])
  IN
    /\ \A v \in CompletionsOf(u) : v = w
    /\ job[w].pc # "map" => map[u] = job[w].face
    /\ job[w].pc \notin {"map", "commit"} => commits[u] = job[w].face
    /\ job[w].pc = "log" => /\ job[w].version = n + 1
                            /\ job[w].prev = IF n = 0 THEN None ELSE Last(log[u]).root
    /\ job[w].pc \in {"chain", "tx", "finish"} =>
         job[w].version = n /\ Last(log[u]).root = job[w].face

\* The contract counts along with the log, one behind while it is being told.
InStep(u) ==
  u \notin offchain =>
    /\ registry[u].version = IF \E w \in CompletionsOf(u) : job[w].pc = "chain"
                             THEN Len(log[u]) - 1 ELSE Len(log[u])
    /\ \A w \in CompletionsOf(u) : job[w].pc \in {"tx", "finish"} =>
         registry[u].root = job[w].face

\* Before a completion writes, the records agree.
AtRest(u) ==
  (\A w \in CompletionsOf(u) : job[w].pc = "map") /\ map[u] # None =>
    /\ log[u] # <<>>
    /\ commits[u] = map[u] /\ Last(log[u]).root = map[u]
    /\ u \notin offchain => registry[u].root = map[u]

\* The hash of a row is that of the event which committed its root.
Traced(u) ==
  \A i \in DOMAIN log[u] : log[u][i].tx # 0 =>
    /\ log[u][i].tx \in DOMAIN events
    /\ events[log[u][i].tx].uid = u
    /\ events[log[u][i].tx].root = log[u][i].root

Clean(u) ==
  /\ Linear(u) /\ Traced(u)
  /\ \A w \in CompletionsOf(u) : Alone(w)
  /\ u \notin broken => InStep(u) /\ AtRest(u)

\* An account is flagged after its rows are written.
Flagged == enrolled => \E u \in Uids : map[u] # None /\ commits[u] # None /\ log[u] # <<>>

\* A receipt is on its way.
Receipting(w, r) == job[w].pc = "receipt" /\ job[w].request = r

Receipted(r) ==
  /\ receipts[r] > 0 => r \in nullified
  /\ \A w \in Workers : Receipting(w, r) => r \in nullified
  /\ r \notin twice =>
       /\ \A w \in Workers : Checked(w, r) => r \notin nullified
       /\ receipts[r] <= 1
       /\ \A w \in Workers : Receipting(w, r) => receipts[r] = 0
       /\ \A v, w \in Workers : Receipting(v, r) /\ Receipting(w, r) => v = w

IInv ==
  /\ TypeOK
  /\ \A w \in Workers : Written(w)
  /\ \A u \in Uids \ crossed : Clean(u)
  /\ Flagged
  /\ \A r \in Requests : Receipted(r)
=============================================================================
