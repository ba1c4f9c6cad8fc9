----------------------------- MODULE AuditChain ------------------------------
(***************************************************************************)
(* The hash-chained audit log.  About thirty handlers of zauth-core call     *)
(* writeAuditEvent, which reads the newest row's hash, computes its own and  *)
(* inserts a row, in two statements outside any transaction.  Events of      *)
(* concurrent requests therefore interleave between SELECT and INSERT.       *)
(* The table's id is a BIGSERIAL: an INSERT draws it when it executes and    *)
(* the row becomes visible when it commits, so ids may appear out of order.  *)
(***************************************************************************)
EXTENDS Naturals, Sequences, FiniteSets

CONSTANTS
  Writers,    \* requests that can be writing an event at the same time
  Payloads,   \* JSON texts of events
  Jsonb,      \* what the jsonb column gives back for a text
  NoPayload,  \* what a writer that is not writing holds
  MaxEvents   \* bound: ids drawn in one behaviour

ASSUME ChainAssumption ==
  /\ MaxEvents \in Nat
  /\ Jsonb \in [Payloads -> Payloads]
  /\ NoPayload \notin Payloads

VARIABLES
  log,      \* the rows of audit_events that are visible
  nextId,   \* the next value of the id sequence
  job       \* what each writer is doing

chainVars == <<log, nextId, job>>

\* SHA-256 without collisions: a hash stands for the chain of payloads it was
\* computed over.  A null prev_hash hashes as "GENESIS".
Genesis == <<>>
Hash(prev, payload) == Append(prev, payload)
Hashes == Seq(Payloads)

\* alone is a history field: no other event was being written meanwhile.
Row == [id : Nat, payload : Payloads, prev : Hashes, hash : Hashes, alone : BOOLEAN]

Job == [pc : {"idle", "insert", "commit"}, id : Nat,
        text : Payloads \cup {NoPayload}, prev : Hashes, alone : BOOLEAN]
NoEvent == [pc |-> "idle", id |-> 0, text |-> NoPayload, prev |-> Genesis,
            alone |-> FALSE]

Writing(w) == job[w].pc # "idle"

-----------------------------------------------------------------------------
ChainInit ==
  /\ log = {}
  /\ nextId = 1
  /\ job = [w \in Writers |-> NoEvent]

\* A mistake to be found: the order is ascending.
Oldest(rows) == {e \in rows : \A d \in rows : e.id <= d.id}

\* The row ORDER BY id DESC LIMIT 1 finds: the one no visible row is newer than.
Newest(rows) == {e \in rows : \A d \in rows : d.id <= e.id}

\* A mistake to be found: the last hash is kept in memory and not read from
\* the table, so it counts before its row is committed.
LastHashInMemory ==
  LET drawn == {v \in Writers : job[v].pc = "commit"} IN
  IF drawn # {} THEN {Hash(job[v].prev, job[v].text) : v \in drawn}
  ELSE IF log = {} THEN {Genesis} ELSE {e.hash : e \in Newest(log)}

\* What the SELECT answers: the newest row's hash, or null for an empty table.
LastHash == IF log = {} THEN {Genesis} ELSE {e.hash : e \in Newest(log)}

\* writeAuditEvent: SELECT the newest hash.  An event already in progress is
\* from now on not alone.
SelectPrevious(w, p) ==
  /\ ~Writing(w)
  /\ \E prev \in LastHash :
       job' = [v \in Writers |->
                 IF v = w THEN [pc |-> "insert", id |-> 0, text |-> p, prev |-> prev,
                                alone |-> \A x \in Writers \ {w} : ~Writing(x)]
                 ELSE IF Writing(v) THEN [job[v] EXCEPT !.alone = FALSE]
                 ELSE job[v]]
  /\ UNCHANGED <<log, nextId>>

\* A mistake to be found: ids are counted, not drawn from a sequence.
CountId(w) ==
  /\ job[w].pc = "insert"
  /\ nextId <= MaxEvents
  /\ nextId' = nextId + 1
  /\ job' = [job EXCEPT ![w].pc = "commit", ![w].id = Cardinality(log) + 1]
  /\ UNCHANGED log

\* The INSERT executes and draws its id.
DrawId(w) ==
  /\ job[w].pc = "insert"
  /\ nextId <= MaxEvents
  /\ nextId' = nextId + 1
  /\ job' = [job EXCEPT ![w].pc = "commit", ![w].id = nextId]
  /\ UNCHANGED log

\* The INSERT commits.  The hash was computed over the JSON text, the column
\* keeps what jsonb makes of it.
CommitRow(w) ==
  LET j == job[w] IN
  /\ j.pc = "commit"
  /\ log' = log \cup {[id |-> j.id, payload |-> Jsonb[j.text], prev |-> j.prev,
                       hash |-> Hash(j.prev, j.text), alone |-> j.alone]}
  /\ job' = [job EXCEPT ![w] = NoEvent]
  /\ UNCHANGED nextId

\* The connection or the process is lost: the event is never written, an id
\* already drawn is never used.
FailWrite(w) ==
  /\ Writing(w)
  /\ job' = [job EXCEPT ![w] = NoEvent]
  /\ UNCHANGED <<log, nextId>>

ChainNext ==
  \E w \in Writers :
    \/ \E p \in Payloads : SelectPrevious(w, p)
    \/ DrawId(w) \/ CommitRow(w) \/ FailWrite(w)

ChainSpec == ChainInit /\ [][ChainNext]_chainVars

-----------------------------------------------------------------------------
ChainTypeOK ==
  /\ log \subseteq Row
  /\ nextId \in Nat \ {0}
  /\ job \in [Writers -> Job]
  /\ \A w \in Writers : Writing(w) => job[w].text \in Payloads

\* e directly follows d in the order of ids.
Follows(e, d) ==
  /\ d.id < e.id
  /\ \A c \in log : c.id < e.id => c.id <= d.id

LinkedTo(e, d) == e.prev = d.hash

\* Whatever writers overlap, fail or commit out of order, one can walk from
\* every visible event back to GENESIS: the hash it was chained to belongs to
\* a visible event with a smaller id, never to one that was lost.
WalksBack ==
  \A e \in log : e.prev = Genesis \/ \E d \in log : d.id < e.id /\ LinkedTo(e, d)

\* An event no other write overlapped is chained to the event right before
\* it, whatever forks the log already has, and stays so.
AloneMeansLinked ==
  \A e \in log : e.alone =>
    \/ \E d \in log : Follows(e, d) /\ LinkedTo(e, d)
    \/ e.prev = Genesis /\ \A d \in log : e.id <= d.id

\* Ids name rows, and the rows' order is the order the ids were drawn in.
IdsUnique == \A e, d \in log : e.id = d.id => e = d

\* docs/THREAT_MODEL.md: "Each audit event includes the SHA-256 hash of the
\* previous event, forming a linked list."
LinearChain ==
  \A e, d \in log : Follows(e, d) => LinkedTo(e, d)

-----------------------------------------------------------------------------
(* The inductive invariant.                                                 *)

\* Ids in the table and in flight were drawn, each once.
IdsDrawn ==
  /\ \A e \in log : 0 < e.id /\ e.id < nextId
  /\ \A w \in Writers : job[w].pc = "commit" =>
       /\ 0 < job[w].id /\ job[w].id < nextId
       /\ \A e \in log : e.id # job[w].id
       /\ \A v \in Writers : job[v].pc = "commit" /\ job[v].id = job[w].id => v = w

\* The hash a writer holds was taken from the table, and so from a row whose
\* id had been drawn before the writer draws its own.
HoldsVisible(w) ==
  \/ job[w].prev = Genesis
  \/ \E d \in log : d.hash = job[w].prev /\ (job[w].pc = "commit" => d.id < job[w].id)

HashesHeld == \A w \in Writers : Writing(w) => HoldsVisible(w)

\* A writer that is alone still holds the newest row's hash.
AloneHoldsNewest(w) ==
  /\ \A x \in Writers \ {w} : ~Writing(x)
  /\ \/ log = {} /\ job[w].prev = Genesis
     \/ \E d \in Newest(log) : d.hash = job[w].prev
  /\ job[w].pc = "commit" => \A e \in log : e.id < job[w].id

AloneHeld == \A w \in Writers : Writing(w) /\ job[w].alone => AloneHoldsNewest(w)

\* Every id in flight is larger than that of a row written alone.
AloneIsSettled ==
  \A e \in log : e.alone =>
    \A w \in Writers : job[w].pc = "commit" => e.id < job[w].id

ChainInv ==
  /\ ChainTypeOK
  /\ IdsUnique
  /\ IdsDrawn
  /\ HashesHeld
  /\ AloneHeld
  /\ AloneIsSettled
  /\ WalksBack
  /\ AloneMeansLinked
=============================================================================
