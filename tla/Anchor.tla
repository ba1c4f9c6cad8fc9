------------------------------- MODULE Anchor --------------------------------
(***************************************************************************)
(* Anchoring of the identity commitments (anchorService of zauth-core, the  *)
(* contract ZAuthAnchor).  Every interval runAnchorBatch reads the time of   *)
(* the last batch, selects the commitments created since, sends their Merkle *)
(* root to the chain and stores the batch, whose time is that of its storing *)
(* and not of its selection.                                                *)
(*                                                                         *)
(* Times are only compared with the time of the last batch, so the table     *)
(* anchor_batches is kept as the set of rows created before it.  Leaves are  *)
(* commitments; a root stands for the leaves under it.                       *)
(***************************************************************************)
EXTENDS Naturals, FiniteSets

CONSTANTS
  Uids,       \* identities, each with one row in identity_commitments
  Versions,   \* commitment roots an identity has in turn
  Runs,       \* calls of runAnchorBatch that may be in progress together
  MaxFaults   \* bound: failures in one behaviour

ASSUME AnchorAssumption == MaxFaults \in Nat /\ Versions \in Nat \ {0}

VARIABLES
  root,       \* the version of each uid's commitment_root; 0 before it exists
  row,        \* its row: absent, stamped (created_at taken, not committed) or there
  old,        \* rows created_at <= MAX(anchored_at) of anchor_batches
  audit,      \* audit_events has a row
  run,        \* what each run is doing
  times,      \* in how many batches of the table each uid is
  vouched,    \* commitments in a batch whose chain_tx_hash is a real one
  chain,      \* commitments under the roots of ZAuthAnchor.anchors
  faults,     \* failures so far
  crossed,    \* history: uids whose insertion overlapped a run
  overlapped  \* history: two runs were in progress together

env == <<root, row, audit, crossed>>
books == <<old, times, vouched>>
vars == <<env, books, run, chain, faults, overlapped>>

Leaves == Uids \X (1..Versions)
Idle == [pc |-> "idle", before |-> {}, leaves |-> {}, real |-> FALSE]
Run == [pc : {"idle", "select", "submit", "store"}, before : SUBSET Uids,
        leaves : SUBSET Leaves, real : BOOLEAN]

Busy == {r \in Runs : run[r].pc # "idle"}
Created == {u \in Uids : row[u] # "absent"}
Committed == {u \in Uids : row[u] = "there"}
Uid(leaves) == {leaf[1] : leaf \in leaves}

-----------------------------------------------------------------------------
Init ==
  /\ root = [u \in Uids |-> 0] /\ row = [u \in Uids |-> "absent"]
  /\ old = {} /\ audit = FALSE
  /\ run = [r \in Runs |-> Idle]
  /\ times = [u \in Uids |-> 0] /\ vouched = {} /\ chain = {}
  /\ faults = 0 /\ crossed = {} /\ overlapped = FALSE

\* completeEnrollment's INSERT: created_at is the time the statement begins, and
\* others see the row when it ends.
InsertBegins(u) ==
  /\ row[u] = "absent"
  /\ row' = [row EXCEPT ![u] = "stamped"]
  /\ root' = [root EXCEPT ![u] = 1]
  /\ crossed' = IF Busy = {} THEN crossed ELSE crossed \cup {u}
  /\ UNCHANGED <<audit, books, run, chain, faults, overlapped>>

InsertEnds(u) ==
  /\ row[u] = "stamped"
  /\ row' = [row EXCEPT ![u] = "there"]
  /\ UNCHANGED <<root, audit, crossed, books, run, chain, faults, overlapped>>

\* ON CONFLICT DO UPDATE: a new root under the old created_at.
Reenroll(u) ==
  /\ row[u] = "there" /\ root[u] < Versions
  /\ root' = [root EXCEPT ![u] = @ + 1]
  /\ UNCHANGED <<row, audit, crossed, books, run, chain, faults, overlapped>>

AuditEvent ==
  /\ ~audit /\ audit' = TRUE
  /\ UNCHANGED <<root, row, crossed, books, run, chain, faults, overlapped>>

-----------------------------------------------------------------------------
\* A mistake to be found: the time is noted when a run starts.
StartMarks(r) ==
  /\ run[r].pc = "idle"
  /\ run' = [run EXCEPT ![r] = [Idle EXCEPT !.pc = "select", !.before = old]]
  /\ old' = Created
  /\ crossed' = crossed \cup (Created \ Committed)
  /\ overlapped' = (overlapped \/ Busy # {})
  /\ UNCHANGED <<root, row, audit, times, vouched, chain, faults>>

\* setInterval fires whether or not the run before has ended; the run reads the
\* time of the last batch.
Start(r) ==
  /\ run[r].pc = "idle"
  /\ run' = [run EXCEPT ![r] = [Idle EXCEPT !.pc = "select", !.before = old]]
  /\ crossed' = crossed \cup (Created \ Committed)
  /\ overlapped' = (overlapped \/ Busy # {})
  /\ UNCHANGED <<root, row, audit, books, chain, faults>>

\* SELECT commitment_root ... WHERE created_at > anchored_at; the newest audit hash
\* is one more leaf, and without any leaf there is no batch.
SelectLeaves(r) ==
  LET leaves == {<<u, root[u]>> : u \in Committed \ run[r].before} IN
  /\ run[r].pc = "select"
  /\ run' = [run EXCEPT ![r] = IF leaves = {} /\ ~audit THEN Idle
                               ELSE [@ EXCEPT !.pc = "submit", !.leaves = leaves]]
  /\ UNCHANGED <<env, books, chain, faults, overlapped>>

\* ZAuthAnchor.anchor under a fresh batch id, and its receipt.
ChainAnchors(r) ==
  /\ run[r].pc = "submit"
  /\ chain' = chain \cup run[r].leaves
  /\ run' = [run EXCEPT ![r].pc = "store", ![r].real = TRUE]
  /\ UNCHANGED <<env, books, faults, overlapped>>

\* A mistake to be found: the hash of a transaction is taken for its receipt.
ChainFailsUnseen(r) ==
  /\ run[r].pc = "submit" /\ faults < MaxFaults
  /\ faults' = faults + 1
  /\ chain' \in {chain, chain \cup run[r].leaves}
  /\ run' = [run EXCEPT ![r].pc = "store", ![r].real = TRUE]
  /\ UNCHANGED <<env, books, overlapped>>

\* The chain refuses, or mines while the receipt is lost: the batch is stored with
\* a hash made up from its root.  Nothing is sent again later.
ChainFails(r) ==
  /\ run[r].pc = "submit" /\ faults < MaxFaults
  /\ faults' = faults + 1
  /\ chain' \in {chain, chain \cup run[r].leaves}
  /\ run' = [run EXCEPT ![r].pc = "store"]
  /\ UNCHANGED <<env, books, overlapped>>

\* A mistake to be found: the batch is given the time its run started at.
StoreAtStart(r) ==
  /\ run[r].pc = "store"
  /\ old' = old \cup run[r].before
  /\ times' = [u \in Uids |-> IF u \in Uid(run[r].leaves) /\ times[u] < 2
                              THEN times[u] + 1 ELSE times[u]]
  /\ vouched' = IF run[r].real THEN vouched \cup run[r].leaves ELSE vouched
  /\ run' = [run EXCEPT ![r] = Idle]
  /\ UNCHANGED <<env, chain, faults, overlapped>>

\* The pin on IPFS, which changes nothing here, and INSERT INTO anchor_batches with
\* anchored_at DEFAULT NOW().
Store(r) ==
  /\ run[r].pc = "store"
  /\ old' = Created
  /\ times' = [u \in Uids |-> IF u \in Uid(run[r].leaves) /\ times[u] < 2
                              THEN times[u] + 1 ELSE times[u]]
  /\ vouched' = IF run[r].real THEN vouched \cup run[r].leaves ELSE vouched
  /\ run' = [run EXCEPT ![r] = Idle]
  /\ UNCHANGED <<env, chain, faults, overlapped>>

\* A query fails, or the process stops and is started again.
RunFails ==
  /\ Busy # {} /\ faults < MaxFaults
  /\ faults' = faults + 1
  /\ \E lost \in {Busy} \cup {{r} : r \in Busy} :
       run' = [r \in Runs |-> IF r \in lost THEN Idle ELSE run[r]]
  /\ UNCHANGED <<env, books, chain, overlapped>>

RunBatch(r) ==
  Start(r) \/ SelectLeaves(r) \/ ChainAnchors(r) \/ Store(r)

Next ==
  \/ \E u \in Uids : InsertBegins(u) \/ InsertEnds(u) \/ Reenroll(u)
  \/ AuditEvent
  \/ \E r \in Runs : RunBatch(r) \/ ChainFails(r)
  \/ RunFails

\* The interval fires again and again and some run gets on; one that waits for the
\* chain for ever is not excluded, as tx.wait() has no time limit.  Nobody has to
\* enroll, and no statement of an enrollment has to end.
Fairness == WF_vars(\E r \in Runs : RunBatch(r) \/ ChainFails(r))

Spec == Init /\ [][Next]_vars /\ Fairness

-----------------------------------------------------------------------------
TypeOK ==
  /\ root \in [Uids -> 0..Versions] /\ row \in [Uids -> {"absent", "stamped", "there"}]
  /\ old \subseteq Uids /\ audit \in BOOLEAN
  /\ run \in [Runs -> Run]
  /\ times \in [Uids -> 0..2] /\ vouched \subseteq Leaves /\ chain \subseteq Leaves
  /\ faults \in 0..MaxFaults /\ crossed \subseteq Uids /\ overlapped \in BOOLEAN

\* While runs do not overlap no commitment is in two batches, and a run about to
\* store has none that an earlier batch has, although a row's created_at is never
\* compared with the time its batch selected at.
OncePerIdentity ==
  ~overlapped =>
    \A u \in Uids :
      /\ times[u] <= 1
      /\ times[u] = 1 => \A r \in Runs : u \notin Uid(run[r].leaves)

\* A commitment stored with a real transaction is under a root of the contract;
\* without failures every root of the contract is of a stored batch, or of one
\* about to be stored.
ChainAgrees ==
  /\ vouched \subseteq chain
  /\ faults = 0 => chain \subseteq vouched \cup UNION {run[r].leaves : r \in Runs}

\* A row created before the newest batch is in one, unless its insertion overlapped a
\* run: the time of a batch is later than its selection, and what is inserted in
\* between is skipped for ever.
NothingSkipped == \A u \in old \ crossed : times[u] > 0

\* What a run has in hand: from its selection on all uncrossed rows are among its
\* leaves or were there before its start, and alone it started from the newest batch.
RunCarries(r) ==
  /\ run[r].before \subseteq old
  /\ Uid(run[r].leaves) \subseteq Committed \ run[r].before
  /\ run[r].pc \in {"idle", "select"} => run[r].leaves = {}
  /\ run[r].pc \in {"submit", "store"} =>
       Created \ crossed \subseteq Uid(run[r].leaves) \cup run[r].before
  /\ run[r].real => run[r].pc = "store" /\ run[r].leaves \subseteq chain
  /\ run[r].pc = "store" /\ faults = 0 => run[r].real
  /\ ~overlapped /\ run[r].pc # "idle" => run[r].before = old

\* What a batch in the table covers, and what is left to cover.
TableCovers ==
  /\ old \subseteq Created
  /\ \A u \in Created : root[u] > 0
  /\ \A u \in Uids : times[u] > 0 => u \in old

\* What makes OncePerIdentity, ChainAgrees and NothingSkipped inductive.
IInv ==
  /\ TypeOK /\ NothingSkipped /\ OncePerIdentity /\ ChainAgrees /\ TableCovers
  /\ Busy # {} => Created \ crossed \subseteq Committed
  /\ ~overlapped => \A r1, r2 \in Busy : r1 = r2
  /\ \A r \in Runs : RunCarries(r)

\* Every commitment whose insertion overlapped no run is in a batch some time,
\* whatever failed in between.
EventuallyAnchored ==
  \A u \in Uids : row[u] = "there" /\ u \notin crossed ~> times[u] > 0
=============================================================================
