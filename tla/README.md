# A formal model of ZeroAuth Sentinel

TLA+ specifications of the identity provider **zauth-core** (TypeScript, Express,
PostgreSQL, Redis), of the page a phone opens to approve a sign-in, and of the two
applications that rely on it, **zauth-notes** and **zauth-sentinel**. Paths are relative to
the repository root (`src/` in `PROJECT.json`); `core/` abbreviates `apps/zauth-core/src/`.

    tlc -workers 2 -config Handoff.cfg MCHandoff.tla            # model-check
    tlapm HandoffProofs.tla                                     # check proofs

`PROJECT.json` lists the runs, the mutated definitions each property is tested
against, the source lines every definition stands for, the hazards and the theorems.

## 1. Inventory

zauth-core is one Node process. Requests run concurrently and interleave at every
`await`. State lives in three places: PostgreSQL (durable; nearly every
operation is a sequence of single statements, without transactions), a cache (Redis,
or a `Map` in the process when Redis is missing; `get`, `set` with a TTL, `del`, and no
compare-and-set), and the browser (cookie, open pages, forms).

| Component | State | Operations | Hard behaviours | What makes it correct |
|---|---|---|---|---|
| **Handoff** `core/services/handoffService.ts`, `core/routes/passkey.ts` 191-257, 398-625, wait page in `core/routes/ui.ts` 1304-1514 | handoff record in the cache, phone session, the waiting page | start, approve, deny, status (which consumes and signs in), page reaction | read-then-write on a cache, overlapping polls, late answers, TTLs, crash between consume and session | one approval signs in one desktop once, for the approver, at the assurance approved; the page tells what happened |
| **Authorization request, consent, session** `core/routes/oidc.ts` 58-328, `authRequestService.ts`, `sessionService.ts`, `GET /ui/consent` | request and session in the cache, signed copy in the form, consents table, cookie | authorize, show, decide, extend, drop | double submits, cache eviction, restart between GET and POST, forced login beside other requests | no code without consent, one answer per session, a forced login is fresh |
| **Authorization code** `core/services/oauthService.ts`, `/oauth2/token`, `/oauth2/revoke` | `auth_codes`, `access_tokens`, `refresh_tokens` | issue, exchange (4 statements), revoke, userinfo | concurrent exchanges, failure between statements | single use, complete answers |
| **Audit log** `core/services/auditService.ts` | `audit_events`, a hash chain | append (SELECT, INSERT) | concurrent appends, serial ids against commit order, lost writes | one can walk back to the beginning |
| **Passkeys** `core/services/passkeyService.ts`, `userService.ts` | users, credentials, challenges in the cache | begin/finish registration and login | two first registrations of a name | who has a passkey signs in, who has none is told so |
| **Recovery** `core/routes/passkey.ts` 630-857, `pramaanV2Service.ts` 676-833 | codes, nullifiers, recovery token in the cache, credential revocations | verify, biometric confirm, multi-code bypass | code checked long before it is consumed, consumption that ignores a conflict, failure half way | a code recovers once, unless two recoveries hold it together; used up or superseded it is dead |
| **Enrollment and proofs** `core/services/pramaanV2Service.ts`, `routes/pramaan.ts`, `identityChainService.ts` | drafts, identity map, commitments and their versioned log, proof requests, nullifiers, receipts | start/complete enrollment, challenge, submit, receipt | consumed check before verification, version race, chain call that fails | a proof request yields one receipt; tables and chain agree |
| **Liveness and the phone's page** `core/services/livenessService.ts`, `/ui/mobile-approve` in `core/routes/ui.ts` 1521-3059 | challenge in the cache; the page's variables, IndexedDB, the phone's session | account, sign-up, enrollment, gestures, capture, match, proof, codes, approve | the page's variables outlive its handlers, whose awaits interleave with presses; a fetch that fails before or after its work; another account half way | the approve button works when it is shown; codes are seen; the user comes to an end |
| **Anchoring** `core/services/anchorService.ts`, `apps/zauth-core/contracts/*.sol` | batches, contract storage | run a batch on a timer | external call between SELECT and INSERT, overlapping runs and enrollments | every commitment is anchored, once |
| **Cache** `core/services/cacheService.ts` | Redis or a map | get, set, del, fall back | switch to an empty map in mid-flight | nothing consumed comes back |
| **Keys, start-up, migration** | key pair, tables | initialise, migrate | restart invalidates keys | |
| **Rate limit, admin, health** | counters per IP | | fixed window | at most `max` per window |
| **Sign-in of the applications** `apps/zauth-{notes,sentinel}/src/routes/auth.ts`, `services/sessionService.ts`, `middleware/auth.ts`, `web/src/App.tsx` | sessions table, session and OIDC cookies, the open tabs | login, callback, session, write, logout | one cookie jar for all tabs, answers that arrive late, callbacks sent twice | a document goes to the account its page shows; signed out means out; signing in succeeds |
| **Sentinel's own data** `apps/zauth-sentinel/src` | roster, checkpoints, dispatches, armoury | seed, record, edit | a start that stops half way, two statements per recording, an editor whose answers arrive late | seeded once; the roster shows the newest checkpoint; text stays in its dispatch |
| **Notes' own data** `apps/zauth-notes/src` | notes | CRUD, one statement each | | |
| **SDK, console, frontends, contracts' build, circuit, deployment** | | | | |

How they interact: an application redirects to `/oauth2/authorize`, which stores a
request and sends the browser to `/ui/login`. The login creates a session, directly by
passkey or recovery, or by a handoff: the desktop page polls while a phone that signed
in by passkey proves face and identity (liveness, proof request, receipt) and approves.
The poll that finds the approval consumes it, extends the request's TTL and creates the
desktop's session. The consent page turns session and request into a code, ends the
session and returns to the application, which exchanges the code and keeps a session of
its own. An enrollment writes the identity, its commitment and its log, registers it with a
contract and flags the account; a timer anchors new commitments in batches. Nearly every step
appends to the audit log.

The hazards of all this are in `PROJECT.json`, each at its line.

## 2. Modules

| Module | Role |
|---|---|
| `HandoffPromise` | abstract specification: a handoff is offered, decided once, spent once; or void |
| `Handoff` | the handlers, cut at their awaits, the page, the cache, crashes |
| `HandoffProofs` | type correctness, inductive invariant, safety, refinement of `HandoffPromise` |
| `AuditChain` | the append of an audit event |
| `AuthCode` | issue, exchange, revoke |
| `Consent`, `ConsentProofs` | authorize, consent page, session, TTLs; proofs |
| `Recovery`, `RecoveryProofs` | recovery codes, tokens, revocation and session; proofs |
| `Identity`, `IdentityProofs` | drafts, completion of an enrollment, registry contract, proof requests and receipts; proofs |
| `Anchor` | the anchor job against enrollments and the contract |
| `LedgerProofs` | proofs about `AuditChain` and `Anchor` |
| `PhonePage`, `PhonePageProofs` | the phone's page with its server: from account to approval; proofs |
| `RelyingParty` | sign-in, session, writes and sign-out of an application, from several tabs |
| `RelyingPartyProofs` | proofs about `AuthCode` and `RelyingParty` |
| `Sentinel`, `SentinelProofs` | seed, checkpoints and dispatch editor of the Sentinel application; proofs |
| `MC`... | values and symmetry for TLC, one for each specification; `MCLedger` for `AuditChain` and `Anchor` both |

Conventions. A request in flight occupies a *worker* whose `pc` names the `await` it
stands at; an action runs from one await to the next, because that is what Node runs
without interruption. A handler that only reads and answers with an error finishes at
once. Where one module of proofs extends two specifications, their names are kept apart
(`ChainSpec`, `AppSpec`). Variables marked *history* are read by properties only. Operators
marked "A mistake to be found" are not part of a specification; they are the mutants.

### Handoff

`rec` is the record last written, `stored` says whether the cache still has it, `late`
whether `expiresAt` has passed (the services check both). `save` is two `set`s, by id
and by code; they are one write here. The actions `ApproveBegin`, `ApproveRead`, `ApproveSave`,
`ApproveEnd` are the approve handler; `DenyRead`, `DenySave` the deny handler;
`PollRead`, `ConsumeRead`, `ConsumeSave`, `ExtendRead`, `ExtendSave`, `CreateSession`
the status handler; `Deliver` is the page's reaction to an answer. The reaction does not ask whether
the page has settled meanwhile (`AfterReply`): a late "pending" or error replaces the outcome shown by
"Waiting" or "Retrying" on a page that no longer polls, so `PageTellsTruth` says of the outcomes
that they happened and of `pollDone` that it follows one, not that the outcome stays. Session lookup,
enrolment gate and receipt check precede the approval's first read of the record and
are read once, as in the code. The liveness verdict is an input: the guard is that it is
positive. Accounts are enrolled or not from the start.

The cache cannot tell a handler that its record changed. `clobbered` records the
handoffs to which that happened: a handler wrote without having read the record's
current value. Two approvals, an approval and a denial, or two consuming polls then both
take effect. The code has no guard against it and no document denies it, so the
safety properties are stated for the others (`Intact`), except `EarnedLogin` and
`PageTellsTruth`, which hold regardless; these very races are outside `SingleLogin`, `OneVerdict`
and the refinement.

### AuditChain

A hash is the sequence of payloads it was computed over, so hashes do not collide.
`DrawId` and `CommitRow` split the INSERT: PostgreSQL takes the id from the sequence
when the statement runs and shows the row when it commits. `Jsonb` says what the
column gives back for a text, which the instances take to reorder keys: the chain is one
of stored hashes and does not need the texts to survive.

### AuthCode

`ExchangeRead` holds every check of the exchange (client, redirect URI and PKCE are one
input, `proves`); `ExchangeMark`, `ExchangeAccess`, `ExchangeRefresh` its three writes;
`ExchangeAnswer` the user lookup, the ID token and the answer. `ExchangeFails` may stop
it anywhere. The refresh token shares its access token's name. The token endpoint
accepts no refresh grant, so a refresh token has no further behaviour. `raced` is
history: a code was marked used while another exchange had passed its check and not marked it yet. An
exchange that begins after the mark is no race, and must be refused.

### Consent

One browser with one cookie. `ttl` counts the ticks until the cache drops a request and
`form` those until the newest signed form is too old. `Forced` are the requests that
carry `prompt=login`, or all of them under `AUTH_DISABLE_SSO`. `prompt=none` without a
session changes nothing that `SessionGone` does not. `disturbed` is history: sessions
whose handlers overlapped or failed, for which nothing is promised about the number of
answers. `ScopesOf` is the set of scopes of each request, which is empty for `?scope=`: `hasConsent`
takes that for consented, `upsertConsent` then records nothing, and a request in a session that is
there already gets its code at once. So `CodesAreConsented` asks for the rows of the scopes there
are. (A list that repeats a scope, which `hasConsent` would count twice, is left out.) The cache may be lost with the process
(`RestartInMemory`, when Redis is missing) or under handlers that go on
(`FallBackToMemory`, on a Redis error). `MaxEntries` bounds sign-ins and authorization requests
together.

### Recovery

One account. `VerifyCode` and `MintToken` are `/auth/recovery/verify`; `RecoverByFace` and
`RecoverByCodes` read the token and, for codes, check them; both go on through `Consume`,
`ConsumeMore`, `RevokeRead`, `RevokeOne`, `DropToken`, `CreateSession`, `MarkMethod`,
`Answer`. The face is no input: all the server asks is that the page sent a hash.
`Needed` is `RECOVERY_CODES_FOR_BYPASS`, above zero. Checks that only read are one step with
the request's start, since nothing is looked at again later. `Enroll` and `InsertCode` are what a
re-enrollment does to the codes; whether it issues any is the page's decision, so both
are possible, in a recovered session or any other of the account. Recovered sessions may last: their
expiry would only disable steps. `bought` and `shared` are history: what each session was paid with, and
the codes that, when one recovery consumed them, another one (`MaySpend`) or another token had a
claim on too, or of whose token two requests made use. `Nullify` inserts with `ON CONFLICT DO NOTHING` and
does not notice. `OneRecoveryUnlessHeld` is stated for the other codes: who comes back with a
code that is used is refused. For the shared ones a code recovers twice, against what the
page and the threat model say (`recovery_single_use`).

### Identity

One account. Each of `CompleteRead`, `CompleteMap`, `CompleteCommit`, `CompleteVersion`,
`CompleteLog`, `ChainMines`, `SetChainTx`, `Finish` is one statement of `completeEnrollment` (the
reads before the first write are one, the flag and the end of the draft are one: nothing reads
either in between). `log` keeps the rows of each uid apart, since every statement selects by
uid. A root stands for the face captured for its draft, so a draft names both. The call to the
chain may fail for the handler and be mined all the same (`ChainFails`). Two
completions of one draft are allowed, as the draft is only dropped at the end. Proofs run
against the same rows: `SubmitRead`, `SubmitIdentity`, `Nullify`, `InsertReceipt`. Drafts and
requests do not expire in the model: an expired one is refused without a mark, so that
expiry only takes behaviours away. `crossed`, `broken`, `offchain` and `twice` are history:
uids two completions of which overlapped, one of which broke off, one of which the chain did not
take, and requests nullified while another submission had passed the check and not nullified yet
(`Races`): one that begins later must be refused. The code has no guard against any of these; the
properties say what it keeps up without one (`RecordsAgree` on the event behind a
`chain_tx_hash` holds whatever broke off) and what holds otherwise.

### Anchor

Times are only ever compared with the newest `anchored_at`, so the table of batches is the set
`old` of rows created before it. `InsertBegins` and `InsertEnds` split the INSERT of a
commitment, because `created_at` is the time the statement begins and others see the
row when it ends. Runs overlap, as `setInterval` does not wait. The chain is configured; a
refused or lost transaction leaves a batch with a hash made up from its root. `crossed` is
history: rows whose insertion overlapped a run, which the code may skip for ever;
`overlapped`: two runs did, which may anchor a row twice.

### PhonePage

`page` holds the script's variables, `verify` is `verifyLiveness` (`submitting` lets one run at a time),
`account` the presses of `continueWithAccount` and `createAccountOnPhone` in progress, as many
as there are `Handlers`, and `page.asked` the number of `startLiveness` that wait for their
challenge. A step runs from one await to the next, with the route's work, so the server's part is
`passkey`, `row`, `enrolled`, `session`, `open` and `handoff`; each fetch may fail before or after that
work. Every button stays enabled during handlers, as in the page. A handler reads the page's
variables again after each await, except the few it keeps (`verify.user`, `verify.draft`). The
tracking of a step is a wait before a panel is shown (`ShowFace`, `Show`). A challenge that comes
(`ChallengeComes`) does so wherever the page has gone meanwhile: it replaces the challenge before and
starts the camera, which then sees gestures behind any panel (`Gesture`), so that `verifyLiveness` may
run while the codes or the approve button are shown. It expires after 300 s (`ChallengeExpires`), half
the time a handoff has; expiries of challenges and drafts count as failures. An
account of `Elsewhere` was enrolled on another device, its passkey synced to this one. All accounts
belong to one person whose captures differ each time. The enrollment is the one of `Identity`, cut
at what the page can see: row, then flag. `crossed`, `switched`, `broken` and `page.late` are
history: a press or a last gesture during a handler, another account chosen, an enrollment stopped
between row and flag, a challenge that came while a face was verified or after the page had moved on.

### RelyingParty

Both applications share this code line by line, so that a definition is mapped to the
one of them that shows it best. `jar` is the cookie jar of the browser, `tab` what each
page shows, `net` the requests under way: each carries the cookies of its sending, and its answer
sets the cookies of its delivery. `Complete`, `Redeem` and `CreateSession` are the
callback; a code is good for one exchange (`used`), as `AuthCode` has it for exchanges that
do not race. While a sign-out is on its way the page stays live: it may save, be loaded again, or sign
out once more. A tab left or loaded again waits no more for its answers, but their cookies still
arrive. Ids that no cookie, tab or request holds are used again.

### Sentinel

A behaviour exercises the checkpoints or the dispatches (`focus`), which share nothing but the
server that may stop and start. `SeedMarker`, `SeedPerson`, `SeedEntry`, `SeedLast` are
the inserts of the seed in their order; `RecordInsert`, `RecordCommit` and `RecordUpdate` the two
statements of a recording, the INSERT split because `verified_at` is the time it begins and others
see the row when it ends; the editor's `Save` sends what the form holds, and `After` is what `handleSave` and
`handleDelete` do with the answer. A text is named by the dispatch it was opened from or typed for.

## 3. What the runs show

| Run | Bounds | Shows |
|---|---|---|
| `handoff` | 1 handoff with an authorization request, 2 requests in flight, 2 accounts of which 1 has a receipt, 1 crash or lost answer, fair | `SingleLogin`, `OneVerdict`, `EarnedLogin`, `PageTellsTruth`, that `Handoff` implements `HandoffPromise`, the inductive invariant `IInv`, and `ApprovalReachesPage` |
| `ledger` | the log: 3 writers, 4 ids, 2 payloads; or the job: 2 identities with 2 roots each, 2 runs in progress, any number in turn, 1 failure, fair | `WalksBack`, `AloneMeansLinked`, the inductive invariant `ChainInv`; `OncePerIdentity`, `ChainAgrees`, `EventuallyAnchored`, `IInv` |
| `auth_code` | 2 codes of 2 clients, 3 exchanges, 3 tokens, 1 failure | `SingleUseUnlessRaced`, `AnswersComplete`, `SettledIsFinal`, `IInv` |
| `consent` | a request with a scope, a forced one with two, one with none, of 1 client; 2 sessions, together at most 3, 2 handlers, 1 failure or loss of the cache | `CodesAreConsented`, `OneAnswerPerSession`, `FreshLogin` |
| `recovery` | 3 codes in 2 generations, 2 tokens, 2 passkeys of which 1 old, 2 sessions, 2 requests in flight, 1 code more in place of the face (3 in the code), 1 failure or expired token | `OneRecoveryUnlessHeld`, `OldPasskeysEnd`, `CodesAreMarked`, `ClosedIsFinal`, `IInv` |
| `identity` | 2 drafts, 1 proof request, 3 requests in flight and in all, 1 failure | `LogIsLinear`, `RecordsAgree`, `OneReceiptUnlessRaced`, `SettledRequestIsFinal`, `IInv` |
| `phone` | 2 accounts, 1 of them enrolled elsewhere, every hint and mode, 2 account handlers at once, 2 failures or expiries, 2 presses out of turn, fair | `PanelTellsTruth`, `CodesBeforeApproval`, `ReachesEnd` |
| `relying_party` | 2 tabs, 3 accounts of which 1 signs in too weakly, 2 mishaps, any number of sign-ins, fair | `SavedUnderAccountShown`, `SignedOutMeansOut`, `SignInSucceeds` |
| `sentinel` | 2 people, 2 gates, 2 officers, 2 dispatches, 2 requests under way, 2 stops | `SeededOnce`, `LastCheckpointIsNewest`, `TextStaysInItsDispatch` |

Why the bounds suffice: every interesting race here needs two handlers between a
read and a write; a late answer to the page occupies one of them. `handoff` has one handoff: its
requests and answers name it throughout, and that those of several are not mixed up rests on
the theorems, which hold for any number. A third token shows a code redeemed after a race; four ids let a row commit after two later ones. Two completions of one
draft and a third request show what a retry meets. A phone needs two accounts for a switch, and
two failures for one that strikes while the page recovers from another. One new generation of recovery
codes beside the first shows what supersedes what; two that overlap are left to the theorem. Two tabs suffice to
cross cookies: a third only repeats what the second does. Proofs remove the bounds where they
exist. `PhonePage` gives the same with `RequireProof` set.

The log and the anchor job share neither state nor code: `MCLedger` explores one or the other
(`part`). Every configuration switches deadlock checking off: the systems may come to rest (all bounded ids used, everything expired, nobody acting).

Three runs end in a counterexample; each states what a document or comment says:

| Run | Statement | What the code does |
|---|---|---|
| `audit_linear` | "Each audit event includes the SHA-256 hash of the previous event, forming a linked list" (`docs/THREAT_MODEL.md` 163) | two overlapping writers chain to the same event |
| `auth_code_single_use` | "Authorization codes are single-use" (143) | the UPDATE is unconditional, two exchanges may both have passed the check |
| `recovery_single_use` | "Each code can only be used once" (`core/routes/ui.ts` 3015, `docs/THREAT_MODEL.md` 204) | a verified code is not consumed: it buys a second token, or its token is used by two requests, and the nullifier's conflict goes unnoticed |

Several properties that hold exclude, by a history variable, the very race their hazard names, because
the code has no guard against it and no document denies it: lost updates of a handoff
(`clobbered`), overlapping handlers of one session (`disturbed`), overlapping completions of one uid
(`crossed` of `Identity`), overlapping recordings of one person (`raced` of `Sentinel`), a form changed while a
dispatch is being created (`swapped`), presses during a handler and late challenges on the phone
(`crossed`, `late` of `PhonePage`), a cookie set by a late answer, which counts as a new sign-in. They say
what holds otherwise, whatever else overlaps or fails; the hazards' notes name the outcome
of the race. No property says that a first consent POST that finds no session is lost.

**Fairness.**

* `Handoff` (`FairSpec`). Weak fairness of each handler and each delivery: the event loop
  resumes a continuation and an answer that is not lost arrives. Strong fairness of polling:
  `setInterval` fires every two seconds while the page polls, but all modelled workers may be
  busy again and again, which is a bound of the model and not of Node. Nothing is assumed of
  people, clocks, evictions or faults.
* `Anchor`. Some run gets on: the interval fires again and again. A run that waits for the chain
  for ever is not excluded, as `tx.wait()` has no time limit: another one then gets on.
  Nobody has to enroll and no statement of an enrollment has to end.
* `PhonePage`. Handlers go on, and a challenge asked for comes or fails. The property is about a user
  who goes on, so one is assumed: who presses the button the panel offers when nothing is in
  progress, makes the gestures asked for on the face's panel, creates the account
  when it is asked for again and again, and reloads a page that shows errors again and again.
* `RelyingParty`. Requests are served and answered, unless lost; the user goes on signing in, in one
  tab at a time.

## 4. What is proved

All theorems hold for every value of the constants that satisfies the named
assumptions of the module (`ConstantsAssumption`, `ChainAssumption`, `CodeAssumption`,
`ConsentAssumption`, `RecoveryAssumption`, `IdentityAssumption`, `AnchorAssumption`,
`PhonePageAssumption`, `RelyingPartyAssumption`, `SentinelAssumption`: subsets, functions, distinct
absent values, and a finite number of accounts on the phone, so that a new capture always differs
from those kept). Each proof module extends its specification, and two of them extend two. `IInv`
(`ChainInv`, `AppInv`) is the inductive invariant, defined at the end of the specification so that
TLC could check it on the instance of the run before it was proved; those of `Consent`, `PhonePage`,
`RelyingParty` and `Sentinel` are no property of a run, since the properties that follow from them
are.

* **Handoff.** `TypeCorrect` is an ordinary type invariant.
  The safety properties are not inductive: that a session is earned depends on what the job
  about to create it carries, which depends on the record it was read from. `IInv` adds
  `Backed` (whoever is on the way to the record or to a session carries an earned
  approval, and the record only holds verdicts that were given), `RecordIsHistory` (an
  intact record tells all that happened), `OneSigner` (at most one poll stands between
  consuming an intact record and its session), `RepliesTrue` (an answer under way is true)
  and `ExtendsItsRequest`. `Inductive` proves it action by action;
  `SingleLoginHolds`, `OneVerdictHolds`, `EarnedLoginHolds` and `PageTellsTruthHolds`
  follow. `KeepsPromiseHolds` shows that every step is a step of `HandoffPromise`
  or a stutter, under the mapping `Phase`.
* **AuditChain.** `WalksBack` needs `HashesHeld` (the hash a writer holds belongs to a
  visible row) and `IdsDrawn` (whose id was drawn before the writer's own).
  `AloneMeansLinked` needs `AloneHeld` and `AloneIsSettled` (no id in flight is
  smaller than that of a row written alone).
* **AuthCode.** `SingleUseUnlessRaced` needs `OneClaim` (of an unraced code one exchange at
  most stands between its mark and its INSERT, none before its mark once it is used, and then there is
  no token yet) and `PastMark`.
  `SettledIsFinalHolds` proves the action property from `IInv`.
* **Consent.** A code is created long after the checks it rests on, so `Consented` says what each
  handler still carries of them: a row for every scope, or Continue pressed on a forced request.
  `SessionsAnswerOnce` needs `HeldByOne`: one handler at a time holds an undisturbed session,
  none after its answer but the one that gave it. `ForcedLoginIsFresh` needs `Fresh`: once a
  forced request is out, whoever has passed the cookie's check has a session younger than
  it, a page that was opened before included, and no request in the cache or shown is `Stale`.
* **Recovery.** `OneRecoveryUnlessHeld` needs `PaidIsSpent`, `PaidAlone` and `BoughtAlone`: of a code
  not shared, whoever has paid with it (`Paid`) or bought a session with it is the last to have a
  claim on it, and `TokensDropped`: a token is gone before its session exists; `OldPasskeysEnd` needs `Revokes`,
  `CodesAreMarked` needs `Marks` and `MarksMeanCodes`, and all of them `JobsCarry`: what requests
  and tokens hold exists. `ClosedIsFinalHolds` proves the action property from `TypeOK`
  and `JobsCarry`.
* **Identity.** That the tables agree holds between completions only, so the invariant says what
  each statement of a completion leaves behind. `Written` says it of any completion, whoever else
  writes: its rows are there, and the hash it is about to store is that of its own event. `Alone`
  says what it has read and written where it is the only one of its uid: the version it holds is
  the next one. `InStep` relates the contract's counter to the length of the log, one behind while
  the chain is being told; `AtRest` is agreement before a completion writes. `Clean` collects
  them for a uid whose completions never overlapped. The proof shows that every step of a
  completion only adds (`Grows`) and touches one uid (`Only`), so that what is left of each
  action is its own uid (`CompletionKeeps`). `NextOfLinear` is the step on which `LogStaysLinear`
  rests: the highest version of a linear log is its length. `Receipted` counts who is about
  to insert a receipt; `SettledStaysFinal` is the action property.
* **Anchor.** `OncePerIdentity` needs to know what a run has in hand (`RunCarries`): from its
  selection on, all uncrossed rows are among its leaves or were there before its start; alone, it
  started from the newest batch. With `TableCovers` this gives `NothingSkipped`, on which
  `EventuallyAnchored` rests: a row older than the newest batch is in one. `AnchorInductive`
  proves them together action by action.
* **PhonePage.** A handler of the page reads the page's variables again after every await, so the
  panel at its end tells the truth only if they still fit together. `Calm` is the time in which no
  button was pressed during a handler and the handoff is open. In it `CalmAccount` and `CalmVerify`
  say that only one handler is in progress, on which panel, and what it may take for granted:
  whoever looks for an identity or starts an enrollment is signed in as the account on display,
  whoever proves does so for that account, whose row exists. `CalmPage` says it of the page itself.
  The proof rests on two observations: a press with nothing in progress keeps `Calm` and starts
  from idle (`PressCalms`), and a step that nobody sees but its handler keeps everything
  (`QuietKeeps`), which covers most failures. `CodesBeforeApproval` holds with handlers overlapping,
  unless a challenge came late: it needs `CodesWait` (otherwise no face is verified, and no gesture can
  start it, while codes or the approve button are on the screen) and `OneAccount` (until the user
  switches, session, codes and handlers are of the account on display).
* **RelyingParty.** `SavedUnderAccountShown` needs `PagesName` and `SavesName`: the session whose
  CSRF token a page or a request of it carries is, as long as it exists, one of the account the page
  shows. Cookies cross as they please; it is the token, bound to its session, that refuses a write.
  `SignedOutMeansOut` needs `AsksForJar`: a page that asks who is signed in, nobody having come
  since, asks for the session the browser still has.
* **Sentinel.** `Seeding` ties the marker, the loop's position and the rows together.
  `Checkpoints` says of each officer between the two statements that nobody else records the same
  person and that the entry inserted is still the newest (`Shown`), and that nobody records while the server is not up. `Texts` says that
  at most one save of the page on display is under way, that the form holds what is selected, and
  that a request carries the text of its own dispatch, even one whose page is gone.

Every safety invariant and action property the runs check, and the refinement, is proved, but for
the three statements that the code refutes. Only model-checked: liveness (`ApprovalReachesPage`,
`EventuallyAnchored`, `ReachesEnd`, `SignInSucceeds`), since the prover has no rules for fairness.

## 5. Not modelled

* Cryptography: signatures, HMAC, SHA-256 and Groth16 proofs are sound or are inputs.
* The content of tokens, claims and pages.
* WebAuthn challenges and counters: a registration or a login is one step with its outcome.
* The verdict of a Groth16 proof, on the server and on the chain, and the generated verifier.
* Face detection, landmarks, descriptors and their distances: a capture matches its owner.
* Keys, discovery, start-up and migration: a sequence without concurrency. Rate limiting:
  a counter in a window, without an await.
* Admin and health routes: read-only views, or a policy nothing reads. The SDK: it builds a URL.
* Armoury and personnel of Sentinel, one statement each; its dashboard, which only reads; the form
  of the notes editor. Landing pages and the admin console: rendering and links.
* Build, deployment and the circuit.

## 6. Plan

A composition of `Handoff`, `Consent` and `AuthCode`: a token goes back to an approval made for the
same request. An abstract specification of a code (issued, redeemed, dead) that `AuthCode`
implements for codes whose exchanges do not race.
