------------------------------ MODULE PhonePage ------------------------------
(***************************************************************************)
(* The page a phone opens from the QR code (/ui/mobile-approve of zauth-     *)
(* core): confirm or create an account, prove the face, approve the handoff. *)
(* The page's variables outlive its handlers: every handler goes from await  *)
(* to await and reads them again after each, while buttons stay enabled.     *)
(*                                                                         *)
(* One phone with its IndexedDB, its cookie and one handoff.  A fetch is one *)
(* step: the route's work and what the page does with the answer; it may     *)
(* fail before or after the route's work.  The tracking of a step, which does *)
(* nothing to the page, is a wait: what comes after it is a step of its own.  *)
(* A capture is a new hash each time and matches its owner's descriptor; a    *)
(* match that fails is a failure.                                            *)
(***************************************************************************)
EXTENDS Naturals, FiniteSets

CONSTANTS
  Users,        \* accounts that may be typed in; all of the same person
  Elsewhere,    \* those enrolled on another device, their passkey synced to this
  Hints,        \* what the desktop may name as the account; None: nothing
  RequireProof, \* AUTH_REQUIRE_ZK_FOR_LOGIN
  MaxHandlers,  \* bound: account handlers in progress at once
  MaxFaults,    \* bound: failures in one behaviour
  MaxWhims,     \* bound: presses that lead nowhere or come too early
  None

\* Captures; NoFace: an identity enrolled without one.
NoFace == 0
Hashes == 1..(2 * Cardinality(Users) + 2)

ASSUME PhonePageAssumption ==
  /\ IsFiniteSet(Users) /\ Users \cap {"pending", "denied"} = {}
  /\ Elsewhere \subseteq Users /\ Hints \subseteq Users \cup {None}
  /\ None \notin Users \cup Hashes \cup {NoFace}
  /\ RequireProof \in BOOLEAN /\ MaxFaults \in Nat /\ MaxWhims \in Nat
  /\ MaxHandlers \in Nat \ {0}

\* Presses of the account's buttons whose handlers are in progress.
Handlers == 1..MaxHandlers

VARIABLES
  \* The server's:
  passkey,   \* accounts with a passkey this phone can use
  row,       \* pramaan_identity_map: the biometric hash of each account
  enrolled,  \* users.enrolled
  session,   \* whose session the phone's cookie names
  open,      \* accounts with an enrollment draft in the cache
  handoff,   \* "pending", "denied", or who approved it
  \* The phone's:
  store,     \* IndexedDB: the hash kept for each account
  hint, mode,
  page,      \* the page's variables
  verify,    \* verifyLiveness
  account,   \* continueWithAccount or createAccountOnPhone, one per press
  faults, whims,
  crossed,   \* history: a button was pressed, or the last gesture made, during a handler
  switched,  \* history: the page went on with another account
  broken     \* history: accounts whose enrollment stopped between row and flag

server == <<passkey, row, enrolled, session, open, handoff>>
history == <<crossed, switched, broken>>
link == <<hint, mode>>
vars == <<server, store, link, page, verify, account, faults, whims, history>>

InUse == {row[u] : u \in Users} \cup {store[u] : u \in Users} \cup {page.face}
NewHash == CHOOSE h \in Hashes \ InUse : TRUE

Idle == [pc |-> "idle", user |-> None, draft |-> None]
Failed == [page EXCEPT !.error = TRUE]

\* stopCamera with the error: verifyLiveness and startLiveness end like this.
GaveUp == [Failed EXCEPT !.camera = FALSE]

\* GET /auth/handoff/context names a status that is not pending: nothing left to do.
Settled == handoff # "pending"

\* What the script starts from; loadHandoffContext has the last word.
Fresh(s) ==
  LET name == IF hint = None THEN s ELSE hint IN
  [panel |-> IF Settled THEN "done"
             ELSE IF name = None THEN "switch_account"
             ELSE IF mode = "signup" THEN "signup" ELSE "account",
   active |-> name, known |-> s, uid |-> None, draft |-> None, signup |-> mode = "signup",
   face |-> None, released |-> None, asked |-> 0, gestures |-> FALSE, camera |-> FALSE,
   live |-> None, result |-> FALSE, proof |-> None, codes |-> None, shown |-> FALSE,
   error |-> FALSE, late |-> FALSE]

AllIdle == [h \in Handlers |-> Idle]

Known == page.known # None /\ page.known = page.active

Init ==
  /\ passkey = Elsewhere /\ enrolled = Elsewhere /\ session = None /\ open = {}
  /\ row \in {r \in [Users -> Hashes \cup {None}] :
                \A u, v \in Users : /\ (r[u] = None) = (u \notin Elsewhere)
                                    /\ r[u] = r[v] => u = v \/ r[u] = None}
  /\ \A u \in Elsewhere : row[u] <= Cardinality(Elsewhere)
  /\ handoff = "pending" /\ store = [u \in Users |-> None]
  /\ hint \in Hints /\ mode \in {"signin", "signup"}
  /\ page = Fresh(None) /\ verify = Idle /\ account = AllIdle
  /\ faults = 0 /\ whims = 0 /\ crossed = FALSE /\ switched = FALSE /\ broken = {}

\* A handler is in progress: page.asked startLiveness wait for their challenge.
Busy == verify.pc # "idle" \/ account # AllIdle \/ page.asked > 0

\* A press: what the user is led to, or a whim; buttons stay enabled throughout.
Press(whim) ==
  /\ whims' = IF whim \/ Busy THEN whims + 1 ELSE whims
  /\ whims' <= MaxWhims
  /\ crossed' = (crossed \/ Busy)

Fault == faults < MaxFaults /\ faults' = faults + 1

-----------------------------------------------------------------------------
\* A handler starts; whatever else is in progress, buttons stay enabled.
Free(h) == account[h].pc = "idle" /\ \A g \in 1..(h - 1) : account[g].pc # "idle"
Begins(pc) ==
  \E h \in Handlers :
    Free(h) /\ account' = [account EXCEPT ![h] = [Idle EXCEPT !.pc = pc, !.user = page.active]]
Goes(h, pc) == account' = [account EXCEPT ![h].pc = pc]
Ends(h) == account' = [account EXCEPT ![h] = Idle]

\* continueWithAccount: without an account the user is asked for one.
PressContinue ==
  /\ page.panel = "account"
  /\ Press(FALSE)
  /\ IF page.active = None
     THEN page' = [Failed EXCEPT !.panel = "switch_account"] /\ UNCHANGED account
     ELSE /\ page' = [page EXCEPT !.error = FALSE]
          /\ Begins(IF Known THEN "identity" ELSE "login")
  /\ UNCHANGED <<server, store, link, verify, faults, switched, broken>>

\* createAccountOnPhone.
PressCreate ==
  /\ page.panel = "signup"
  /\ Press(FALSE)
  /\ page' = [page EXCEPT !.error = FALSE]
  /\ Begins("register")
  /\ UNCHANGED <<server, store, link, verify, faults, switched, broken>>

\* The user is created by the options route, the passkey by the verify route; an
\* account that exists gets one more.
Register(h) ==
  /\ account[h].pc = "register"
  /\ passkey' = passkey \cup {account[h].user}
  /\ Goes(h, "login_new")
  /\ UNCHANGED <<row, enrolled, session, open, handoff, store, link, page, verify, faults,
                 whims, history>>

\* beginPasskeyAuthentication finds a credential that is not revoked.
CanSignIn(u) == u \in passkey

SignedIn(h) ==
  /\ session' = account[h].user
  /\ page' = [page EXCEPT !.known = account[h].user, !.uid = None]
  /\ Goes(h, IF account[h].pc = "login" THEN "identity" ELSE "start")

\* Who has no account, or no identity, is sent to sign up.
SignUp == [page EXCEPT !.signup = TRUE, !.panel = "signup", !.error = TRUE]

\* A mistake to be found: an account without a passkey is an error like any other.
LoginUnknownFails(h) ==
  /\ account[h].pc \in {"login", "login_new"}
  /\ IF CanSignIn(account[h].user) THEN SignedIn(h)
     ELSE page' = Failed /\ Ends(h) /\ UNCHANGED session
  /\ UNCHANGED <<passkey, row, enrolled, open, handoff, store, link, verify, faults, whims,
                 history>>

\* signInWithPasskey: an account without a passkey is not found.
Login(h) ==
  /\ account[h].pc \in {"login", "login_new"}
  /\ IF CanSignIn(account[h].user) THEN SignedIn(h)
     ELSE page' = SignUp /\ Ends(h) /\ UNCHANGED session
  /\ UNCHANGED <<passkey, row, enrolled, open, handoff, store, link, verify, faults, whims,
                 history>>

\* GET /pramaan/v2/identity/me: the identity of whose session this is, if any.
IdentityOfSession == IF session # None /\ row[session] # None THEN session ELSE None
UidOr(uid) == IF uid # None THEN uid ELSE IdentityOfSession

\* ensureIdentityContext.
Identity(h) ==
  /\ account[h].pc = "identity"
  /\ LET uid == UidOr(page.uid)
     IN  IF uid # None THEN page' = [page EXCEPT !.uid = uid] /\ Goes(h, "face")
         ELSE page' = SignUp /\ Ends(h)
  /\ UNCHANGED <<server, store, link, verify, faults, whims, history>>

\* startV2Enrollment, and the page no longer signs up.
StartEnrollment(h) ==
  /\ account[h].pc = "start"
  /\ IF session = None
     THEN page' = Failed /\ Ends(h) /\ UNCHANGED open
     ELSE /\ open' = open \cup {session}
          /\ page' = [page EXCEPT !.draft = session, !.signup = FALSE]
          /\ Goes(h, "face")
  /\ UNCHANGED <<passkey, row, enrolled, session, handoff, store, link, verify, faults,
                 whims, history>>

\* The account is ready for the face, once the step is tracked.
ShowFace(h) ==
  /\ account[h].pc = "face" /\ Ends(h)
  /\ page' = [page EXCEPT !.panel = "face", !.error = FALSE]
  /\ UNCHANGED <<server, store, link, verify, faults, whims, history>>

\* A fetch fails before or after the route's work, or the passkey prompt is
\* cancelled; GET identity/me answering with an error counts as no identity.
AccountFails(h) ==
  LET at == account[h].pc
      u  == account[h].user
  IN
  /\ at \notin {"idle", "face"} /\ Fault
  /\ passkey' \in {passkey, IF at = "register" THEN passkey \cup {u} ELSE passkey}
  /\ session' \in {session, IF at \in {"login", "login_new"} /\ CanSignIn(u)
                            THEN u ELSE session}
  /\ page' = Failed \/ (at = "identity" /\ page.uid = None /\ page' = SignUp)
  /\ Ends(h)
  /\ UNCHANGED <<row, enrolled, open, handoff, store, link, verify, whims, history>>

-----------------------------------------------------------------------------
\* The button of the switch panel; the codes, the face and the challenge stay.
SwitchAccount(u) ==
  /\ page.panel = "switch_account"
  /\ Press(FALSE)
  /\ switched' = (switched \/ page.active \notin {u, None})
  /\ page' = [page EXCEPT !.active = u, !.uid = None, !.draft = None, !.proof = None,
                          !.known = None, !.panel = "account", !.error = FALSE]
  /\ UNCHANGED <<server, store, link, verify, account, faults, broken>>

\* Links and buttons that lead back or aside.
GoAside ==
  /\ Press(TRUE)
  /\ \/ /\ page.panel \in {"signup", "switch_account"}
        /\ page' = [page EXCEPT !.panel = "account"]
     \/ /\ page.panel = "account"
        /\ page' = [page EXCEPT !.panel = "switch_account"]
  /\ UNCHANGED <<server, store, link, verify, account, faults, switched, broken>>

-----------------------------------------------------------------------------
\* POST /auth/liveness/challenge is answered for a handoff that is pending.
ChallengeGiven == handoff = "pending"

\* startLiveness asks for a challenge, as often as the button is pressed.
StartLiveness ==
  /\ page.panel = "face"
  /\ Press(page.gestures)
  /\ page' = IF Known THEN [page EXCEPT !.asked = @ + 1, !.error = FALSE]
             ELSE [page EXCEPT !.panel = "account", !.error = TRUE]
  /\ UNCHANGED <<server, store, link, verify, account, faults, switched, broken>>

\* The answer, wherever the page has gone meanwhile: the challenge before, its result
\* and its proof are forgotten, and the camera runs again.
ChallengeComes ==
  /\ page.asked > 0
  /\ page' = IF ChallengeGiven
             THEN [page EXCEPT !.asked = @ - 1, !.live = "pending", !.gestures = TRUE,
                               !.camera = TRUE, !.result = FALSE, !.proof = None,
                               !.error = FALSE,
                               !.late = @ \/ verify.pc # "idle" \/ page.panel # "face"]
             ELSE [GaveUp EXCEPT !.asked = @ - 1]
  /\ UNCHANGED <<server, store, link, verify, account, faults, whims, history>>

\* The request or its answer is lost.
ChallengeFails ==
  /\ page.asked > 0 /\ Fault
  /\ page' = [GaveUp EXCEPT !.asked = @ - 1]
  /\ UNCHANGED <<server, store, link, verify, account, whims, history>>

\* LIVENESS_TTL_SECONDS pass: the challenge is gone, whether it was verified or not.
ChallengeExpires ==
  /\ page.live \notin {None, "expired"} /\ Fault
  /\ page' = [page EXCEPT !.live = "expired"]
  /\ UNCHANGED <<server, store, link, verify, account, whims, history>>

\* recordAction for the last gesture, seen by the camera behind whatever panel or
\* confirmed on the face's own: verifyLiveness starts unless it is running.
Gesture ==
  /\ page.gestures /\ (page.camera \/ page.panel = "face")
  /\ crossed' = (crossed \/ Busy)
  /\ IF verify.pc = "idle"
     THEN /\ verify' = [Idle EXCEPT !.pc = "capture"]
          /\ page' = [page EXCEPT !.gestures = FALSE, !.error = FALSE]
     ELSE page' = [page EXCEPT !.gestures = FALSE] /\ UNCHANGED verify
  /\ UNCHANGED <<server, store, link, account, faults, whims, switched, broken>>

Enrolling == page.signup \/ page.draft # None

Capture ==
  /\ verify.pc = "capture"
  /\ page' = [page EXCEPT !.face = NewHash, !.released = None]
  /\ verify' = [verify EXCEPT !.pc = "liveness"]
  /\ UNCHANGED <<server, store, link, account, faults, whims, history>>

\* No face is found in three samples: an error, but not when enrolling.
CaptureFails ==
  /\ verify.pc = "capture" /\ Fault
  /\ \/ /\ Enrolling
        /\ page' = [page EXCEPT !.face = None, !.released = None]
        /\ verify' = [verify EXCEPT !.pc = "liveness"]
     \/ /\ ~Enrolling
        /\ page' = [GaveUp EXCEPT !.face = None, !.released = None]
        /\ verify' = Idle
  /\ UNCHANGED <<server, store, link, account, whims, history>>

\* evaluateChallenge: the events hold all the gestures asked for, in their order.
AllGestures == ~page.gestures

\* verifyLivenessChallenge of the challenge the page holds now: with the events of
\* all its gestures it is verified, otherwise it failed; one that expired is not found.
VerifyLiveness ==
  /\ verify.pc = "liveness"
  /\ IF page.live = "expired" \/ ~AllGestures
     THEN /\ page' = [GaveUp EXCEPT !.live = IF @ = "expired" THEN @ ELSE "failed"]
          /\ verify' = Idle
     ELSE /\ page' = [page EXCEPT !.live = "verified", !.result = TRUE]
          /\ verify' = IF Enrolling
                       THEN [verify EXCEPT !.pc = "enroll", !.user = page.active,
                                           !.draft = page.draft]
                       ELSE [verify EXCEPT !.pc = "identity"]
  /\ UNCHANGED <<server, store, link, account, faults, whims, history>>

\* completeEnrollmentAfterLiveness without a draft asks for one first.
AskDraft ==
  /\ verify.pc = "enroll" /\ verify.draft = None
  /\ IF session = None
     THEN page' = GaveUp /\ verify' = Idle /\ UNCHANGED open
     ELSE /\ open' = open \cup {session}
          /\ page' = [page EXCEPT !.draft = session]
          /\ verify' = [verify EXCEPT !.draft = session]
  /\ UNCHANGED <<passkey, row, enrolled, session, handoff, store, link, account, faults,
                 whims, history>>

\* completeEnrollment of module Identity, seen from here: the row first, the flag
\* and the draft's end last.
FaceOr(h) == IF h = None THEN NoFace ELSE h
Acceptable == verify.draft \in open /\ verify.draft = session

\* IndexedDB may fail to keep a hash: logged, and gone on from.
Keeping(kept) ==
  \/ store' = kept /\ UNCHANGED faults
  \/ UNCHANGED store /\ Fault

Complete ==
  LET d == verify.draft IN
  /\ verify.pc = "enroll" /\ d # None /\ Acceptable
  /\ row' = [row EXCEPT ![d] = FaceOr(page.face)]
  /\ enrolled' = enrolled \cup {d} /\ open' = open \ {d}
  /\ IF page.face = None THEN UNCHANGED <<store, faults>>
     ELSE Keeping([store EXCEPT ![verify.user] = page.face])
  /\ page' = [page EXCEPT !.uid = d, !.draft = None, !.codes = d, !.shown = FALSE,
                          !.released = page.face]
  /\ verify' = [verify EXCEPT !.pc = "identity"]
  /\ UNCHANGED <<passkey, session, handoff, link, account, whims, history>>

\* A draft that is gone or another account's: the page keeps it all the same.
CompleteRefused ==
  /\ verify.pc = "enroll" /\ verify.draft # None /\ ~Acceptable
  /\ page' = GaveUp /\ verify' = Idle
  /\ UNCHANGED <<server, store, link, account, faults, whims, history>>

\* It fails after the row is written, or its answer is lost.
CompleteFails ==
  LET d == verify.draft IN
  /\ verify.pc = "enroll" /\ d # None /\ Acceptable /\ Fault
  /\ row' = [row EXCEPT ![d] = FaceOr(page.face)]
  /\ \/ /\ enrolled' = enrolled \cup {d} /\ open' = open \ {d}
        /\ UNCHANGED broken
     \/ /\ broken' = broken \cup ({d} \ enrolled)
        /\ UNCHANGED <<enrolled, open>>
  /\ page' = GaveUp /\ verify' = Idle
  /\ UNCHANGED <<passkey, session, handoff, store, link, account, whims, crossed, switched>>

\* The identity the proof is for, asked for if the page has none.
VerifyIdentity ==
  LET uid == UidOr(page.uid)
      own == ~Enrolling /\ page.face # None
  IN
  /\ verify.pc = "identity"
  /\ IF uid = None
     THEN page' = GaveUp /\ verify' = Idle
     ELSE /\ page' = [page EXCEPT !.uid = uid]
          /\ verify' = [verify EXCEPT !.pc = IF own THEN "match" ELSE "prove", !.user = uid]
  /\ UNCHANGED <<server, store, link, account, faults, whims, history>>

\* The hash kept on this device, whose descriptor the face matches.
MatchHere ==
  /\ verify.pc = "match" /\ store[page.active] # None
  /\ page' = [page EXCEPT !.released = store[page.active]]
  /\ verify' = [verify EXCEPT !.pc = "prove"]
  /\ UNCHANGED <<server, store, link, account, faults, whims, history>>

\* IndexedDB has none or fails, which is taken for none.
NoMatchHere ==
  /\ verify.pc = "match"
  /\ IF store[page.active] = None THEN UNCHANGED faults ELSE Fault
  /\ verify' = [verify EXCEPT !.pc = "match_at_server"]
  /\ UNCHANGED <<server, store, link, page, account, whims, history>>

\* verifyFaceDescriptor compares the descriptor kept with the account's own identity;
\* one enrolled without a face has none.
Comparable(u) == session # None /\ u = session /\ row[u] \notin {None, NoFace}

\* The server's descriptor is compared and its hash released to this device.
MatchAtServer ==
  LET u == verify.user IN
  /\ verify.pc = "match_at_server"
  /\ IF ~Comparable(u)
     THEN page' = GaveUp /\ verify' = Idle /\ UNCHANGED <<store, faults>>
     ELSE /\ page' = [page EXCEPT !.released = row[u]]
          /\ Keeping([store EXCEPT ![page.active] = row[u]])
          /\ verify' = [verify EXCEPT !.pc = "prove"]
  /\ UNCHANGED <<server, link, account, whims, history>>

\* submitProof: the hash released is the one enrolled, and the proof opens the
\* commitment made of it.  An identity enrolled without a face was committed to a
\* hash of its draft, which a later proof cannot open.
ProofAccepted(u) == page.face # None /\ page.released = row[u]

\* A mistake to be found: a proof that was refused leads on all the same.
ProveAnyway ==
  /\ verify.pc = "prove"
  /\ page' = IF ProofAccepted(verify.user) THEN [page EXCEPT !.proof = verify.user] ELSE page
  /\ verify' = [verify EXCEPT !.pc = "show"]
  /\ UNCHANGED <<server, store, link, account, faults, whims, history>>

\* runAuthenticationProof.
Prove ==
  /\ verify.pc = "prove"
  /\ IF ProofAccepted(verify.user)
     THEN /\ page' = [page EXCEPT !.proof = verify.user]
          /\ verify' = [verify EXCEPT !.pc = "show"]
     ELSE page' = GaveUp /\ verify' = Idle
  /\ UNCHANGED <<server, store, link, account, faults, whims, history>>

\* A mistake to be found: the codes are shown to who came to sign up only, a mode
\* that creating the account has left.
ShowSignupOnly ==
  LET show == page.signup /\ page.codes # None IN
  /\ verify.pc = "show"
  /\ page' = [page EXCEPT !.shown = @ \/ show, !.panel = IF show THEN "codes" ELSE "approve",
                          !.camera = FALSE, !.error = FALSE]
  /\ verify' = Idle
  /\ UNCHANGED <<server, store, link, account, faults, whims, history>>

\* The end of verifyLiveness, once the step is tracked: the codes, if there are any.
Show ==
  /\ verify.pc = "show"
  /\ page' = [page EXCEPT !.shown = @ \/ page.codes # None,
                          !.panel = IF page.codes = None THEN "approve" ELSE "codes",
                          !.camera = FALSE, !.error = FALSE]
  /\ verify' = Idle
  /\ UNCHANGED <<server, store, link, account, faults, whims, history>>

\* A fetch of verifyLiveness fails, a score is too low or a match fails.  The draft
\* asked for may exist.
VerifyFails ==
  /\ verify.pc \notin {"idle", "capture", "show"} /\ Fault
  /\ page' = GaveUp /\ verify' = Idle
  /\ UNCHANGED <<server, store, link, account, whims, history>>

\* ENROLLMENT_TTL_SECONDS pass.
DraftExpires(u) ==
  /\ u \in open /\ Fault
  /\ open' = open \ {u}
  /\ UNCHANGED <<passkey, row, enrolled, session, handoff, store, link, page, verify,
                 account, whims, history>>

-----------------------------------------------------------------------------
\* The codes are downloaded, which enables the button that leads on.
LeaveCodes ==
  /\ page.panel = "codes"
  /\ Press(FALSE)
  /\ page' = [page EXCEPT !.panel = "approve", !.error = FALSE]
  /\ UNCHANGED <<server, store, link, verify, account, faults, switched, broken>>

\* POST /auth/handoff/approve, and the phone is signed out.
ApproveOk ==
  /\ Known /\ page.live = "verified" /\ page.result
  /\ session # None /\ session \in enrolled /\ handoff = "pending"
  /\ RequireProof => page.proof # None
  /\ page.proof \in {session, None}

Approve ==
  /\ page.panel = "approve"
  /\ Press(page.error)
  /\ IF ApproveOk
     THEN /\ handoff' = session /\ session' = None
          /\ page' = [page EXCEPT !.panel = "done"]
     ELSE page' = Failed /\ UNCHANGED <<handoff, session>>
  /\ UNCHANGED <<passkey, row, enrolled, open, store, link, verify, account, faults,
                 switched, broken>>

\* The request or its answer is lost.
ApproveFails ==
  /\ page.panel = "approve" /\ Fault
  /\ \/ ApproveOk /\ handoff' = session /\ session' = None
     \/ UNCHANGED <<handoff, session>>
  /\ page' = Failed
  /\ UNCHANGED <<passkey, row, enrolled, open, store, link, verify, account, whims, history>>

Deny ==
  /\ page.panel = "approve"
  /\ Press(TRUE)
  /\ handoff' = IF handoff = "pending" THEN "denied" ELSE handoff
  /\ page' = [page EXCEPT !.panel = "done", !.camera = FALSE, !.error = FALSE]
  /\ UNCHANGED <<passkey, row, enrolled, session, open, store, link, verify, account, faults,
                 switched, broken>>

\* The page is loaded again: by a user who sees an error, or on a whim.
Reload ==
  /\ page.error
  /\ page' = Fresh(session) /\ verify' = Idle /\ account' = AllIdle
  /\ UNCHANGED <<server, store, link, faults, whims, history>>

ReloadOnAWhim ==
  /\ whims < MaxWhims /\ whims' = whims + 1
  /\ page' = Fresh(session) /\ verify' = Idle /\ account' = AllIdle
  /\ UNCHANGED <<server, store, link, faults, history>>

-----------------------------------------------------------------------------
AccountStep ==
  \E h \in Handlers :
    Register(h) \/ Login(h) \/ Identity(h) \/ StartEnrollment(h) \/ ShowFace(h)
VerifyStep ==
  \/ Capture \/ VerifyLiveness \/ AskDraft \/ Complete \/ CompleteRefused
  \/ VerifyIdentity \/ MatchHere \/ NoMatchHere \/ MatchAtServer \/ Prove \/ Show
Onward ==
  \/ PressContinue \/ PressCreate \/ StartLiveness \/ LeaveCodes \/ Approve
  \/ \E u \in Users : SwitchAccount(u)
Failing ==
  \/ \E h \in Handlers : AccountFails(h)
  \/ CaptureFails \/ CompleteFails \/ VerifyFails \/ ApproveFails
  \/ ChallengeFails \/ ChallengeExpires
  \/ \E u \in Users : DraftExpires(u)

Next ==
  \/ AccountStep \/ VerifyStep \/ ChallengeComes
  \/ Onward \/ Gesture \/ GoAside \/ Deny
  \/ Reload \/ ReloadOnAWhim \/ Failing

\* Handlers go on; the user presses the button the panel offers, makes the gestures
\* asked for, creates the account if it is asked to again and again, and reloads a
\* page that shows errors again and again.
Fairness ==
  /\ WF_vars(AccountStep) /\ WF_vars(VerifyStep) /\ WF_vars(ChallengeComes)
  /\ WF_vars(Gesture /\ page.panel = "face") /\ WF_vars(Onward /\ ~Busy)
  /\ SF_vars(PressCreate) /\ SF_vars(Reload)

Spec == Init /\ [][Next]_vars /\ Fairness

-----------------------------------------------------------------------------
\* Whatever failed on the way, the approve panel is only shown when pressing the
\* button works: signed in as the account on display, enrolled, a proof for that
\* account, the challenge verified, and not yet expired since.  Unless a button was
\* pressed or the last gesture made while a handler was in progress, or the account's
\* enrollment stopped half way.
PanelTellsTruth ==
  page.panel = "approve" /\ ~crossed /\ handoff = "pending" =>
    /\ session = page.active /\ page.known = page.active /\ page.active \in enrolled \cup broken
    /\ page.live \in {"verified", "expired"} /\ page.result
    /\ page.proof = page.active

\* The codes an enrollment answered with are shown before the approval, whatever
\* handlers overlap, unless a challenge came while a face was verified or after the page
\* had moved on.  They are shown under the account they are for, unless the user went on
\* with another.
CodesBeforeApproval ==
  /\ page.panel \in {"codes", "approve"} /\ page.codes # None => page.shown \/ page.late
  /\ page.panel = "codes" => page.codes = page.active \/ switched

\* An account whose identity, if it has one, has a face, is marked enrolled and is
\* the one whose hash is kept here, if any is.
Fits(u) ==
  /\ row[u] # NoFace /\ store[u] \in {None, row[u]}
  /\ row[u] # None => u \in enrolled

\* The user who goes on comes to an end, approved or denied, whatever failed, was
\* repeated or expired, unless an enrollment was left half done, without a face, or
\* with a hash that this device does not have.
ReachesEnd == <>(page.panel = "done" \/ \E u \in Users : ~Fits(u))

-----------------------------------------------------------------------------
(* The inductive invariant.                                                 *)

UserOrNone == Users \cup {None}
PageState ==
  [panel : {"done", "switch_account", "signup", "account", "face", "codes", "approve"},
   active : UserOrNone, known : UserOrNone, uid : UserOrNone, draft : UserOrNone,
   signup : BOOLEAN, face : Hashes \cup {None}, released : Hashes \cup {NoFace, None},
   asked : Nat, gestures : BOOLEAN, camera : BOOLEAN,
   live : {None, "pending", "failed", "verified", "expired"}, result : BOOLEAN,
   proof : UserOrNone, codes : UserOrNone, shown : BOOLEAN, error : BOOLEAN, late : BOOLEAN]
VerifyState ==
  [pc : {"idle", "capture", "liveness", "enroll", "identity", "match", "match_at_server",
         "prove", "show"},
   user : UserOrNone, draft : UserOrNone]
AccountState ==
  [pc : {"idle", "register", "login", "login_new", "identity", "start", "face"},
   user : UserOrNone, draft : UserOrNone]

TypeOK ==
  /\ passkey \subseteq Users /\ enrolled \subseteq Users /\ open \subseteq Users
  /\ row \in [Users -> Hashes \cup {NoFace, None}] /\ session \in UserOrNone
  /\ handoff \in Users \cup {"pending", "denied"}
  /\ store \in [Users -> Hashes \cup {NoFace, None}]
  /\ hint \in UserOrNone /\ mode \in {"signin", "signup"}
  /\ page \in PageState /\ verify \in VerifyState
  /\ account \in [Handlers -> AccountState]
  /\ faults \in 0..MaxFaults /\ whims \in 0..MaxWhims
  /\ crossed \in BOOLEAN /\ switched \in BOOLEAN /\ broken \subseteq Users

RowsAreEnrolled == \A u \in Users : row[u] # None => u \in enrolled \cup broken

\* The challenge the page holds was verified, and may have expired since.
Verified == page.live \in {"verified", "expired"} /\ page.result
Proved == page.proof = page.active /\ page.active # None /\ row[page.active] # None

\* Nothing was pressed during a handler, and there is something left to approve.
Calm == ~crossed /\ handoff = "pending"

\* What a handler that runs alone may still assume of the page after each await.
CalmAccount ==
  Calm => \A h \in Handlers : account[h].pc # "idle" =>
    /\ verify.pc = "idle" /\ page.asked = 0 /\ page.panel \in {"account", "signup"}
    /\ \A g \in Handlers : g # h => account[g].pc = "idle"
    /\ account[h].user = page.active
    /\ account[h].pc \in {"identity", "start", "face"} => Known
CalmVerify ==
  Calm /\ verify.pc # "idle" =>
    /\ page.panel = "face" /\ page.asked = 0 /\ ~page.gestures
    /\ verify.pc \in {"enroll", "identity", "match", "match_at_server", "prove", "show"} =>
         Verified
    /\ verify.pc \in {"match", "match_at_server", "prove", "show"} =>
         verify.user = page.active /\ row[page.active] # None
    /\ verify.pc = "show" => Proved

\* What the page holds is of the account it shows, which is the one signed in, and it
\* waits for a challenge or for gestures where it asks for them only.
CalmPage ==
  Calm =>
    /\ Known => session = page.active
    /\ page.uid # None => Known /\ page.uid = page.active /\ row[page.active] # None
    /\ page.panel \in {"face", "codes", "approve"} => Known
    /\ page.panel \in {"codes", "approve"} => Verified /\ Proved
    /\ page.asked > 0 \/ page.gestures => page.panel = "face"

\* A panel that needs an account, and any handler, has one.
SomeoneActive ==
  /\ \/ page.panel \notin {"done", "switch_account", "account"}
     \/ (\E h \in Handlers : account[h].pc # "idle")
     \/ verify.pc # "idle" \/ page.gestures \/ page.asked > 0
     => page.active # None
  /\ \A h \in Handlers : account[h].pc # "idle" => account[h].user # None

\* Until the user goes on with another account, there is only one.
OneAccount ==
  ~switched =>
    /\ session \in {None, page.active}
    /\ hint # None => page.active = hint
    /\ \A h \in Handlers : account[h].pc # "idle" => account[h].user = page.active
    /\ page.codes \in {None, page.active}

\* Unless a challenge came late, no face is verified while the codes or the button to
\* approve are shown, and none will be.
CodesWait ==
  ~page.late =>
    /\ verify.pc # "idle" => page.panel \notin {"codes", "approve"} /\ ~page.gestures
    /\ page.gestures => page.panel \notin {"codes", "approve"}

IInv ==
  /\ TypeOK /\ RowsAreEnrolled
  /\ CalmAccount /\ CalmVerify /\ CalmPage
  /\ SomeoneActive /\ OneAccount /\ CodesWait
  /\ PanelTellsTruth /\ CodesBeforeApproval
=============================================================================
