--------------------------- MODULE PhonePageProofs ---------------------------
(***************************************************************************)
(* Proofs about PhonePage, for any accounts, failures and presses: the panel *)
(* that offers to approve tells the truth, and codes are seen before it.     *)
(***************************************************************************)
EXTENDS PhonePage, TLAPS, FiniteSetTheorems

LEMMA Apart ==
  /\ None \notin Users /\ None \notin Hashes /\ None # NoFace
  /\ "pending" \notin Users /\ "denied" \notin Users /\ Elsewhere \subseteq Users
BY PhonePageAssumption

\* What a function keeps of each account is no more than there are accounts.
LEMMA OneEach ==
  ASSUME IsFiniteSet(Users), NEW S, NEW f \in [Users -> S]
  PROVE  LET kept == {f[u] : u \in Users}
         IN  IsFiniteSet(kept) /\ Cardinality(kept) \in Nat
             /\ Cardinality(kept) <= Cardinality(Users)
<1> DEFINE kept == {f[u] : u \in Users}
<1>1. f \in [Users -> kept] /\ \A k \in kept : \E u \in Users : f[u] = k
  OBVIOUS
<1>2. f \in Surjection(Users, kept)
  BY <1>1 DEF Surjection
<1> HIDE DEF kept
<1>3. IsFiniteSet(kept) /\ Cardinality(kept) <= Cardinality(Users)
  BY <1>2, FS_Surjection
<1> QED
  BY <1>3, FS_CardinalityType DEF kept

LEMMA UnionBound ==
  ASSUME NEW S, NEW T, IsFiniteSet(S), IsFiniteSet(T)
  PROVE  /\ IsFiniteSet(S \cup T) /\ Cardinality(S \cup T) \in Nat
         /\ Cardinality(S) \in Nat /\ Cardinality(T) \in Nat
         /\ Cardinality(S \cup T) <= Cardinality(S) + Cardinality(T)
<1>1. IsFiniteSet(S \cup T) /\ IsFiniteSet(S \cap T)
      /\ Cardinality(S \cup T) = Cardinality(S) + Cardinality(T) - Cardinality(S \cap T)
  BY FS_Union, FS_Intersection
<1>2. /\ Cardinality(S) \in Nat /\ Cardinality(T) \in Nat
      /\ Cardinality(S \cup T) \in Nat /\ Cardinality(S \cap T) \in Nat
  BY <1>1, FS_CardinalityType
<1> QED
  BY <1>1, <1>2

\* There is always a capture that is in no row, not kept here and not held by the page.
LEMMA NewHashTyped ==
  ASSUME TypeOK PROVE NewHash \in Hashes
<1> DEFINE n == Cardinality(Users)
           rows == {row[u] : u \in Users}
           kept == {store[u] : u \in Users}
<1>1. IsFiniteSet(Users) /\ n \in Nat
  BY PhonePageAssumption, FS_CardinalityType
<1>2. IsFiniteSet(rows) /\ Cardinality(rows) \in Nat /\ Cardinality(rows) <= n
  BY <1>1, OneEach DEF TypeOK
<1>3. IsFiniteSet(kept) /\ Cardinality(kept) \in Nat /\ Cardinality(kept) <= n
  BY <1>1, OneEach DEF TypeOK
<1>4. IsFiniteSet({page.face}) /\ Cardinality({page.face}) = 1
  BY FS_Singleton
<1> HIDE DEF n, rows, kept
<1>5. IsFiniteSet(rows \cup kept) /\ Cardinality(rows \cup kept) <= n + n
  BY <1>1, <1>2, <1>3, UnionBound
<1>6. /\ IsFiniteSet((rows \cup kept) \cup {page.face})
      /\ Cardinality((rows \cup kept) \cup {page.face}) \in Nat
      /\ Cardinality((rows \cup kept) \cup {page.face}) <= n + n + 1
  BY <1>1, <1>4, <1>5, UnionBound
<1>7. InUse = (rows \cup kept) \cup {page.face}
  BY DEF InUse, rows, kept
<1>8. IsFiniteSet(Hashes) /\ Cardinality(Hashes) = 2 * n + 2
  BY <1>1, FS_Interval DEF Hashes, n
<1>9. ~(Hashes \subseteq InUse)
  BY <1>1, <1>6, <1>7, <1>8, FS_Subset
<1> QED
  BY <1>9 DEF NewHash

-----------------------------------------------------------------------------
LEMMA IdleTyped ==
  /\ Idle \in VerifyState /\ Idle \in AccountState /\ Idle.pc = "idle"
  /\ AllIdle \in [Handlers -> AccountState]
  /\ \A h \in Handlers : AllIdle[h].pc = "idle"
BY DEF Idle, AllIdle, VerifyState, AccountState, UserOrNone

\* The rest of the invariant says more than the property.
LEMMA Truth ==
  ASSUME TypeOK', RowsAreEnrolled', CalmPage' PROVE PanelTellsTruth'
BY DEF TypeOK, RowsAreEnrolled, CalmPage, PanelTellsTruth, Calm, Known, Verified, Proved,
   PageState, UserOrNone

LEMMA Assemble ==
  ASSUME TypeOK', RowsAreEnrolled', CalmAccount', CalmVerify', CalmPage', SomeoneActive',
         OneAccount', CodesWait', CodesBeforeApproval'
  PROVE  IInv'
BY Truth DEF IInv

\* The account on display, its codes and what the page waits for stay as they are, ...
Frame ==
  /\ page'.active = page.active /\ page'.codes = page.codes /\ page'.shown = page.shown
  /\ page'.asked = page.asked /\ page'.gestures = page.gestures /\ page'.late = page.late

\* ... and so does what the approval needs.
Unseen ==
  /\ Frame
  /\ page'.known = page.known /\ page'.uid = page.uid /\ page'.proof = page.proof
  /\ Verified => Verified'

RowsStay ==
  /\ \A u \in Users : row[u] # None => row'[u] # None
  /\ \A u \in Users : row'[u] # None => row[u] # None \/ u \in enrolled' \cup broken'
  /\ enrolled \subseteq enrolled' /\ broken \subseteq broken'

LEMMA RowsKeep == RowsAreEnrolled /\ RowsStay => RowsAreEnrolled'
BY DEF RowsAreEnrolled, RowsStay

\* A handler stops, or goes on without promising more than before.
AccountGoesOn ==
  \A h \in Handlers :
    \/ account'[h].pc = "idle"
    \/ /\ account[h].pc # "idle" /\ account'[h].user = account[h].user
       /\ account'[h].pc \in {"identity", "start", "face"} =>
            account[h].pc \in {"identity", "start", "face"}
VerifyGoesOn ==
  \/ verify'.pc = "idle"
  \/ /\ verify.pc # "idle" /\ verify'.user = verify.user
     /\ \A S \in {{"enroll", "identity", "match", "match_at_server", "prove", "show"},
                  {"match", "match_at_server", "prove", "show"}, {"show"}} :
          verify'.pc \in S => verify.pc \in S

LEMMA AccountStays == account' = account => AccountGoesOn
BY DEF AccountGoesOn

\* A step that nobody sees but its handler.
LEMMA QuietKeeps ==
  ASSUME IInv, TypeOK', Unseen, page'.panel = page.panel, RowsStay,
         session' = session, handoff' = handoff, hint' = hint, switched' = switched,
         crossed => crossed', AccountGoesOn, VerifyGoesOn
  PROVE  IInv'
<1>1. Calm' => Calm
  BY DEF IInv, TypeOK, Calm
<1>2. (Known' <=> Known) /\ (Verified => Verified')
  BY DEF Unseen, Frame, Known
<1>3. page.active \in UserOrNone /\ page.uid \in UserOrNone
  BY DEF IInv, TypeOK, PageState
<1>4. RowsAreEnrolled'
  BY RowsKeep DEF IInv
<1>5. Proved => Proved'
  BY <1>3 DEF Unseen, Frame, Proved, RowsStay, UserOrNone
<1>6. CalmAccount'
  <2> SUFFICES ASSUME Calm', NEW h \in Handlers, account'[h].pc # "idle"
               PROVE  /\ verify'.pc = "idle" /\ page'.asked = 0
                      /\ page'.panel \in {"account", "signup"}
                      /\ \A g \in Handlers : g # h => account'[g].pc = "idle"
                      /\ account'[h].user = page'.active
                      /\ account'[h].pc \in {"identity", "start", "face"} => Known'
    BY DEF CalmAccount
  <2>1. /\ account[h].pc # "idle" /\ account'[h].user = account[h].user
        /\ account'[h].pc \in {"identity", "start", "face"} =>
             account[h].pc \in {"identity", "start", "face"}
    BY DEF AccountGoesOn
  <2>2. /\ verify.pc = "idle" /\ page.asked = 0 /\ page.panel \in {"account", "signup"}
        /\ \A g \in Handlers : g # h => account[g].pc = "idle"
        /\ account[h].user = page.active
        /\ account[h].pc \in {"identity", "start", "face"} => Known
    BY <1>1, <2>1 DEF IInv, CalmAccount
  <2>3. verify'.pc = "idle" /\ \A g \in Handlers : g # h => account'[g].pc = "idle"
    BY <2>2 DEF AccountGoesOn, VerifyGoesOn
  <2> QED
    BY <1>2, <2>1, <2>2, <2>3 DEF Unseen, Frame
<1>7. CalmVerify'
  <2> SUFFICES ASSUME Calm', verify'.pc # "idle"
               PROVE  /\ page'.panel = "face" /\ page'.asked = 0 /\ ~page'.gestures
                      /\ verify'.pc \in {"enroll", "identity", "match", "match_at_server",
                                         "prove", "show"} => Verified'
                      /\ verify'.pc \in {"match", "match_at_server", "prove", "show"} =>
                           verify'.user = page'.active /\ row'[page'.active] # None
                      /\ verify'.pc = "show" => Proved'
    BY DEF CalmVerify
  <2>1. verify.pc # "idle" /\ verify'.user = verify.user
    BY DEF VerifyGoesOn
  <2>2. page.panel = "face" /\ page.asked = 0 /\ ~page.gestures
    BY <1>1, <2>1 DEF IInv, CalmVerify
  <2>3. ASSUME verify'.pc \in {"enroll", "identity", "match", "match_at_server", "prove",
                               "show"}
        PROVE  Verified'
    BY <1>1, <1>2, <2>1, <2>3 DEF IInv, CalmVerify, VerifyGoesOn
  <2>4. ASSUME verify'.pc \in {"match", "match_at_server", "prove", "show"}
        PROVE  verify'.user = page'.active /\ row'[page'.active] # None
    <3>1. verify.user = page.active /\ row[page.active] # None
      BY <1>1, <2>1, <2>4 DEF IInv, CalmVerify, VerifyGoesOn
    <3>2. page.active \in Users
      <4>1. page.active # None
        BY <2>1 DEF IInv, SomeoneActive
      <4> QED
        BY <1>3, <4>1 DEF UserOrNone
    <3> QED
      BY <2>1, <3>1, <3>2 DEF RowsStay, Unseen, Frame
  <2>5. ASSUME verify'.pc = "show" PROVE Proved'
    <3>1. verify.pc \in {"show"}
      BY <2>1, <2>5 DEF VerifyGoesOn
    <3> QED
      BY <1>1, <1>5, <3>1 DEF IInv, CalmVerify
  <2> QED
    BY <2>2, <2>3, <2>4, <2>5 DEF Unseen, Frame
<1>8. CalmPage'
  <2>1. Calm /\ page.uid # None => row'[page.active] # None
    BY <1>3 DEF IInv, CalmPage, RowsStay, UserOrNone
  <2> QED
    BY <1>1, <1>2, <1>5, <2>1 DEF IInv, CalmPage, Unseen, Frame
<1>9. SomeoneActive' /\ CodesWait'
  BY DEF IInv, SomeoneActive, CodesWait, Unseen, Frame, AccountGoesOn, VerifyGoesOn
<1>10. OneAccount'
  BY DEF IInv, OneAccount, Unseen, Frame, AccountGoesOn
<1>11. CodesBeforeApproval'
  BY DEF IInv, CodesBeforeApproval, Unseen, Frame
<1> QED
  BY <1>4, <1>6, <1>7, <1>8, <1>9, <1>10, <1>11, Assemble

-----------------------------------------------------------------------------
(* What a handler of the account's buttons does to its own state.           *)

LEMMA GoesEffect ==
  ASSUME TypeOK, NEW h \in Handlers,
         NEW pc \in {"register", "login", "login_new", "identity", "start", "face"}, Goes(h, pc)
  PROVE  /\ account' \in [Handlers -> AccountState]
         /\ account'[h].pc = pc /\ account'[h].user = account[h].user
         /\ \A g \in Handlers : g # h => account'[g] = account[g]
BY DEF TypeOK, Goes, AccountState

LEMMA EndsEffect ==
  ASSUME TypeOK, NEW h \in Handlers, Ends(h)
  PROVE  /\ account' \in [Handlers -> AccountState] /\ account'[h].pc = "idle"
         /\ \A g \in Handlers : g # h => account'[g] = account[g]
         /\ AccountGoesOn
<1>1. /\ account' \in [Handlers -> AccountState] /\ account'[h].pc = "idle"
      /\ \A g \in Handlers : g # h => account'[g] = account[g]
  BY IdleTyped DEF TypeOK, Ends
<1>2. AccountGoesOn
  <2> SUFFICES ASSUME NEW g \in Handlers, account'[g].pc # "idle"
               PROVE  /\ account[g].pc # "idle" /\ account'[g].user = account[g].user
                      /\ account'[g].pc \in {"identity", "start", "face"} =>
                           account[g].pc \in {"identity", "start", "face"}
    BY DEF AccountGoesOn
  <2> QED
    BY <1>1
<1> QED
  BY <1>1, <1>2

-----------------------------------------------------------------------------
(* The steps of a handler that the page does not notice, or only as an error. *)

LEMMA Fields ==
  ASSUME TypeOK
  PROVE  /\ \A h \in Handlers : account[h].user \in UserOrNone
         /\ verify.user \in UserOrNone
         /\ verify.draft \in UserOrNone /\ page.active \in UserOrNone
         /\ page.known \in UserOrNone /\ page.uid \in UserOrNone
         /\ page.draft \in UserOrNone /\ None \in UserOrNone /\ Users \subseteq UserOrNone
         /\ page.codes \in UserOrNone
         /\ page.shown \in BOOLEAN /\ page.signup \in BOOLEAN /\ page.gestures \in BOOLEAN
         /\ page.late \in BOOLEAN /\ page.asked \in Nat
BY DEF TypeOK, AccountState, VerifyState, PageState, UserOrNone

LEMMA FailedEffect ==
  ASSUME TypeOK, page' = Failed \/ page' = GaveUp
  PROVE  page' \in PageState /\ Unseen /\ page'.panel = page.panel
<1>1. CASE page' = Failed
  BY <1>1 DEF TypeOK, Failed, PageState, Unseen, Frame, Verified
<1>2. CASE page' = GaveUp
  BY <1>2 DEF TypeOK, Failed, GaveUp, PageState, Unseen, Frame, Verified
<1> QED
  BY <1>1, <1>2

LEMMA FaultTyped ==
  ASSUME TypeOK, Fault PROVE faults' \in 0..MaxFaults
BY PhonePageAssumption DEF TypeOK, Fault

LEMMA RowsUnchanged ==
  ASSUME row' = row, enrolled' = enrolled, broken' = broken PROVE RowsStay
BY DEF RowsStay

LEMMA VerifyStops ==
  ASSUME IInv, page' = GaveUp, verify' = Idle, TypeOK', RowsStay,
         UNCHANGED <<session, handoff, hint, switched, crossed, account>>
  PROVE  IInv'
<1>1. Unseen /\ page'.panel = page.panel
  BY FailedEffect DEF IInv
<1>2. AccountGoesOn /\ VerifyGoesOn
  BY IdleTyped, AccountStays DEF VerifyGoesOn
<1> QED
  BY <1>1, <1>2, QuietKeeps

LEMMA RegisterKeeps == ASSUME IInv, NEW h \in Handlers, Register(h) PROVE IInv'
<1>1. TypeOK /\ account[h].pc = "register" /\ Goes(h, "login_new")
  BY DEF IInv, Register
<1>2. /\ account' \in [Handlers -> AccountState] /\ account'[h].pc = "login_new"
      /\ account'[h].user = account[h].user
      /\ \A g \in Handlers : g # h => account'[g] = account[g]
  BY <1>1, GoesEffect
<1>3. account[h].user \in Users
  BY <1>1, Fields DEF IInv, SomeoneActive, UserOrNone
<1>4. TypeOK'
  BY <1>1, <1>2, <1>3 DEF Register, TypeOK, link, history
<1>5. Unseen /\ RowsStay /\ VerifyGoesOn
  BY <1>1 DEF Register, Unseen, Frame, Verified, RowsStay, VerifyGoesOn, history
<1>6. AccountGoesOn
  BY <1>1, <1>2 DEF AccountGoesOn
<1> QED
  BY <1>4, <1>5, <1>6, QuietKeeps DEF Register, history, link

LEMMA CaptureKeeps == ASSUME IInv, Capture PROVE IInv'
<1>1. /\ TypeOK /\ verify.pc = "capture" /\ NewHash \in Hashes
      /\ page' = [page EXCEPT !.face = NewHash, !.released = None]
      /\ verify' = [verify EXCEPT !.pc = "liveness"]
      /\ UNCHANGED <<server, store, link, account, faults, whims, history>>
  BY NewHashTyped DEF IInv, Capture
<1>2. /\ verify' \in VerifyState /\ verify'.pc = "liveness" /\ verify'.user = verify.user
  BY <1>1 DEF TypeOK, VerifyState
<1>3. page' \in PageState /\ Unseen /\ page'.panel = page.panel
  BY <1>1 DEF TypeOK, PageState, Unseen, Frame, Verified
<1>4. TypeOK'
  BY <1>1, <1>2, <1>3 DEF TypeOK, server, link, history
<1>5. RowsStay /\ AccountGoesOn /\ VerifyGoesOn
  BY AccountStays, <1>1, <1>2 DEF RowsStay, VerifyGoesOn, server, history
<1> QED
  BY <1>1, <1>3, <1>4, <1>5, QuietKeeps DEF server, link, history

LEMMA CaptureFailsKeeps == ASSUME IInv, CaptureFails PROVE IInv'
<1>1. /\ TypeOK /\ verify.pc = "capture" /\ faults' \in 0..MaxFaults
      /\ UNCHANGED <<server, store, link, account, whims, history>>
  BY FaultTyped DEF IInv, CaptureFails
<1>2. \/ /\ page' = [page EXCEPT !.face = None, !.released = None]
         /\ verify' = [verify EXCEPT !.pc = "liveness"]
      \/ /\ page' = [GaveUp EXCEPT !.face = None, !.released = None]
         /\ verify' = Idle
  BY DEF CaptureFails
<1>3. /\ verify' \in VerifyState
      /\ verify'.pc = "idle" \/ (verify'.pc = "liveness" /\ verify'.user = verify.user)
  BY <1>1, <1>2, IdleTyped DEF TypeOK, VerifyState
<1>4. page' \in PageState /\ Unseen /\ page'.panel = page.panel
  <2>1. CASE page' = [page EXCEPT !.face = None, !.released = None]
    BY <1>1, <2>1 DEF TypeOK, PageState, Unseen, Frame, Verified
  <2>2. CASE page' = [GaveUp EXCEPT !.face = None, !.released = None]
    BY <1>1, <2>2 DEF TypeOK, PageState, Failed, GaveUp, Unseen, Frame, Verified
  <2> QED
    BY <1>2, <2>1, <2>2
<1>5. TypeOK'
  BY <1>1, <1>3, <1>4 DEF TypeOK, server, link, history
<1>6. RowsStay /\ AccountGoesOn /\ VerifyGoesOn
  BY AccountStays, <1>1, <1>3 DEF RowsStay, VerifyGoesOn, server, history
<1> QED
  BY <1>1, <1>4, <1>5, <1>6, QuietKeeps DEF server, link, history

LEMMA AskDraftKeeps == ASSUME IInv, AskDraft PROVE IInv'
<1>1. /\ TypeOK /\ verify.pc = "enroll"
      /\ UNCHANGED <<passkey, row, enrolled, session, handoff, store, link, account,
                     faults, whims, history>>
  BY DEF IInv, AskDraft
<1>2. RowsStay
  BY <1>1 DEF RowsStay, history
<1>3. CASE page' = GaveUp /\ verify' = Idle /\ UNCHANGED open
  <2>1. TypeOK'
    BY <1>1, <1>3, FailedEffect, IdleTyped DEF TypeOK, link, history
  <2> QED
    BY <1>1, <1>2, <1>3, <2>1, VerifyStops DEF link, history
<1>4. CASE /\ session # None /\ open' = open \cup {session}
           /\ page' = [page EXCEPT !.draft = session]
           /\ verify' = [verify EXCEPT !.draft = session]
  <2>1. session \in Users
    BY <1>1, <1>4 DEF TypeOK, UserOrNone
  <2>2. /\ verify' \in VerifyState /\ verify'.pc = verify.pc /\ verify'.user = verify.user
        /\ page' \in PageState /\ Unseen /\ page'.panel = page.panel
    BY <1>1, <1>4, <2>1, Fields DEF TypeOK, VerifyState, PageState, Unseen, Frame, Verified
  <2>3. TypeOK'
    BY <1>1, <1>4, <2>1, <2>2 DEF TypeOK, link, history
  <2>4. AccountGoesOn /\ VerifyGoesOn
    BY AccountStays, <1>1, <2>2 DEF VerifyGoesOn
  <2> QED
    BY <1>1, <1>2, <2>2, <2>3, <2>4, QuietKeeps DEF link, history
<1> QED
  BY <1>3, <1>4 DEF AskDraft

LEMMA CompleteRefusedKeeps == ASSUME IInv, CompleteRefused PROVE IInv'
<1>1. /\ TypeOK /\ page' = GaveUp /\ verify' = Idle
      /\ UNCHANGED <<server, store, link, account, faults, whims, history>>
  BY DEF IInv, CompleteRefused
<1>2. TypeOK' /\ RowsStay
  BY <1>1, FailedEffect, IdleTyped DEF TypeOK, RowsStay, server, link, history
<1> QED
  BY <1>1, <1>2, VerifyStops DEF server, link, history

LEMMA VerifyFailsKeeps == ASSUME IInv, VerifyFails PROVE IInv'
<1>1. /\ TypeOK /\ page' = GaveUp /\ verify' = Idle /\ faults' \in 0..MaxFaults
      /\ UNCHANGED <<server, store, link, account, whims, history>>
  BY FaultTyped DEF IInv, VerifyFails
<1>2. TypeOK' /\ RowsStay
  BY <1>1, FailedEffect, IdleTyped DEF TypeOK, RowsStay, server, link, history
<1> QED
  BY <1>1, <1>2, VerifyStops DEF server, link, history

LEMMA DraftTyped ==
  ASSUME TypeOK, verify.draft # None PROVE verify.draft \in Users
BY Fields DEF UserOrNone

LEMMA CompleteFailsKeeps == ASSUME IInv, CompleteFails PROVE IInv'
<1> PICK d \in Users : d = verify.draft
  BY DraftTyped DEF IInv, CompleteFails
<1>1. /\ TypeOK /\ page' = GaveUp /\ verify' = Idle /\ faults' \in 0..MaxFaults
      /\ row' = [row EXCEPT ![d] = FaceOr(page.face)]
      /\ UNCHANGED <<passkey, session, handoff, store, link, account, whims, crossed,
                     switched>>
  BY FaultTyped DEF IInv, CompleteFails
<1>2. \/ enrolled' = enrolled \cup {d} /\ open' = open \ {d} /\ broken' = broken
      \/ broken' = broken \cup ({d} \ enrolled) /\ enrolled' = enrolled /\ open' = open
  BY DEF CompleteFails
<1>3. FaceOr(page.face) \in Hashes \cup {NoFace} /\ FaceOr(page.face) # None
  BY <1>1, Apart DEF TypeOK, PageState, FaceOr
<1>4. RowsStay
  BY <1>1, <1>2, <1>3 DEF RowsStay, TypeOK
<1>5. TypeOK'
  BY <1>1, <1>2, <1>3, FailedEffect, IdleTyped DEF TypeOK, link
<1> QED
  BY <1>1, <1>4, <1>5, VerifyStops DEF link

LEMMA MatchHereKeeps == ASSUME IInv, MatchHere PROVE IInv'
<1>1. /\ TypeOK /\ verify.pc = "match" /\ page.active \in Users
      /\ page' = [page EXCEPT !.released = store[page.active]]
      /\ verify' = [verify EXCEPT !.pc = "prove"]
      /\ UNCHANGED <<server, store, link, account, faults, whims, history>>
  BY Fields DEF IInv, MatchHere, SomeoneActive, UserOrNone
<1>2. /\ verify' \in VerifyState /\ verify'.pc = "prove" /\ verify'.user = verify.user
      /\ page' \in PageState /\ Unseen /\ page'.panel = page.panel
  BY <1>1 DEF TypeOK, VerifyState, PageState, Unseen, Frame, Verified
<1>3. TypeOK' /\ RowsStay
  BY <1>1, <1>2 DEF TypeOK, RowsStay, server, link, history
<1>4. AccountGoesOn /\ VerifyGoesOn
  BY AccountStays, <1>1, <1>2 DEF VerifyGoesOn
<1> QED
  BY <1>1, <1>2, <1>3, <1>4, QuietKeeps DEF server, link, history

LEMMA NoMatchHereKeeps == ASSUME IInv, NoMatchHere PROVE IInv'
<1>1. /\ TypeOK /\ verify.pc = "match" /\ faults' \in 0..MaxFaults
      /\ verify' = [verify EXCEPT !.pc = "match_at_server"]
      /\ UNCHANGED <<server, store, link, page, account, whims, history>>
  <2>1. faults' \in 0..MaxFaults
    BY FaultTyped DEF IInv, TypeOK, NoMatchHere
  <2> QED
    BY <2>1 DEF IInv, NoMatchHere
<1>2. /\ verify' \in VerifyState /\ verify'.pc = "match_at_server"
      /\ verify'.user = verify.user
  BY <1>1 DEF TypeOK, VerifyState
<1>3. TypeOK' /\ RowsStay /\ Unseen
  BY <1>1, <1>2 DEF TypeOK, RowsStay, Unseen, Frame, Verified, server, link, history
<1>4. AccountGoesOn /\ VerifyGoesOn
  BY AccountStays, <1>1, <1>2 DEF VerifyGoesOn
<1> QED
  BY <1>1, <1>2, <1>3, <1>4, QuietKeeps DEF server, link, history

LEMMA KeepingTyped ==
  ASSUME TypeOK, NEW kept \in [Users -> Hashes \cup {NoFace, None}], Keeping(kept)
  PROVE  store' \in [Users -> Hashes \cup {NoFace, None}] /\ faults' \in 0..MaxFaults
BY FaultTyped DEF TypeOK, Keeping

LEMMA CompareTyped ==
  ASSUME TypeOK, NEW u, Comparable(u) PROVE u \in Users /\ row[u] \in Hashes
BY DEF TypeOK, Comparable, UserOrNone

LEMMA MatchAtServerKeeps == ASSUME IInv, MatchAtServer PROVE IInv'
<1>1. /\ TypeOK /\ verify.pc = "match_at_server" /\ page.active \in Users
      /\ UNCHANGED <<server, link, account, whims, history>>
  BY Fields DEF IInv, MatchAtServer, SomeoneActive, UserOrNone
<1>2. RowsStay
  BY <1>1 DEF RowsStay, server, history
<1>3. CASE page' = GaveUp /\ verify' = Idle /\ UNCHANGED <<store, faults>>
  <2>1. TypeOK'
    BY <1>1, <1>3, FailedEffect, IdleTyped DEF TypeOK, server, link, history
  <2> QED
    BY <1>1, <1>2, <1>3, <2>1, VerifyStops DEF server, link, history
<1>4. CASE /\ Comparable(verify.user)
           /\ page' = [page EXCEPT !.released = row[verify.user]]
           /\ Keeping([store EXCEPT ![page.active] = row[verify.user]])
           /\ verify' = [verify EXCEPT !.pc = "prove"]
  <2>1. row[verify.user] \in Hashes \cup {NoFace, None}
    BY <1>1, <1>4, CompareTyped
  <2>2. /\ verify' \in VerifyState /\ verify'.pc = "prove" /\ verify'.user = verify.user
        /\ page' \in PageState /\ Unseen /\ page'.panel = page.panel
    BY <1>1, <1>4, <2>1 DEF TypeOK, VerifyState, PageState, Unseen, Frame, Verified
  <2>3. store' \in [Users -> Hashes \cup {NoFace, None}] /\ faults' \in 0..MaxFaults
    <3>1. [store EXCEPT ![page.active] = row[verify.user]]
            \in [Users -> Hashes \cup {NoFace, None}]
      BY <1>1, <2>1 DEF TypeOK
    <3> QED
      BY <1>1, <1>4, <3>1, KeepingTyped
  <2>4. TypeOK'
    BY <1>1, <1>4, <2>2, <2>3 DEF TypeOK, server, link, history
  <2>5. AccountGoesOn /\ VerifyGoesOn
    BY AccountStays, <1>1, <2>2 DEF VerifyGoesOn
  <2> QED
    BY <1>1, <1>2, <2>2, <2>4, <2>5, QuietKeeps DEF server, link, history
<1> QED
  BY <1>3, <1>4 DEF MatchAtServer

\* The page learns nothing of a challenge that is gone.
LEMMA ChallengeExpiresKeeps == ASSUME IInv, ChallengeExpires PROVE IInv'
<1>1. /\ TypeOK /\ page' = [page EXCEPT !.live = "expired"] /\ faults' \in 0..MaxFaults
      /\ UNCHANGED <<server, store, link, verify, account, whims, history>>
  BY FaultTyped DEF IInv, ChallengeExpires
<1>2. page' \in PageState /\ Unseen /\ page'.panel = page.panel
  BY <1>1 DEF TypeOK, PageState, Unseen, Frame, Verified
<1>3. TypeOK' /\ RowsStay
  BY <1>1, <1>2 DEF TypeOK, RowsStay, server, link, history
<1>4. AccountGoesOn /\ VerifyGoesOn
  BY AccountStays, <1>1 DEF VerifyGoesOn
<1> QED
  BY <1>1, <1>2, <1>3, <1>4, QuietKeeps DEF server, link, history

LEMMA DraftExpiresKeeps == ASSUME IInv, NEW u \in Users, DraftExpires(u) PROVE IInv'
<1>1. /\ TypeOK /\ open' = open \ {u} /\ faults' \in 0..MaxFaults
      /\ UNCHANGED <<passkey, row, enrolled, session, handoff, store, link, page, verify,
                     account, whims, history>>
  BY FaultTyped DEF IInv, DraftExpires
<1>2. TypeOK' /\ RowsStay /\ Unseen
  BY <1>1 DEF TypeOK, RowsStay, Unseen, Frame, Verified, link, history
<1>3. AccountGoesOn /\ VerifyGoesOn
  BY AccountStays, <1>1 DEF VerifyGoesOn
<1> QED
  BY <1>1, <1>2, <1>3, QuietKeeps DEF link, history

-----------------------------------------------------------------------------
(* Presses: with nothing in progress, or nothing is promised any more.       *)

LEMMA NotBusy ==
  ASSUME TypeOK, ~Busy
  PROVE  /\ verify.pc = "idle" /\ page.asked = 0
         /\ \A h \in Handlers : account[h].pc = "idle"
BY IdleTyped, Fields DEF Busy

LEMMA PressEffect ==
  ASSUME TypeOK, NEW whim \in BOOLEAN, Press(whim)
  PROVE  /\ whims' \in 0..MaxWhims /\ crossed' \in BOOLEAN
         /\ ~crossed' => /\ ~crossed /\ verify.pc = "idle" /\ page.asked = 0
                         /\ \A h \in Handlers : account[h].pc = "idle"
<1>1. whims' \in 0..MaxWhims
  <2>1. whims \in Nat /\ whims' \in {whims, whims + 1} /\ whims' <= MaxWhims
    BY PhonePageAssumption DEF TypeOK, Press
  <2> QED
    BY <2>1, PhonePageAssumption
<1>2. crossed' \in BOOLEAN /\ (~crossed' => ~crossed /\ ~Busy)
  BY DEF TypeOK, Press, Busy
<1> QED
  BY <1>1, <1>2, NotBusy

\* A press that starts no handler.
LEMMA PressCalms ==
  ASSUME TypeOK, NEW whim \in BOOLEAN, Press(whim), handoff' = handoff,
         UNCHANGED <<verify, account>>
  PROVE  /\ CalmAccount' /\ CalmVerify'
         /\ Calm' => /\ Calm /\ verify.pc = "idle" /\ page.asked = 0
                     /\ \A h \in Handlers : account[h].pc = "idle"
BY PressEffect DEF Calm, CalmAccount, CalmVerify

\* The handler that begins is the only one, if nothing else is in progress.
LEMMA BeginsEffect ==
  ASSUME TypeOK, NEW pc \in {"identity", "login", "register"}, Begins(pc)
  PROVE  /\ account' \in [Handlers -> AccountState]
         /\ \E h \in Handlers :
              /\ account'[h].pc = pc /\ account'[h].user = page.active
              /\ \A g \in Handlers : g # h => account'[g] = account[g]
<1> DEFINE j == [Idle EXCEPT !.pc = pc, !.user = page.active]
<1>1. PICK h \in Handlers : account' = [account EXCEPT ![h] = j]
  BY DEF Begins
<1>2. j \in AccountState /\ j.pc = pc /\ j.user = page.active
  BY Fields DEF Idle, AccountState
<1> HIDE DEF j
<1> QED
  BY <1>1, <1>2 DEF TypeOK

LEMMA PressHandler ==
  ASSUME IInv, NEW pc \in {"identity", "login", "register"}, Press(FALSE), Begins(pc),
         page.active # None, pc = "identity" => Known,
         page.panel \in {"account", "signup"}, page' = [page EXCEPT !.error = FALSE],
         UNCHANGED <<server, store, link, verify, faults, switched, broken>>
  PROVE  IInv'
<1>1. /\ TypeOK /\ whims' \in 0..MaxWhims /\ crossed' \in BOOLEAN
      /\ ~crossed' => /\ ~crossed /\ verify.pc = "idle" /\ page.asked = 0
                      /\ \A g \in Handlers : account[g].pc = "idle"
  BY PressEffect DEF IInv
<1>2. PICK h \in Handlers : /\ account'[h].pc = pc /\ account'[h].user = page.active
                            /\ \A g \in Handlers : g # h => account'[g] = account[g]
  BY <1>1, BeginsEffect
<1>3. page' \in PageState /\ Unseen /\ page'.panel = page.panel
  BY <1>1 DEF TypeOK, PageState, Unseen, Frame, Verified
<1>4. TypeOK' /\ RowsAreEnrolled'
  BY <1>1, <1>3, BeginsEffect DEF IInv, TypeOK, RowsAreEnrolled, server, link
<1>5. /\ Known' <=> Known
      /\ Calm' => /\ Calm /\ verify'.pc = "idle" /\ page.asked = 0
                  /\ \A g \in Handlers : account[g].pc = "idle"
  BY <1>1, <1>3 DEF Calm, Known, Unseen, Frame, server
<1>6. CalmAccount' /\ CalmVerify'
  BY <1>2, <1>3, <1>5 DEF CalmAccount, CalmVerify, Unseen, Frame
<1>7. CalmPage'
  BY <1>3, <1>5 DEF IInv, CalmPage, Unseen, Frame, Verified, Proved, server
<1>8. SomeoneActive' /\ CodesWait' /\ CodesBeforeApproval'
  BY <1>2, <1>3 DEF IInv, SomeoneActive, CodesWait, CodesBeforeApproval, Unseen, Frame
<1>9. OneAccount'
  BY <1>2, <1>3 DEF IInv, OneAccount, Unseen, Frame, server, link
<1> QED
  BY <1>4, <1>6, <1>7, <1>8, <1>9, Assemble

\* A press that leads to another panel, with the account and what it has shown.
LEMMA PressPanel ==
  ASSUME IInv, NEW whim \in BOOLEAN, Press(whim), page' \in PageState, Unseen,
         page'.panel \in {page.panel, "account", "switch_account", "approve"},
         page'.panel = "approve" => page.panel \in {"codes", "approve"},
         page'.panel = "account" => page.panel \in {"account", "switch_account", "signup"},
         page'.panel = "switch_account" => page.panel \in {"account", "switch_account"},
         UNCHANGED <<server, store, link, verify, account, faults, switched, broken>>
  PROVE  IInv'
<1>1. /\ TypeOK /\ whims' \in 0..MaxWhims /\ crossed' \in BOOLEAN
      /\ CalmAccount' /\ CalmVerify'
      /\ Calm' => Calm /\ page.asked = 0
  BY PressEffect, PressCalms DEF IInv, server
<1>2. TypeOK' /\ RowsAreEnrolled'
  BY <1>1 DEF IInv, TypeOK, RowsAreEnrolled, server, link
<1>3. CalmPage'
  BY <1>1 DEF IInv, CalmPage, Known, Proved, Unseen, Frame, server
<1>4. SomeoneActive' /\ OneAccount'
  BY DEF IInv, SomeoneActive, OneAccount, Unseen, Frame, server, link
<1>5. CodesWait' /\ CodesBeforeApproval'
  BY DEF IInv, CodesWait, CodesBeforeApproval, Unseen, Frame
<1> QED
  BY <1>1, <1>2, <1>3, <1>4, <1>5, Assemble

LEMMA PressContinueKeeps == ASSUME IInv, PressContinue PROVE IInv'
<1>1. CASE page.active = None
  <2>1. page' = [Failed EXCEPT !.panel = "switch_account"] /\ page.panel = "account"
    BY <1>1 DEF PressContinue
  <2>2. page' \in PageState /\ Unseen /\ page'.panel = "switch_account"
    BY <2>1 DEF IInv, TypeOK, Failed, PageState, Unseen, Frame, Verified
  <2> QED
    BY <1>1, <2>1, <2>2, PressPanel DEF PressContinue
<1>2. CASE page.active # None /\ Known
  BY <1>2, PressHandler DEF PressContinue
<1>3. CASE page.active # None /\ ~Known
  BY <1>3, PressHandler DEF PressContinue
<1> QED
  BY <1>1, <1>2, <1>3

LEMMA PressCreateKeeps == ASSUME IInv, PressCreate PROVE IInv'
<1>1. page.active # None
  BY DEF IInv, SomeoneActive, PressCreate
<1> QED
  BY <1>1, PressHandler DEF PressCreate

LEMMA SwitchAccountKeeps == ASSUME IInv, NEW u \in Users, SwitchAccount(u) PROVE IInv'
<1>1. /\ TypeOK /\ page.panel = "switch_account" /\ Press(FALSE)
      /\ switched' = (switched \/ page.active \notin {u, None})
      /\ UNCHANGED <<server, store, link, verify, account, faults, broken>>
  BY DEF IInv, SwitchAccount
<1>2. /\ page' \in PageState /\ page'.active = u /\ page'.uid = None /\ page'.known = None
      /\ page'.panel = "account" /\ page'.codes = page.codes
      /\ page'.asked = page.asked /\ page'.gestures = page.gestures
      /\ page'.late = page.late
  BY <1>1 DEF SwitchAccount, TypeOK, PageState, UserOrNone
<1>3. /\ whims' \in 0..MaxWhims /\ crossed' \in BOOLEAN
      /\ CalmAccount' /\ CalmVerify' /\ (Calm' => Calm)
  BY <1>1, PressEffect, PressCalms DEF server
<1>4. TypeOK' /\ RowsAreEnrolled'
  BY <1>1, <1>2, <1>3 DEF IInv, TypeOK, RowsAreEnrolled, server, link
<1>5. CalmPage' /\ CodesWait' /\ CodesBeforeApproval'
  BY <1>1, <1>2, <1>3, Apart
     DEF IInv, CalmPage, Known, CodesWait, CodesBeforeApproval
<1>6. SomeoneActive' /\ OneAccount'
  <2>1. SomeoneActive'
    BY <1>1, <1>2, Apart DEF IInv, SomeoneActive
  <2>2. OneAccount'
    BY <1>1, <1>2 DEF IInv, OneAccount, SomeoneActive, server, link
  <2> QED
    BY <2>1, <2>2
<1> QED
  BY <1>3, <1>4, <1>5, <1>6, Assemble

LEMMA GoAsideKeeps == ASSUME IInv, GoAside PROVE IInv'
<1>1. \/ /\ page.panel \in {"signup", "switch_account"}
         /\ page' = [page EXCEPT !.panel = "account"]
      \/ page.panel = "account" /\ page' = [page EXCEPT !.panel = "switch_account"]
  BY DEF GoAside
<1>2. page' \in PageState /\ Unseen /\ page'.panel \in {"account", "switch_account"}
  BY <1>1 DEF IInv, TypeOK, PageState, Unseen, Frame, Verified
<1>3. page'.panel = "account" => page.panel \in {"signup", "switch_account"}
  BY <1>1 DEF IInv, TypeOK, PageState
<1>4. page'.panel = "switch_account" => page.panel = "account"
  BY <1>1 DEF IInv, TypeOK, PageState
<1> QED
  BY <1>2, <1>3, <1>4, PressPanel DEF GoAside

LEMMA LeaveCodesKeeps == ASSUME IInv, LeaveCodes PROVE IInv'
<1>1. /\ page' \in PageState /\ Unseen /\ page'.panel = "approve" /\ page.panel = "codes"
  BY DEF IInv, TypeOK, PageState, LeaveCodes, Unseen, Frame, Verified
<1> QED
  BY <1>1, PressPanel DEF LeaveCodes

-----------------------------------------------------------------------------
(* The face: a challenge asked for, its answer, the gestures.                *)

LEMMA StartLivenessKeeps == ASSUME IInv, StartLiveness PROVE IInv'
<1>1. /\ TypeOK /\ page.panel = "face" /\ page.gestures \in BOOLEAN /\ Press(page.gestures)
      /\ page.active # None /\ page.asked \in Nat
      /\ UNCHANGED <<server, store, link, verify, account, faults, switched, broken>>
  BY Fields DEF IInv, SomeoneActive, StartLiveness
<1>2. /\ whims' \in 0..MaxWhims /\ crossed' \in BOOLEAN
      /\ Calm' => /\ Calm /\ verify.pc = "idle"
                  /\ \A h \in Handlers : account[h].pc = "idle"
  BY <1>1, PressEffect, PressCalms DEF server
<1>3. /\ page' \in PageState /\ page'.active = page.active /\ page'.known = page.known
      /\ page'.uid = page.uid /\ page'.codes = page.codes
      /\ page'.gestures = page.gestures /\ page'.late = page.late
      /\ page'.panel \in {"account", "face"} /\ (page'.panel = "account" => ~Known)
  <2>1. CASE Known
    <3>1. page' = [page EXCEPT !.asked = page.asked + 1, !.error = FALSE]
      BY <2>1 DEF StartLiveness
    <3>2. page.asked + 1 \in Nat
      BY <1>1
    <3> QED
      BY <1>1, <3>1, <3>2 DEF TypeOK, PageState
  <2>2. CASE ~Known
    <3>1. page' = [page EXCEPT !.panel = "account", !.error = TRUE]
      BY <2>2 DEF StartLiveness
    <3> QED
      BY <1>1, <2>2, <3>1 DEF TypeOK, PageState
  <2> QED
    BY <2>1, <2>2
<1>4. TypeOK' /\ RowsAreEnrolled'
  BY <1>1, <1>2, <1>3 DEF IInv, TypeOK, RowsAreEnrolled, server, link
<1>5. CalmAccount' /\ CalmVerify'
  BY <1>1, <1>2 DEF CalmAccount, CalmVerify
<1>6. CalmPage'
  BY <1>1, <1>2, <1>3 DEF IInv, CalmPage, Known, server
<1>7. SomeoneActive' /\ CodesWait' /\ CodesBeforeApproval'
  BY <1>1, <1>3 DEF IInv, SomeoneActive, CodesWait, CodesBeforeApproval
<1>8. OneAccount'
  BY <1>1, <1>3 DEF IInv, OneAccount, server, link
<1> QED
  BY <1>4, <1>5, <1>6, <1>7, <1>8, Assemble

\* While nothing else is in progress the answer finds the page where it was asked.
LEMMA ChallengeComesKeeps == ASSUME IInv, ChallengeComes PROVE IInv'
<1>1. /\ TypeOK /\ page.asked > 0 /\ page.asked \in Nat /\ page.active # None
      /\ UNCHANGED <<server, store, link, verify, account, faults, whims, history>>
  BY Fields DEF IInv, SomeoneActive, ChallengeComes
<1>2. /\ page' \in PageState /\ page'.active = page.active /\ page'.known = page.known
      /\ page'.uid = page.uid /\ page'.codes = page.codes /\ page'.shown = page.shown
      /\ page'.panel = page.panel
      /\ \/ page'.late = page.late /\ page'.gestures = page.gestures
         \/ page'.late = (page.late \/ verify.pc # "idle" \/ page.panel # "face")
  <2>1. page.asked - 1 \in Nat
    BY <1>1
  <2>2. CASE ChallengeGiven
    <3> DEFINE late == page.late \/ verify.pc # "idle" \/ page.panel # "face"
    <3>1. page' = [page EXCEPT !.asked = page.asked - 1, !.live = "pending",
                               !.gestures = TRUE, !.camera = TRUE, !.result = FALSE,
                               !.proof = None, !.error = FALSE, !.late = late]
      BY <2>2 DEF ChallengeComes
    <3>2. late \in BOOLEAN
      BY <1>1, Fields
    <3> HIDE DEF late
    <3>3. /\ page' \in PageState /\ page'.active = page.active /\ page'.known = page.known
          /\ page'.uid = page.uid /\ page'.codes = page.codes /\ page'.shown = page.shown
          /\ page'.panel = page.panel /\ page'.late = late
      BY <1>1, <2>1, <3>1, <3>2 DEF TypeOK, PageState, UserOrNone
    <3> QED
      BY <3>3 DEF late
  <2>3. CASE ~ChallengeGiven
    <3>1. page' = [GaveUp EXCEPT !.asked = page.asked - 1]
      BY <2>3 DEF ChallengeComes, GaveUp, Failed
    <3> QED
      BY <1>1, <2>1, <3>1 DEF TypeOK, PageState, GaveUp, Failed
  <2> QED
    BY <2>2, <2>3
<1>3. /\ Calm' <=> Calm
      /\ Calm => /\ page.panel = "face" /\ verify.pc = "idle"
                 /\ \A h \in Handlers : account[h].pc = "idle"
  <2>1. Calm' <=> Calm
    BY <1>1 DEF Calm, server, history
  <2>2. Calm => page.panel = "face"
    BY <1>1 DEF IInv, CalmPage
  <2>3. Calm => verify.pc = "idle"
    BY <1>1 DEF IInv, CalmVerify
  <2>4. Calm => \A h \in Handlers : account[h].pc = "idle"
    BY <1>1 DEF IInv, CalmAccount
  <2> QED
    BY <2>1, <2>2, <2>3, <2>4
<1>4. TypeOK' /\ RowsAreEnrolled'
  BY <1>1, <1>2 DEF IInv, TypeOK, RowsAreEnrolled, server, link, history
<1>5. CalmAccount' /\ CalmVerify'
  BY <1>1, <1>3 DEF CalmAccount, CalmVerify
<1>6. CalmPage'
  BY <1>1, <1>2, <1>3 DEF IInv, CalmPage, Known, server
<1>7. SomeoneActive'
  BY <1>1, <1>2 DEF IInv, SomeoneActive
<1>8. CodesWait' /\ CodesBeforeApproval'
  BY <1>1, <1>2, Fields DEF IInv, CodesWait, CodesBeforeApproval, history
<1>9. OneAccount'
  BY <1>1, <1>2 DEF IInv, OneAccount, server, link, history
<1> QED
  BY <1>4, <1>5, <1>6, <1>7, <1>8, <1>9, Assemble

LEMMA ChallengeFailsKeeps == ASSUME IInv, ChallengeFails PROVE IInv'
<1>1. /\ TypeOK /\ page.asked > 0 /\ page.asked \in Nat /\ faults' \in 0..MaxFaults
      /\ page.active # None
      /\ page' = [GaveUp EXCEPT !.asked = page.asked - 1]
      /\ UNCHANGED <<server, store, link, verify, account, whims, history>>
  BY FaultTyped, Fields DEF IInv, SomeoneActive, ChallengeFails, GaveUp, Failed
<1>2. page.asked - 1 \in Nat
  BY <1>1
<1>3. /\ page' \in PageState /\ page'.active = page.active /\ page'.known = page.known
      /\ page'.uid = page.uid /\ page'.codes = page.codes /\ page'.shown = page.shown
      /\ page'.panel = page.panel /\ page'.late = page.late
      /\ page'.gestures = page.gestures /\ page'.live = page.live
      /\ page'.result = page.result /\ page'.proof = page.proof
      /\ page'.asked = page.asked - 1
  BY <1>1, <1>2 DEF TypeOK, PageState, GaveUp, Failed
<1>4. TypeOK' /\ RowsAreEnrolled'
  BY <1>1, <1>3 DEF IInv, TypeOK, RowsAreEnrolled, server, link, history
<1>5. Calm' <=> Calm
  BY <1>1 DEF Calm, server, history
<1>6. CalmAccount' /\ CalmVerify'
  BY <1>1, <1>5 DEF IInv, CalmAccount, CalmVerify
<1>7. CalmPage'
  BY <1>1, <1>3, <1>5 DEF IInv, CalmPage, Known, Verified, Proved, server
<1>8. SomeoneActive' /\ CodesWait' /\ CodesBeforeApproval'
  <2>1. SomeoneActive'
    BY <1>1, <1>3 DEF IInv, SomeoneActive
  <2>2. CodesWait'
    BY <1>1, <1>3 DEF IInv, CodesWait
  <2>3. CodesBeforeApproval'
    BY <1>1, <1>3 DEF IInv, CodesBeforeApproval, history
  <2> QED
    BY <2>1, <2>2, <2>3
<1>9. OneAccount'
  BY <1>1, <1>3 DEF IInv, OneAccount, server, link, history
<1> QED
  BY <1>4, <1>6, <1>7, <1>8, <1>9, Assemble

LEMMA GestureKeeps == ASSUME IInv, Gesture PROVE IInv'
<1>1. /\ TypeOK /\ page.gestures /\ page.active # None
      /\ crossed' = (crossed \/ Busy) /\ crossed' \in BOOLEAN
      /\ UNCHANGED <<server, store, link, account, faults, whims, switched, broken>>
  BY DEF IInv, TypeOK, Gesture, SomeoneActive, Busy
<1>2. /\ page' \in PageState /\ page'.panel = page.panel
      /\ page'.active = page.active /\ page'.known = page.known /\ page'.uid = page.uid
      /\ page'.codes = page.codes /\ page'.shown = page.shown
      /\ page'.live = page.live /\ page'.result = page.result /\ page'.proof = page.proof
      /\ page'.asked = page.asked /\ page'.late = page.late /\ ~page'.gestures
  <2>1. CASE page' = [page EXCEPT !.gestures = FALSE, !.error = FALSE]
    BY <1>1, <2>1 DEF TypeOK, PageState
  <2>2. CASE page' = [page EXCEPT !.gestures = FALSE]
    BY <1>1, <2>2 DEF TypeOK, PageState
  <2> QED
    BY <2>1, <2>2 DEF Gesture
<1>3. /\ verify' \in VerifyState
      /\ verify' = verify \/ (verify.pc = "idle" /\ verify'.pc = "capture")
  <2>1. CASE verify.pc = "idle"
    BY <2>1 DEF Gesture, VerifyState, Idle, UserOrNone
  <2>2. CASE verify.pc # "idle"
    BY <1>1, <2>2 DEF Gesture, TypeOK
  <2> QED
    BY <2>1, <2>2
<1>4. TypeOK' /\ RowsAreEnrolled'
  BY <1>1, <1>2, <1>3 DEF IInv, TypeOK, RowsAreEnrolled, server, link
<1>5. Calm' => /\ Calm /\ page.panel = "face" /\ page.asked = 0
               /\ \A h \in Handlers : account[h].pc = "idle"
  <2>1. Calm' => Calm /\ ~Busy
    BY <1>1 DEF Calm, server
  <2>2. Calm => page.panel = "face"
    BY <1>1 DEF IInv, CalmPage
  <2> QED
    BY <1>1, <2>1, <2>2, NotBusy
<1>6. CalmAccount'
  BY <1>1, <1>5 DEF CalmAccount
<1>7. CalmVerify'
  BY <1>1, <1>2, <1>3, <1>5
     DEF IInv, CalmVerify, Verified, Proved, server
<1>8. CalmPage'
  BY <1>1, <1>2, <1>5 DEF IInv, CalmPage, Known, server
<1>9. SomeoneActive' /\ CodesWait' /\ CodesBeforeApproval'
  BY <1>1, <1>2, <1>3 DEF IInv, SomeoneActive, CodesWait, CodesBeforeApproval
<1>10. OneAccount'
  BY <1>1, <1>2 DEF IInv, OneAccount, server, link
<1> QED
  BY <1>4, <1>6, <1>7, <1>8, <1>9, <1>10, Assemble

-----------------------------------------------------------------------------
(* The end, and a page loaded anew.                                          *)

\* An answered handoff promises nothing more, and leaves the account on display.
LEMMA Answered ==
  ASSUME IInv, TypeOK', handoff' # "pending", session' \in {session, None}, Frame,
         page'.panel \in {"done", page.panel},
         UNCHANGED <<row, enrolled, broken, hint, verify, account, switched>>
  PROVE  IInv'
<1>1. RowsAreEnrolled' /\ CalmAccount' /\ CalmVerify' /\ CalmPage'
  BY DEF IInv, RowsAreEnrolled, CalmAccount, CalmVerify, CalmPage, Calm
<1>2. SomeoneActive' /\ OneAccount' /\ CodesWait' /\ CodesBeforeApproval'
  BY DEF IInv, SomeoneActive, OneAccount, CodesWait, CodesBeforeApproval, Frame
<1> QED
  BY <1>1, <1>2, Assemble

LEMMA ApprovedEffect ==
  ASSUME TypeOK, ApproveOk, handoff' = session
  PROVE  handoff' \in Users /\ handoff' # "pending"
BY Apart DEF TypeOK, ApproveOk, UserOrNone

LEMMA ApproveKeeps == ASSUME IInv, Approve PROVE IInv'
<1>1. /\ TypeOK /\ page.panel = "approve" /\ page.error \in BOOLEAN /\ Press(page.error)
      /\ UNCHANGED <<passkey, row, enrolled, open, store, link, verify, account, faults,
                     switched, broken>>
  BY DEF IInv, TypeOK, PageState, Approve
<1>2. whims' \in 0..MaxWhims /\ crossed' \in BOOLEAN
  BY <1>1, PressEffect
<1>3. CASE ApproveOk
  <2>1. /\ handoff' = session /\ session' = None /\ page' = [page EXCEPT !.panel = "done"]
        /\ handoff' \in Users /\ handoff' # "pending"
    BY <1>1, <1>3, ApprovedEffect DEF Approve
  <2>2. page' \in PageState /\ page'.panel = "done" /\ Frame
    BY <1>1, <2>1 DEF TypeOK, PageState, Frame
  <2>3. TypeOK'
    BY <1>1, <1>2, <2>1, <2>2 DEF TypeOK, UserOrNone, link
  <2> QED
    BY <1>1, <2>1, <2>2, <2>3, Answered DEF link
<1>4. CASE ~ApproveOk
  <2>1. page' = Failed /\ UNCHANGED <<handoff, session>>
    BY <1>4 DEF Approve
  <2>2. page' \in PageState /\ Unseen /\ page'.panel = page.panel
    BY <1>1, <2>1, FailedEffect
  <2> QED
    BY <1>1, <2>1, <2>2, PressPanel DEF server
<1> QED
  BY <1>3, <1>4

LEMMA ApproveFailsKeeps == ASSUME IInv, ApproveFails PROVE IInv'
<1>1. /\ TypeOK /\ page' = Failed /\ faults' \in 0..MaxFaults
      /\ UNCHANGED <<passkey, row, enrolled, open, store, link, verify, account, whims,
                     history>>
  BY FaultTyped DEF IInv, ApproveFails
<1>2. page' \in PageState /\ Unseen /\ page'.panel = page.panel
  BY <1>1, FailedEffect
<1>3. CASE ApproveOk /\ handoff' = session /\ session' = None
  <2>1. handoff' \in Users /\ handoff' # "pending"
    BY <1>1, <1>3, ApprovedEffect
  <2>2. TypeOK'
    BY <1>1, <1>2, <1>3, <2>1 DEF TypeOK, UserOrNone, link, history
  <2> QED
    BY <1>1, <1>2, <1>3, <2>1, <2>2, Answered DEF Unseen, link, history
<1>4. CASE UNCHANGED <<handoff, session>>
  <2>1. TypeOK' /\ RowsStay /\ AccountGoesOn /\ VerifyGoesOn
    BY AccountStays, <1>1, <1>2, <1>4 DEF TypeOK, RowsStay, VerifyGoesOn, link, history
  <2> QED
    BY <1>1, <1>2, <1>4, <2>1, QuietKeeps DEF link, history
<1> QED
  BY <1>3, <1>4 DEF ApproveFails

LEMMA DenyKeeps == ASSUME IInv, Deny PROVE IInv'
<1>1. /\ TypeOK /\ Press(TRUE) /\ handoff' \in Users \cup {"denied"}
      /\ page' = [page EXCEPT !.panel = "done", !.camera = FALSE, !.error = FALSE]
      /\ UNCHANGED <<passkey, row, enrolled, session, open, store, link, verify, account,
                     faults, switched, broken>>
  BY DEF IInv, TypeOK, Deny
<1>2. whims' \in 0..MaxWhims /\ crossed' \in BOOLEAN
  BY <1>1, PressEffect
<1>3. page' \in PageState /\ page'.panel = "done" /\ Frame
  BY <1>1 DEF TypeOK, PageState, Frame
<1>4. TypeOK'
  BY <1>1, <1>2, <1>3 DEF TypeOK, link
<1>5. handoff' # "pending"
  BY <1>1, Apart
<1> QED
  BY <1>1, <1>3, <1>4, <1>5, Answered DEF link

\* The page of the session it is loaded with.
LEMMA FreshEffect ==
  ASSUME NEW s \in UserOrNone, hint \in UserOrNone, mode \in {"signin", "signup"}
  PROVE  LET p == Fresh(s)
         IN  /\ p \in PageState /\ p.active = (IF hint = None THEN s ELSE hint)
             /\ p.known = s /\ p.uid = None /\ p.codes = None
             /\ p.asked = 0 /\ ~p.gestures
             /\ p.panel \in {"done", "switch_account", "signup", "account"}
             /\ p.panel \in {"signup", "account"} => p.active # None
<1> DEFINE name == IF hint = None THEN s ELSE hint
           panel == IF Settled THEN "done"
                    ELSE IF name = None THEN "switch_account"
                    ELSE IF mode = "signup" THEN "signup" ELSE "account"
<1>1. name \in UserOrNone /\ None \in UserOrNone /\ (mode = "signup") \in BOOLEAN
  BY DEF UserOrNone
<1>2. /\ panel \in {"done", "switch_account", "signup", "account"}
      /\ panel \in {"signup", "account"} => name # None
  OBVIOUS
<1>3. Fresh(s) = [panel |-> panel, active |-> name, known |-> s, uid |-> None,
                  draft |-> None, signup |-> mode = "signup", face |-> None,
                  released |-> None, asked |-> 0, gestures |-> FALSE, camera |-> FALSE,
                  live |-> None, result |-> FALSE, proof |-> None, codes |-> None,
                  shown |-> FALSE, error |-> FALSE, late |-> FALSE]
  BY DEF Fresh
<1> HIDE DEF name, panel
<1>4. Fresh(s) \in PageState
  BY <1>1, <1>2, <1>3 DEF PageState
<1> QED
  BY <1>2, <1>3, <1>4 DEF name

LEMMA ReloadKeeps ==
  ASSUME IInv, whims' \in 0..MaxWhims, page' = Fresh(session), verify' = Idle,
         account' = AllIdle, UNCHANGED <<server, store, link, faults, history>>
  PROVE  IInv'
<1>1. /\ TypeOK /\ session \in UserOrNone /\ hint \in UserOrNone
      /\ mode \in {"signin", "signup"} /\ verify'.pc = "idle"
      /\ \A h \in Handlers : account'[h].pc = "idle"
  BY IdleTyped DEF IInv, TypeOK
<1>2. /\ page' \in PageState /\ page'.active = (IF hint = None THEN session ELSE hint)
      /\ page'.known = session /\ page'.uid = None /\ page'.codes = None
      /\ page'.asked = 0 /\ ~page'.gestures
      /\ page'.panel \in {"done", "switch_account", "signup", "account"}
      /\ page'.panel \in {"signup", "account"} => page'.active # None
  BY <1>1, FreshEffect
<1>3. TypeOK' /\ RowsAreEnrolled'
  BY <1>1, <1>2, IdleTyped DEF IInv, TypeOK, RowsAreEnrolled, server, link, history
<1>4. CalmAccount' /\ CalmVerify' /\ CalmPage'
  BY <1>1, <1>2 DEF CalmAccount, CalmVerify, CalmPage, Known, server
<1>5. SomeoneActive' /\ CodesWait' /\ CodesBeforeApproval'
  BY <1>1, <1>2 DEF SomeoneActive, CodesWait, CodesBeforeApproval
<1>6. OneAccount'
  BY <1>1, <1>2 DEF IInv, OneAccount, server, link, history
<1> QED
  BY <1>3, <1>4, <1>5, <1>6, Assemble

LEMMA InitHolds == Init => IInv
<1> SUFFICES ASSUME Init PROVE IInv
  OBVIOUS
<1>1. /\ None \in UserOrNone /\ hint \in UserOrNone /\ mode \in {"signin", "signup"}
      /\ verify = Idle /\ account = AllIdle /\ page = Fresh(None)
      /\ verify.pc = "idle" /\ session = None
      /\ \A h \in Handlers : account[h].pc = "idle"
  BY PhonePageAssumption, IdleTyped DEF Init, UserOrNone
<1>2. /\ page \in PageState /\ page.active = (IF hint = None THEN None ELSE hint)
      /\ page.known = None /\ page.uid = None /\ page.codes = None
      /\ page.asked = 0 /\ ~page.gestures
      /\ page.panel \in {"done", "switch_account", "signup", "account"}
      /\ page.panel \in {"signup", "account"} => page.active # None
  BY <1>1, FreshEffect
<1>3. TypeOK
  <2>1. /\ row \in [Users -> Hashes \cup {NoFace, None}]
        /\ store \in [Users -> Hashes \cup {NoFace, None}]
    BY DEF Init
  <2>2. 0 \in 0..MaxFaults /\ 0 \in 0..MaxWhims
    BY PhonePageAssumption
  <2> QED
    BY <1>1, <1>2, <2>1, <2>2, IdleTyped, Apart DEF Init, TypeOK
<1>4. RowsAreEnrolled
  BY DEF Init, RowsAreEnrolled
<1>5. CalmAccount /\ CalmVerify /\ CalmPage
  BY <1>1, <1>2 DEF CalmAccount, CalmVerify, CalmPage, Known
<1>6. SomeoneActive /\ CodesWait /\ CodesBeforeApproval /\ OneAccount
  BY <1>1, <1>2 DEF SomeoneActive, CodesWait, CodesBeforeApproval, OneAccount
<1>7. PanelTellsTruth
  BY <1>2 DEF PanelTellsTruth
<1> QED
  BY <1>3, <1>4, <1>5, <1>6, <1>7 DEF IInv

-----------------------------------------------------------------------------
(* The steps that move the page on.                                         *)

\* A handler that runs alone finds the page as it left it.
LEMMA Alone ==
  ASSUME IInv, Calm, NEW h \in Handlers, account[h].pc # "idle"
  PROVE  /\ verify.pc = "idle" /\ page.asked = 0 /\ page.panel \in {"account", "signup"}
         /\ ~page.gestures
         /\ \A g \in Handlers : g # h => account[g].pc = "idle"
         /\ account[h].user = page.active
         /\ account[h].pc \in {"identity", "start", "face"} => Known
BY DEF IInv, CalmAccount, CalmPage

\* A handler ends: nothing is in progress, if nothing else was.
LEMMA HandlerEnds ==
  ASSUME IInv, TypeOK', NEW h \in Handlers, account[h].pc # "idle", Ends(h), Frame,
         page'.known = page.known, page'.uid = page.uid,
         page'.panel \in {page.panel, "signup", "face"},
         page'.panel = "face" => page.panel = "face" \/ account[h].pc = "face",
         RowsStay, UNCHANGED <<row, handoff, hint, verify, switched, crossed>>,
         session' \in {session, account[h].user}, Calm /\ Known => session' = session
  PROVE  IInv'
<1>1. /\ TypeOK /\ page.active # None /\ account'[h].pc = "idle"
      /\ \A g \in Handlers : g # h => account'[g] = account[g]
      /\ AccountGoesOn
  BY EndsEffect DEF IInv, SomeoneActive
<1>2. Calm' <=> Calm
  BY DEF Calm
<1>3. RowsAreEnrolled'
  BY RowsKeep DEF IInv
<1>4. Calm => /\ verify.pc = "idle" /\ page.asked = 0 /\ ~page.gestures
              /\ page.panel \in {"account", "signup"}
              /\ account[h].user = page.active
              /\ account[h].pc = "face" => Known
              /\ \A g \in Handlers : account'[g].pc = "idle"
  BY <1>1, Alone
<1>5. CalmAccount' /\ CalmVerify'
  BY <1>2, <1>4 DEF CalmAccount, CalmVerify
<1>6. CalmPage'
  <2> SUFFICES ASSUME Calm
               PROVE  /\ Known' => session' = page'.active
                      /\ page'.uid # None =>
                           Known' /\ page'.uid = page'.active /\ row'[page'.active] # None
                      /\ page'.panel \in {"face", "codes", "approve"} => Known'
                      /\ page'.panel \in {"codes", "approve"} => Verified' /\ Proved'
                      /\ page'.asked > 0 \/ page'.gestures => page'.panel = "face"
    BY <1>2 DEF CalmPage
  <2>1. Known' <=> Known
    BY DEF Known, Frame
  <2>2. Known => session' = page.active
    BY DEF IInv, CalmPage
  <2>3. page'.panel \in {"account", "signup", "face"}
    BY <1>4
  <2>4. page'.panel = "face" => Known
    BY <1>4
  <2>5. page.uid # None => Known /\ page.uid = page.active /\ row[page.active] # None
    BY DEF IInv, CalmPage
  <2>6. page'.asked = 0 /\ ~page'.gestures
    BY <1>4 DEF Frame
  <2> QED
    BY <2>1, <2>2, <2>3, <2>4, <2>5, <2>6 DEF Frame
<1>7. SomeoneActive'
  BY <1>1 DEF IInv, SomeoneActive, Frame
<1>8. CodesWait' /\ CodesBeforeApproval'
  BY DEF IInv, CodesWait, CodesBeforeApproval, Frame
<1>9. OneAccount'
  BY <1>1 DEF IInv, OneAccount, Frame
<1> QED
  BY <1>3, <1>5, <1>6, <1>7, <1>8, <1>9, Assemble

LEMMA SignUpEffect ==
  ASSUME TypeOK, page' = SignUp
  PROVE  /\ page' \in PageState /\ Frame /\ page'.panel = "signup"
         /\ page'.known = page.known /\ page'.uid = page.uid
         /\ Unseen
BY DEF TypeOK, SignUp, PageState, Frame, Unseen, Verified

LEMMA LoginKeeps == ASSUME IInv, NEW h \in Handlers, Login(h) PROVE IInv'
<1> PICK u : u = account[h].user
  OBVIOUS
<1>1. /\ TypeOK /\ account[h].pc \in {"login", "login_new"} /\ u \in Users /\ u # None
      /\ UNCHANGED <<passkey, row, enrolled, open, handoff, store, link, verify, faults,
                     whims, history>>
  BY Fields, Apart DEF IInv, Login, SomeoneActive, UserOrNone
<1>2. RowsStay
  BY <1>1 DEF RowsStay, history
<1>3. CASE CanSignIn(u)
  <2> PICK next \in {"identity", "start"} :
         next = IF account[h].pc = "login" THEN "identity" ELSE "start"
    OBVIOUS
  <2>1. /\ session' = u /\ page' = [page EXCEPT !.known = u, !.uid = None]
        /\ Goes(h, next)
    BY <1>3 DEF Login, SignedIn
  <2>2. page' \in PageState /\ Frame /\ page'.known = u /\ page'.uid = None
        /\ page'.panel = page.panel
    BY <1>1, <2>1 DEF TypeOK, PageState, UserOrNone, Frame
  <2>3. /\ account' \in [Handlers -> AccountState] /\ account'[h].pc = next
        /\ account'[h].user = u
        /\ \A g \in Handlers : g # h => account'[g] = account[g]
    BY <1>1, <2>1, GoesEffect
  <2>4. TypeOK'
    BY <1>1, <2>1, <2>2, <2>3, Fields DEF TypeOK, link, history
  <2>5. Calm' => /\ Calm /\ verify.pc = "idle" /\ page.asked = 0 /\ ~page.gestures
                 /\ page.panel \in {"account", "signup"} /\ u = page.active
                 /\ \A g \in Handlers : g # h => account[g].pc = "idle"
    <3>1. Calm' => Calm
      BY <1>1 DEF Calm, history
    <3> QED
      BY <1>1, <3>1, Alone
  <2>6. CalmAccount'
    BY <1>1, <2>2, <2>3, <2>5 DEF CalmAccount, Known, Frame
  <2>7. CalmVerify'
    BY <1>1, <2>5 DEF CalmVerify
  <2>8. CalmPage'
    BY <1>1, <2>1, <2>2, <2>5 DEF CalmPage, Known, Frame
  <2>9. RowsAreEnrolled'
    BY <1>2, RowsKeep DEF IInv
  <2>10. SomeoneActive'
    BY <1>1, <2>2, <2>3 DEF IInv, SomeoneActive, Frame
  <2>11. CodesWait' /\ CodesBeforeApproval'
    BY <1>1, <2>2 DEF IInv, CodesWait, CodesBeforeApproval, Frame, history
  <2>12. OneAccount'
    BY <1>1, <2>1, <2>2, <2>3 DEF IInv, OneAccount, Frame, link, history
  <2> QED
    BY <2>4, <2>6, <2>7, <2>8, <2>9, <2>10, <2>11, <2>12, Assemble
<1>4. CASE ~CanSignIn(u)
  <2>1. page' = SignUp /\ Ends(h) /\ session' = session
    BY <1>4 DEF Login
  <2>2. /\ page' \in PageState /\ Frame /\ page'.panel = "signup" /\ Unseen
        /\ page'.known = page.known /\ page'.uid = page.uid
    BY <1>1, <2>1, SignUpEffect
  <2>3. TypeOK'
    BY <1>1, <2>1, <2>2, EndsEffect DEF TypeOK, link, history
  <2> QED
    BY <1>1, <1>2, <2>1, <2>2, <2>3, HandlerEnds DEF link, history
<1> QED
  BY <1>3, <1>4

\* The identity found is the one of the account on display, where that is signed in.
LEMMA UidEffect ==
  ASSUME TypeOK, CalmPage, UidOr(page.uid) # None
  PROVE  /\ UidOr(page.uid) \in Users
         /\ Calm /\ Known =>
              UidOr(page.uid) = page.active /\ row[page.active] # None
BY Fields DEF TypeOK, CalmPage, UidOr, IdentityOfSession, UserOrNone

\* A handler goes on to show the face, with more on the page than before.
LEMMA HandlerReady ==
  ASSUME IInv, TypeOK', NEW h \in Handlers, account[h].pc \in {"identity", "start"},
         Goes(h, "face"), Frame, page'.panel = page.panel, page'.known = page.known,
         Calm => page'.uid = page.uid
                 \/ (page'.uid = page.active /\ row[page.active] # None),
         UNCHANGED <<row, enrolled, broken, session, handoff, hint, verify, crossed,
                     switched>>
  PROVE  IInv'
<1>1. /\ TypeOK /\ page.active # None /\ account'[h].pc = "face"
      /\ account'[h].user = account[h].user
      /\ \A g \in Handlers : g # h => account'[g] = account[g]
  BY GoesEffect DEF IInv, SomeoneActive
<1>2. RowsAreEnrolled' /\ (Calm' <=> Calm) /\ (Known' <=> Known)
  BY DEF IInv, RowsAreEnrolled, Calm, Known, Frame
<1>3. Calm => /\ verify.pc = "idle" /\ page.asked = 0 /\ ~page.gestures
              /\ page.panel \in {"account", "signup"} /\ Known
              /\ account[h].user = page.active
              /\ \A g \in Handlers : g # h => account[g].pc = "idle"
  BY Alone
<1>4. CalmAccount'
  BY <1>1, <1>2, <1>3 DEF CalmAccount, Frame
<1>5. CalmVerify'
  BY <1>2, <1>3 DEF CalmVerify
<1>6. CalmPage'
  BY <1>2, <1>3 DEF IInv, CalmPage, Frame
<1>7. SomeoneActive'
  BY <1>1 DEF IInv, SomeoneActive, Frame
<1>8. CodesWait' /\ CodesBeforeApproval'
  BY DEF IInv, CodesWait, CodesBeforeApproval, Frame
<1>9. OneAccount'
  BY <1>1 DEF IInv, OneAccount, Frame
<1> QED
  BY <1>2, <1>4, <1>5, <1>6, <1>7, <1>8, <1>9, Assemble

LEMMA IdentityKeeps == ASSUME IInv, NEW h \in Handlers, Identity(h) PROVE IInv'
<1> PICK uid : uid = UidOr(page.uid)
  OBVIOUS
<1>1. /\ TypeOK /\ account[h].pc = "identity"
      /\ UNCHANGED <<server, store, link, verify, faults, whims, history>>
  BY DEF IInv, Identity
<1>2. CASE uid # None
  <2>1. page' = [page EXCEPT !.uid = uid] /\ Goes(h, "face")
    BY <1>2 DEF Identity
  <2>2. uid \in Users /\ (Calm => uid = page.active /\ row[page.active] # None)
    BY <1>1, <1>2, UidEffect, Alone DEF IInv
  <2>3. /\ page' \in PageState /\ Frame /\ page'.panel = page.panel
        /\ page'.known = page.known /\ page'.uid = uid
    BY <1>1, <2>1, <2>2 DEF TypeOK, PageState, UserOrNone, Frame
  <2>4. TypeOK'
    BY <1>1, <2>1, <2>3, GoesEffect DEF TypeOK, server, link, history
  <2> QED
    BY <1>1, <2>1, <2>2, <2>3, <2>4, HandlerReady DEF server, link, history
<1>3. CASE uid = None
  <2>1. page' = SignUp /\ Ends(h)
    BY <1>3 DEF Identity
  <2>2. /\ page' \in PageState /\ Frame /\ page'.panel = "signup" /\ Unseen
        /\ page'.known = page.known /\ page'.uid = page.uid
    BY <1>1, <2>1, SignUpEffect
  <2>3. TypeOK' /\ RowsStay
    BY <1>1, <2>1, <2>2, EndsEffect DEF TypeOK, RowsStay, server, link, history
  <2> QED
    BY <1>1, <2>1, <2>2, <2>3, HandlerEnds DEF server, link, history
<1> QED
  BY <1>2, <1>3

LEMMA StartEnrollmentKeeps ==
  ASSUME IInv, NEW h \in Handlers, StartEnrollment(h) PROVE IInv'
<1>1. /\ TypeOK /\ account[h].pc = "start"
      /\ UNCHANGED <<passkey, row, enrolled, session, handoff, store, link, verify,
                     faults, whims, history>>
  BY DEF IInv, StartEnrollment
<1>2. CASE session = None
  <2>1. page' = Failed /\ Ends(h) /\ open' = open
    BY <1>2 DEF StartEnrollment
  <2>2. page' \in PageState /\ Unseen /\ page'.panel = page.panel
    BY <1>1, <2>1, FailedEffect
  <2>3. TypeOK' /\ RowsStay /\ AccountGoesOn /\ VerifyGoesOn
    BY <1>1, <2>1, <2>2, EndsEffect DEF TypeOK, RowsStay, VerifyGoesOn, link, history
  <2> QED
    BY <1>1, <2>2, <2>3, QuietKeeps DEF link, history
<1>3. CASE session # None
  <2>1. /\ session \in Users /\ open' = open \cup {session} /\ Goes(h, "face")
        /\ page' = [page EXCEPT !.draft = session, !.signup = FALSE]
    BY <1>1, <1>3 DEF StartEnrollment, TypeOK, UserOrNone
  <2>2. /\ page' \in PageState /\ Frame /\ page'.panel = page.panel
        /\ page'.known = page.known /\ page'.uid = page.uid
    BY <1>1, <2>1 DEF TypeOK, PageState, UserOrNone, Frame
  <2>3. TypeOK'
    BY <1>1, <2>1, <2>2, GoesEffect DEF TypeOK, link, history
  <2> QED
    BY <1>1, <2>1, <2>2, <2>3, HandlerReady DEF link, history
<1> QED
  BY <1>2, <1>3

LEMMA ShowFaceKeeps == ASSUME IInv, NEW h \in Handlers, ShowFace(h) PROVE IInv'
<1>1. /\ TypeOK /\ account[h].pc = "face" /\ Ends(h)
      /\ page' = [page EXCEPT !.panel = "face", !.error = FALSE]
      /\ UNCHANGED <<server, store, link, verify, faults, whims, history>>
  BY DEF IInv, ShowFace
<1>2. /\ page' \in PageState /\ Unseen /\ Frame /\ page'.panel = "face"
      /\ page'.known = page.known /\ page'.uid = page.uid
  BY <1>1 DEF TypeOK, PageState, Unseen, Frame, Verified
<1>3. TypeOK' /\ RowsStay
  BY <1>1, <1>2, EndsEffect DEF TypeOK, RowsStay, server, link, history
<1> QED
  BY <1>1, <1>2, <1>3, HandlerEnds DEF server, link, history

LEMMA AccountFailsKeeps == ASSUME IInv, NEW h \in Handlers, AccountFails(h) PROVE IInv'
<1> PICK u : u = account[h].user
  OBVIOUS
<1>1. /\ TypeOK /\ account[h].pc \notin {"idle", "face"} /\ u \in Users /\ Ends(h)
      /\ faults' \in 0..MaxFaults /\ passkey' \in {passkey, passkey \cup {u}}
      /\ \/ session' = session
         \/ account[h].pc \in {"login", "login_new"} /\ session' = u
      /\ UNCHANGED <<row, enrolled, open, handoff, store, link, verify, whims, history>>
  BY FaultTyped, Fields DEF IInv, AccountFails, SomeoneActive, UserOrNone
<1>2. /\ page' \in PageState /\ Unseen /\ Frame /\ page'.panel \in {page.panel, "signup"}
      /\ page'.known = page.known /\ page'.uid = page.uid
  <2>1. CASE page' = Failed
    BY <1>1, <2>1, FailedEffect DEF Unseen
  <2>2. CASE page' = SignUp
    BY <1>1, <2>2, SignUpEffect
  <2> QED
    BY <2>1, <2>2 DEF AccountFails
<1>3. TypeOK' /\ RowsStay
  BY <1>1, <1>2, EndsEffect, Fields DEF TypeOK, RowsStay, link, history
<1>4. Calm /\ Known => session' = session
  <2>1. Calm /\ Known => session = page.active
    BY DEF IInv, CalmPage
  <2>2. Calm => u = page.active
    BY <1>1, Alone
  <2> QED
    BY <1>1, <2>1, <2>2
<1> QED
  BY <1>1, <1>2, <1>3, <1>4, HandlerEnds DEF link, history

\* What verifyLiveness may rely on where it runs alone.
LEMMA AloneVerifying ==
  ASSUME IInv, Calm, verify.pc # "idle"
  PROVE  /\ page.panel = "face" /\ page.asked = 0 /\ ~page.gestures /\ Known
         /\ \A h \in Handlers : account[h].pc = "idle"
<1>1. page.panel = "face" /\ page.asked = 0 /\ ~page.gestures
  BY DEF IInv, CalmVerify
<1>2. Known
  BY <1>1 DEF IInv, CalmPage
<1>3. \A h \in Handlers : account[h].pc = "idle"
  BY DEF IInv, CalmAccount
<1> QED
  BY <1>1, <1>2, <1>3

\* A step of verifyLiveness that leaves the page on its panel, with its account, codes
\* and identity.
LEMMA VerifyKeeps ==
  ASSUME IInv, TypeOK', verify.pc # "idle", Frame,
         page'.known = page.known, page'.uid = page.uid, page'.panel = page.panel,
         verify'.pc \in {"idle", "enroll", "identity"},
         verify'.pc # "idle" => Verified',
         UNCHANGED <<server, hint, account, history>>
  PROVE  IInv'
<1>1. RowsAreEnrolled' /\ (Calm' <=> Calm) /\ (Known' <=> Known)
  BY DEF IInv, RowsAreEnrolled, Calm, Known, Frame, server, history
<1>2. CalmAccount' /\ CalmVerify'
  BY <1>1, AloneVerifying DEF CalmAccount, CalmVerify, Frame
<1>3. CalmPage'
  BY <1>1, AloneVerifying DEF IInv, CalmPage, Frame, server
<1>4. SomeoneActive' /\ CodesWait' /\ CodesBeforeApproval'
  BY DEF IInv, SomeoneActive, CodesWait, CodesBeforeApproval, Frame, history
<1>5. OneAccount'
  BY DEF IInv, OneAccount, Frame, server, history
<1> QED
  BY <1>1, <1>2, <1>3, <1>4, <1>5, Assemble

LEMMA VerifyLivenessKeeps == ASSUME IInv, VerifyLiveness PROVE IInv'
<1>1. /\ TypeOK /\ verify.pc = "liveness"
      /\ UNCHANGED <<server, store, link, account, faults, whims, history>>
  BY DEF IInv, VerifyLiveness
<1>2. CASE page.live = "expired" \/ ~AllGestures
  <2> PICK gone \in {"expired", "failed"} :
         gone = IF page.live = "expired" THEN page.live ELSE "failed"
    OBVIOUS
  <2>1. page' = [GaveUp EXCEPT !.live = gone] /\ verify' = Idle /\ verify'.pc = "idle"
    BY <1>2, IdleTyped DEF VerifyLiveness, GaveUp, Failed
  <2>2. /\ page' \in PageState /\ Frame /\ page'.known = page.known
        /\ page'.uid = page.uid /\ page'.panel = page.panel
    BY <1>1, <2>1 DEF TypeOK, PageState, GaveUp, Failed, Frame
  <2>3. TypeOK'
    BY <1>1, <2>1, <2>2, IdleTyped DEF TypeOK, server, link, history
  <2> QED
    BY <1>1, <2>1, <2>2, <2>3, VerifyKeeps DEF link
<1>3. CASE ~(page.live = "expired" \/ ~AllGestures)
  <2>1. /\ page' = [page EXCEPT !.live = "verified", !.result = TRUE]
        /\ verify' = IF Enrolling
                     THEN [verify EXCEPT !.pc = "enroll", !.user = page.active,
                                         !.draft = page.draft]
                     ELSE [verify EXCEPT !.pc = "identity"]
    BY <1>3 DEF VerifyLiveness
  <2>2. /\ page' \in PageState /\ Frame /\ page'.known = page.known
        /\ page'.uid = page.uid /\ page'.panel = page.panel /\ Verified'
    BY <1>1, <2>1 DEF TypeOK, PageState, Frame, Verified
  <2>3. verify' \in VerifyState /\ verify'.pc \in {"enroll", "identity"}
    <3>1. CASE Enrolling
      BY <1>1, <2>1, <3>1, Fields DEF TypeOK, VerifyState
    <3>2. CASE ~Enrolling
      BY <1>1, <2>1, <3>2 DEF TypeOK, VerifyState
    <3> QED
      BY <3>1, <3>2
  <2>4. TypeOK'
    BY <1>1, <2>2, <2>3 DEF TypeOK, server, link, history
  <2> QED
    BY <1>1, <2>2, <2>3, <2>4, VerifyKeeps DEF link
<1> QED
  BY <1>2, <1>3

\* The account that enrolled is the one on display: it is signed in.
LEMMA CompleteKeeps == ASSUME IInv, Complete PROVE IInv'
<1> PICK d \in Users : d = verify.draft
  BY DraftTyped DEF IInv, Complete
<1>1. /\ TypeOK /\ verify.pc = "enroll" /\ d = session /\ page.active # None
      /\ row' = [row EXCEPT ![d] = FaceOr(page.face)]
      /\ enrolled' = enrolled \cup {d} /\ open' = open \ {d}
      /\ IF page.face = None THEN UNCHANGED <<store, faults>>
         ELSE Keeping([store EXCEPT ![verify.user] = page.face])
      /\ page' = [page EXCEPT !.uid = d, !.draft = None, !.codes = d, !.shown = FALSE,
                              !.released = page.face]
      /\ verify' = [verify EXCEPT !.pc = "identity"]
      /\ UNCHANGED <<passkey, session, handoff, link, account, whims, history>>
  BY DEF IInv, Complete, Acceptable, SomeoneActive
<1>2. /\ page' \in PageState /\ page'.active = page.active /\ page'.known = page.known
      /\ page'.uid = d /\ page'.codes = d /\ page'.panel = page.panel
      /\ page'.live = page.live /\ page'.result = page.result
      /\ page'.asked = page.asked /\ page'.gestures = page.gestures
      /\ page'.late = page.late
  BY <1>1 DEF TypeOK, PageState, UserOrNone
<1>3. verify' \in VerifyState /\ verify'.pc = "identity"
  BY <1>1 DEF TypeOK, VerifyState
<1>4. FaceOr(page.face) \in Hashes \cup {NoFace} /\ FaceOr(page.face) # None
  BY <1>1, Apart DEF TypeOK, PageState, FaceOr
<1>5. /\ row' \in [Users -> Hashes \cup {NoFace, None}] /\ row'[d] # None
      /\ \A u \in Users : row'[u] # None => row[u] # None \/ u = d
  BY <1>1, <1>4 DEF TypeOK
<1>6. store' \in [Users -> Hashes \cup {NoFace, None}] /\ faults' \in 0..MaxFaults
  <2>1. CASE page.face = None
    BY <1>1, <2>1 DEF TypeOK
  <2>2. CASE page.face # None
    <3>1. [store EXCEPT ![verify.user] = page.face]
            \in [Users -> Hashes \cup {NoFace, None}]
      BY <1>1, <2>2 DEF TypeOK, PageState
    <3> QED
      BY <1>1, <2>2, <3>1, KeepingTyped
  <2> QED
    BY <2>1, <2>2
<1>7. TypeOK'
  BY <1>1, <1>2, <1>3, <1>5, <1>6 DEF TypeOK, link, history
<1>8. RowsAreEnrolled'
  BY <1>1, <1>5 DEF IInv, RowsAreEnrolled, history
<1>9. (Calm' <=> Calm)
      /\ (Calm => /\ page.panel = "face" /\ page.asked = 0 /\ ~page.gestures /\ Verified
                  /\ Known
                  /\ d = page.active /\ \A h \in Handlers : account[h].pc = "idle")
  <2>1. (Calm' <=> Calm) /\ (Calm => Verified)
    BY <1>1 DEF IInv, CalmVerify, Calm, history
  <2>2. Calm => /\ page.panel = "face" /\ page.asked = 0 /\ ~page.gestures /\ Known
                /\ \A h \in Handlers : account[h].pc = "idle"
    BY <1>1, AloneVerifying
  <2> QED
    BY <1>1, <2>1, <2>2 DEF IInv, CalmPage
<1>10. CalmAccount' /\ CalmVerify' /\ CalmPage'
  BY <1>1, <1>2, <1>3, <1>5, <1>9 DEF CalmAccount, CalmVerify, CalmPage, Known, Verified
<1>11. page.panel \notin {"codes", "approve"} \/ page.late
  BY <1>1 DEF IInv, CodesWait
<1>12. SomeoneActive' /\ CodesWait'
  BY <1>1, <1>2, <1>3, <1>11 DEF IInv, SomeoneActive, CodesWait
<1>13. OneAccount'
  BY <1>1, <1>2, Apart DEF IInv, OneAccount, link, history
<1>14. CodesBeforeApproval'
  <2>1. page'.panel \in {"codes", "approve"} => page'.shown \/ page'.late
    BY <1>2, <1>11
  <2>2. page'.codes = page'.active \/ switched'
    BY <1>1, <1>2, Apart DEF IInv, OneAccount, history
  <2> QED
    BY <2>1, <2>2 DEF CodesBeforeApproval
<1> QED
  BY <1>7, <1>8, <1>10, <1>12, <1>13, <1>14, Assemble

LEMMA VerifyIdentityKeeps == ASSUME IInv, VerifyIdentity PROVE IInv'
<1> DEFINE uid == UidOr(page.uid)
           own == ~Enrolling /\ page.face # None
<1>1. /\ TypeOK /\ verify.pc = "identity" /\ page.active # None
      /\ UNCHANGED <<server, store, link, account, faults, whims, history>>
  BY DEF IInv, VerifyIdentity, SomeoneActive
<1>2. CASE uid = None
  <2>1. page' = GaveUp /\ verify' = Idle
    BY <1>2 DEF VerifyIdentity
  <2>2. TypeOK' /\ RowsStay
    BY <1>1, <2>1, FailedEffect, IdleTyped DEF TypeOK, RowsStay, server, link, history
  <2> QED
    BY <1>1, <2>1, <2>2, VerifyStops DEF server, link, history
<1>3. CASE uid # None
  <2>1. /\ page' = [page EXCEPT !.uid = uid]
        /\ verify' = [verify EXCEPT !.pc = IF own THEN "match" ELSE "prove", !.user = uid]
    BY <1>3 DEF VerifyIdentity
  <2>2. /\ Calm' <=> Calm
        /\ Calm => /\ page.panel = "face" /\ page.asked = 0 /\ Verified /\ Known
                   /\ \A h \in Handlers : account[h].pc = "idle"
    <3>1. Calm' <=> Calm
      BY <1>1 DEF Calm, server, history
    <3>2. Calm => Verified
      BY <1>1 DEF IInv, CalmVerify
    <3> QED
      BY <1>1, <3>1, <3>2, AloneVerifying
  <2>3. uid \in Users /\ (Calm => uid = page.active /\ row[page.active] # None)
    BY <1>1, <1>3, <2>2, UidEffect DEF IInv
  <2>4. (IF own THEN "match" ELSE "prove") \in {"match", "prove"}
    OBVIOUS
  <2> HIDE DEF uid, own
  <2>5. /\ page' \in PageState /\ Frame /\ page'.known = page.known /\ page'.uid = uid
        /\ page'.panel = page.panel /\ page'.live = page.live
        /\ page'.result = page.result
    BY <1>1, <2>1, <2>3 DEF TypeOK, PageState, UserOrNone, Frame
  <2>6. /\ verify' \in VerifyState /\ verify'.pc \in {"match", "prove"}
        /\ verify'.user = uid
    BY <1>1, <2>1, <2>3, <2>4 DEF TypeOK, VerifyState, UserOrNone
  <2>7. TypeOK' /\ RowsAreEnrolled'
    BY <1>1, <2>5, <2>6 DEF IInv, TypeOK, RowsAreEnrolled, server, link, history
  <2>8. CalmAccount' /\ CalmVerify' /\ CalmPage'
    BY <1>1, <2>2, <2>3, <2>5, <2>6
       DEF IInv, CalmAccount, CalmVerify, CalmPage, Known, Verified, Frame, server
  <2>9. SomeoneActive' /\ CodesWait' /\ CodesBeforeApproval'
    BY <1>1, <2>5 DEF IInv, SomeoneActive, CodesWait, CodesBeforeApproval, Frame, history
  <2>10. OneAccount'
    BY <1>1, <2>5 DEF IInv, OneAccount, Frame, server, link, history
  <2> QED
    BY <2>7, <2>8, <2>9, <2>10, Assemble
<1> QED
  BY <1>2, <1>3

\* The proof is for the account on display.
LEMMA ProveKeeps == ASSUME IInv, Prove PROVE IInv'
<1>1. /\ TypeOK /\ verify.pc = "prove" /\ page.active # None
      /\ UNCHANGED <<server, store, link, account, faults, whims, history>>
  BY DEF IInv, Prove, SomeoneActive
<1>2. CASE ~ProofAccepted(verify.user)
  <2>1. page' = GaveUp /\ verify' = Idle
    BY <1>2 DEF Prove
  <2>2. TypeOK' /\ RowsStay
    BY <1>1, <2>1, FailedEffect, IdleTyped DEF TypeOK, RowsStay, server, link, history
  <2> QED
    BY <1>1, <2>1, <2>2, VerifyStops DEF server, link, history
<1>3. CASE ProofAccepted(verify.user)
  <2>1. /\ page' = [page EXCEPT !.proof = verify.user]
        /\ verify' = [verify EXCEPT !.pc = "show"]
    BY <1>3 DEF Prove
  <2>2. /\ page' \in PageState /\ Frame /\ page'.known = page.known
        /\ page'.uid = page.uid /\ page'.panel = page.panel /\ page'.live = page.live
        /\ page'.result = page.result /\ page'.proof = verify.user
        /\ verify' \in VerifyState /\ verify'.pc = "show" /\ verify'.user = verify.user
    BY <1>1, <2>1, Fields DEF TypeOK, PageState, VerifyState, Frame
  <2>3. TypeOK' /\ RowsAreEnrolled'
    BY <1>1, <2>2 DEF IInv, TypeOK, RowsAreEnrolled, server, link, history
  <2>4. /\ Calm' <=> Calm
        /\ Calm => /\ page.panel = "face" /\ page.asked = 0 /\ Known /\ Verified
                   /\ verify.user = page.active /\ row[page.active] # None
                   /\ \A h \in Handlers : account[h].pc = "idle"
    <3>1. Calm' <=> Calm
      BY <1>1 DEF Calm, server, history
    <3>2. Calm => Verified /\ verify.user = page.active /\ row[page.active] # None
      BY <1>1 DEF IInv, CalmVerify
    <3> QED
      BY <1>1, <3>1, <3>2, AloneVerifying
  <2>5. CalmAccount' /\ CalmVerify' /\ CalmPage'
    BY <1>1, <2>2, <2>4
       DEF IInv, CalmAccount, CalmVerify, CalmPage, Known, Verified, Proved, Frame, server
  <2>6. SomeoneActive' /\ CodesWait' /\ CodesBeforeApproval'
    BY <1>1, <2>2 DEF IInv, SomeoneActive, CodesWait, CodesBeforeApproval, Frame, history
  <2>7. OneAccount'
    BY <1>1, <2>2 DEF IInv, OneAccount, Frame, server, link, history
  <2> QED
    BY <2>3, <2>5, <2>6, <2>7, Assemble
<1> QED
  BY <1>2, <1>3

\* The panel that follows the face shows the codes, if there are any.
LEMMA ShowKeeps == ASSUME IInv, Show PROVE IInv'
<1> DEFINE panel == IF page.codes = None THEN "approve" ELSE "codes"
           shown == page.shown \/ page.codes # None
<1>1. /\ TypeOK /\ verify.pc = "show" /\ page.active # None
      /\ verify' = Idle /\ verify'.pc = "idle"
      /\ page' = [page EXCEPT !.shown = shown, !.panel = panel, !.camera = FALSE,
                              !.error = FALSE]
      /\ UNCHANGED <<server, store, link, account, faults, whims, history>>
  BY IdleTyped DEF IInv, Show, SomeoneActive
<1>2. /\ panel \in {"approve", "codes"} /\ shown \in BOOLEAN
      /\ page.codes # None => shown
      /\ panel = "codes" => page.codes # None
  BY Fields DEF IInv
<1> HIDE DEF panel, shown
<1>3. /\ page' \in PageState /\ page'.active = page.active /\ page'.known = page.known
      /\ page'.uid = page.uid /\ page'.codes = page.codes /\ page'.shown = shown
      /\ page'.panel = panel /\ page'.live = page.live /\ page'.result = page.result
      /\ page'.proof = page.proof /\ page'.asked = page.asked
      /\ page'.gestures = page.gestures /\ page'.late = page.late
  BY <1>1, <1>2 DEF TypeOK, PageState
<1>4. TypeOK' /\ RowsAreEnrolled'
  BY <1>1, <1>3, IdleTyped DEF IInv, TypeOK, RowsAreEnrolled, server, link, history
<1>5. /\ Calm' <=> Calm
      /\ Calm => /\ Known /\ Verified /\ Proved /\ page.asked = 0 /\ ~page.gestures
                 /\ \A h \in Handlers : account[h].pc = "idle"
  <2>1. Calm' <=> Calm
    BY <1>1 DEF Calm, server, history
  <2>2. Calm => Verified /\ Proved
    BY <1>1 DEF IInv, CalmVerify
  <2>3. Calm => ~page.gestures
    BY <1>1 DEF IInv, CalmVerify
  <2> QED
    BY <1>1, <2>1, <2>2, <2>3, AloneVerifying
<1>6. CalmAccount' /\ CalmVerify'
  BY <1>1, <1>5 DEF CalmAccount, CalmVerify
<1>7. CalmPage'
  BY <1>1, <1>3, <1>5 DEF IInv, CalmPage, Known, Verified, Proved, server
<1>8. SomeoneActive' /\ CodesWait'
  BY <1>1, <1>3 DEF IInv, SomeoneActive, CodesWait
<1>9. CodesBeforeApproval'
  BY <1>1, <1>2, <1>3 DEF IInv, OneAccount, CodesBeforeApproval, history
<1>10. OneAccount'
  BY <1>1, <1>3 DEF IInv, OneAccount, server, link, history
<1> QED
  BY <1>4, <1>6, <1>7, <1>8, <1>9, <1>10, Assemble

-----------------------------------------------------------------------------
LEMMA StutterKeeps == ASSUME IInv, UNCHANGED vars PROVE IInv'
<1>1. TypeOK'
  BY DEF IInv, TypeOK, vars, server, link, history
<1>2. Unseen /\ RowsStay
  BY DEF Unseen, Frame, Verified, RowsStay, vars, server, history
<1>3. AccountGoesOn /\ VerifyGoesOn
  BY AccountStays DEF VerifyGoesOn, vars
<1> QED
  BY <1>1, <1>2, <1>3, QuietKeeps DEF vars, server, link, history

LEMMA StepHolds == IInv /\ [Next]_vars => IInv'
<1> SUFFICES ASSUME IInv, [Next]_vars PROVE IInv'
  OBVIOUS
<1>1. CASE AccountStep
  BY <1>1, RegisterKeeps, LoginKeeps, IdentityKeeps, StartEnrollmentKeeps, ShowFaceKeeps
     DEF AccountStep
<1>2. CASE VerifyStep
  BY <1>2, CaptureKeeps, VerifyLivenessKeeps, AskDraftKeeps, CompleteKeeps,
     CompleteRefusedKeeps, VerifyIdentityKeeps, MatchHereKeeps, NoMatchHereKeeps,
     MatchAtServerKeeps, ProveKeeps, ShowKeeps DEF VerifyStep
<1>3. CASE Onward
  BY <1>3, PressContinueKeeps, PressCreateKeeps, StartLivenessKeeps, LeaveCodesKeeps,
     ApproveKeeps, SwitchAccountKeeps DEF Onward
<1>4. CASE ChallengeComes \/ Gesture \/ GoAside \/ Deny
  BY <1>4, ChallengeComesKeeps, GestureKeeps, GoAsideKeeps, DenyKeeps
<1>5. CASE Reload \/ ReloadOnAWhim
  <2>1. whims' \in 0..MaxWhims
    <3>1. CASE Reload
      BY <3>1 DEF IInv, TypeOK, Reload
    <3>2. CASE ReloadOnAWhim
      BY <3>2, PhonePageAssumption DEF IInv, TypeOK, ReloadOnAWhim
    <3> QED
      BY <1>5, <3>1, <3>2
  <2> QED
    BY <1>5, <2>1, ReloadKeeps DEF Reload, ReloadOnAWhim
<1>6. CASE Failing
  BY <1>6, AccountFailsKeeps, CaptureFailsKeeps, CompleteFailsKeeps, VerifyFailsKeeps,
     ApproveFailsKeeps, ChallengeFailsKeeps, ChallengeExpiresKeeps, DraftExpiresKeeps
     DEF Failing
<1>7. CASE UNCHANGED vars
  BY <1>7, StutterKeeps
<1> QED
  BY <1>1, <1>2, <1>3, <1>4, <1>5, <1>6, <1>7 DEF Next

\* The inductive invariant: what the page and a handler on its own may rely on while
\* nothing was pressed and no gesture finished during another handler, and what holds
\* of the account and its codes whatever overlaps.
THEOREM PageInductive == Spec => []IInv
<1> QED
  BY InitHolds, StepHolds, PTL DEF Spec

\* Whatever failed on the way, the approve panel is shown only to who is signed in as
\* the account on display, enrolled, with a proof of its own and a challenge that was
\* verified; five minutes later that challenge is gone and the button is refused.
THEOREM PanelTellsTruthHolds == Spec => []PanelTellsTruth
<1>1. IInv => PanelTellsTruth
  BY DEF IInv
<1> QED
  BY <1>1, PageInductive, PTL

\* The recovery codes an enrollment answers with are on the screen before the approval,
\* under the account they are for, however the account's handlers overlap, unless
\* startLiveness got a challenge while a face was verified or after the page had moved on.
THEOREM CodesBeforeApprovalHolds == Spec => []CodesBeforeApproval
<1>1. IInv => CodesBeforeApproval
  BY DEF IInv
<1> QED
  BY <1>1, PageInductive, PTL

=============================================================================
