------------------------------ MODULE Sentinel ------------------------------
(***************************************************************************)
(* The Sentinel application behind its sign-in: the server that seeds its    *)
(* tables when it starts, checkpoint verifications, and an officer's page    *)
(* of dispatches.                                                          *)
(*                                                                         *)
(* Tables outlive the server, which may stop between any two statements and  *)
(* starts again; requests under way are then lost.  The pages of the         *)
(* application share nothing but the server, and a behaviour exercises one   *)
(* of them.  The dispatches page is mounted again when the officer comes     *)
(* back to it; answers to a page that is gone change nothing.              *)
(***************************************************************************)
EXTENDS Naturals, FiniteSets

CONSTANTS
  People,     \* service numbers of the roster that is seeded
  Posted,     \* those it seeds a checkpoint entry for
  Gates,      \* checkpoint names
  Officers,   \* who record verifications, each one at a time
  MaxId,      \* bound: dispatches ever created
  MaxFlight,  \* bound: requests of the dispatches page under way
  MaxStops,   \* bound: times the server stops or a request fails
  None

ASSUME SentinelAssumption ==
  /\ Posted \subseteq People /\ {MaxId, MaxFlight, MaxStops} \subseteq Nat
  /\ None \notin Gates \cup (0..MaxId)

VARIABLES
  server,    \* "down", "up", or the statement of bootstrap that comes next
  todo,      \* whose rows the loop of the seed has still to insert
  marker,    \* the row SEED-MARKER-001
  roster,    \* how many rows each service number has
  newest,    \* the newest checkpoint entry of each person that is committed
  last,      \* sentinel_personnel.last_checkpoint
  post,      \* each officer's POST /api/checkpoints
  dispatch,  \* rows: whose text, see `of`; None: no such row
  page,      \* DispatchesPage
  net,       \* its requests
  focus,     \* the page exercised
  stops,
  halted,    \* history: a start stopped while it was seeding
  raced,     \* history: people whose recordings overlapped or stopped half way
  swapped    \* history: the editor was given another text during a POST

gate == <<newest, last, post, raced>>
desk == <<dispatch, page, net, swapped>>
boot == <<server, todo, marker, roster, halted>>
vars == <<boot, gate, desk, focus, stops>>

Ids == 1..MaxId
New == 0    \* the text of an editor that has no dispatch
Idle == [pc |-> "idle", who |-> None, at |-> None, before |-> {}, beaten |-> FALSE]

\* The list, the selection and the form; of, history: the dispatch whose text the form
\* holds, New if it was typed for none.
Mounted == [list |-> {}, selected |-> None, of |-> New, saving |-> FALSE]

Init ==
  /\ server = "down" /\ todo = {} /\ marker = FALSE /\ roster = [p \in People |-> 0]
  /\ newest = [p \in People |-> None] /\ last = newest
  /\ post = [o \in Officers |-> Idle]
  /\ dispatch = [d \in Ids |-> None] /\ page = Mounted /\ net = {}
  /\ focus \in {"dispatches", "checkpoints"} /\ stops = 0
  /\ halted = FALSE /\ raced = {} /\ swapped = FALSE

Trouble == stops < MaxStops /\ stops' = stops + 1

-----------------------------------------------------------------------------
\* A mistake to be found: the whole seed runs again until everybody is there.
StartCounts ==
  /\ server = "down"
  /\ server' = IF \A p \in People : roster[p] > 0 THEN "up" ELSE "marker"
  /\ UNCHANGED <<todo, marker, roster, halted, gate, desk, focus, stops>>

\* bootstrap: the tables, then the seed unless its marker is there.
Start ==
  /\ server = "down"
  /\ server' = IF marker THEN "up" ELSE "marker"
  /\ UNCHANGED <<todo, marker, roster, halted, gate, desk, focus, stops>>

SeedMarker ==
  /\ server = "marker"
  /\ marker' = TRUE /\ server' = "roster" /\ todo' = People
  /\ UNCHANGED <<roster, halted, gate, desk, focus, stops>>

\* One INSERT for each person, whatever is there already.
SeedPerson(p) ==
  /\ server = "roster" /\ p \in todo
  /\ roster' = [roster EXCEPT ![p] = @ + 1]
  /\ IF todo = {p} THEN server' = "entries" /\ todo' = Posted
                   ELSE server' = "roster" /\ todo' = todo \ {p}
  /\ UNCHANGED <<marker, halted, gate, desk, focus, stops>>

\* One INSERT for each entry.
SeedEntry(p, g) ==
  /\ server = "entries" /\ p \in todo
  /\ newest' = [newest EXCEPT ![p] = g] /\ todo' = todo \ {p}
  /\ UNCHANGED <<server, marker, roster, halted, last, post, raced, desk, focus, stops>>

\* The UPDATE of last_checkpoint for all; the armoury entries are left out.
SeedLast ==
  /\ server = "entries" /\ todo = {}
  /\ last' = newest /\ server' = "up"
  /\ UNCHANGED <<todo, marker, roster, halted, newest, post, raced, desk, focus, stops>>

\* The process stops, whatever it was doing.
Stop ==
  LET half == {post[o].who : o \in {q \in Officers : post[q].pc = "update"}} IN
  /\ server # "down" /\ Trouble
  /\ server' = "down" /\ todo' = {}
  /\ halted' = (halted \/ server \in {"roster", "entries"})
  /\ raced' = raced \cup half
  /\ post' = [o \in Officers |-> Idle]
  /\ net' = {} /\ page' = [page EXCEPT !.saving = FALSE]
  /\ UNCHANGED <<marker, roster, newest, last, dispatch, swapped, focus>>

-----------------------------------------------------------------------------
\* POST /api/checkpoints by an officer who is signed in, for a person of the roster.
Record(o, p, g) ==
  /\ focus = "checkpoints" /\ server = "up" /\ post[o].pc = "idle" /\ roster[p] > 0
  /\ post' = [post EXCEPT ![o] = [Idle EXCEPT !.pc = "insert", !.who = p, !.at = g]]
  /\ UNCHANGED <<boot, newest, last, raced, desk, focus, stops>>

Beside(o, pcs) == {q \in Officers \ {o} : post[q].pc \in pcs /\ post[q].who = post[o].who}

\* The INSERT: verified_at is the time the statement begins, so the entry is newer than
\* those of the INSERTs under way.
RecordInsert(o) ==
  /\ post[o].pc = "insert"
  /\ raced' = IF Beside(o, {"commit", "update"}) = {} THEN raced ELSE raced \cup {post[o].who}
  /\ post' = [post EXCEPT ![o].pc = "commit", ![o].before = Beside(o, {"commit"})]
  /\ UNCHANGED <<boot, newest, last, desk, focus, stops>>

\* Others see the entry; it beats those it is newer than.
RecordCommit(o) ==
  /\ post[o].pc = "commit"
  /\ newest' = IF post[o].beaten THEN newest ELSE [newest EXCEPT ![post[o].who] = post[o].at]
  /\ post' = [q \in Officers |->
                IF q = o THEN [post[o] EXCEPT !.pc = "update", !.before = {}, !.beaten = FALSE]
                ELSE [post[q] EXCEPT !.before = @ \ {o},
                                     !.beaten = @ \/ q \in post[o].before]]
  /\ UNCHANGED <<boot, last, raced, desk, focus, stops>>

\* A mistake to be found: a person who has a checkpoint keeps it.
RecordUpdateOnce(o) ==
  LET p == post[o].who IN
  /\ post[o].pc = "update"
  /\ last' = IF last[p] = None THEN [last EXCEPT ![p] = post[o].at] ELSE last
  /\ post' = [post EXCEPT ![o] = Idle]
  /\ UNCHANGED <<boot, newest, raced, desk, focus, stops>>

\* The second statement, of its own transaction: the entry may no longer be the newest.
RecordUpdate(o) ==
  /\ post[o].pc = "update"
  /\ last' = [last EXCEPT ![post[o].who] = post[o].at]
  /\ post' = [post EXCEPT ![o] = Idle]
  /\ UNCHANGED <<boot, newest, raced, desk, focus, stops>>

\* A statement fails: the page ignores the error, and an entry inserted stays.
RecordFails(o) ==
  /\ post[o].pc # "idle" /\ Trouble
  /\ raced' = IF post[o].pc = "update" THEN raced \cup {post[o].who} ELSE raced
  /\ post' = [q \in Officers |-> IF q = o THEN Idle ELSE [post[q] EXCEPT !.before = @ \ {o}]]
  /\ UNCHANGED <<boot, newest, last, desk, focus>>

-----------------------------------------------------------------------------
Creating == \E r \in net : r.kind = "create" /\ r.live
At(press) == focus = "dispatches" /\ server = "up" /\ press
Send(r) == Cardinality(net) < MaxFlight /\ net' = net \cup {r}
Request(kind, d) ==
  [kind |-> kind, d |-> d, of |-> page.of, live |-> TRUE, stage |-> "sent", result |-> {}]
Edits(p) == page' = p /\ swapped' = (swapped \/ Creating)

\* The page is mounted and loads the list; requests of the page before go on.
Mount ==
  /\ At(Cardinality(net) < MaxFlight)
  /\ page' = Mounted
  /\ net' = {[r EXCEPT !.live = FALSE] : r \in {q \in net : q.kind # "load"}}
            \cup {Request("load", None)}
  /\ UNCHANGED <<boot, gate, dispatch, swapped, focus, stops>>

\* A mistake to be found: the form is emptied and the selection stays.
NewDispatchKeeps ==
  /\ At(page.selected # None)
  /\ Edits([page EXCEPT !.of = New])
  /\ UNCHANGED <<boot, gate, dispatch, net, focus, stops>>

\* resetEditor.
NewDispatch ==
  /\ At(page.selected # None \/ Creating)
  /\ Edits([page EXCEPT !.selected = None, !.of = New])
  /\ UNCHANGED <<boot, gate, dispatch, net, focus, stops>>

\* selectDispatch: an entry of the list, which may be gone by now.
Select(d) ==
  /\ At(d \in page.list /\ page.selected # d)
  /\ Edits([page EXCEPT !.selected = d, !.of = d])
  /\ UNCHANGED <<boot, gate, dispatch, net, focus, stops>>

\* handleSave: a PATCH of what is selected or a POST; disabled while it runs.
Save ==
  /\ At(~page.saving)
  /\ Send(IF page.selected # None THEN Request("update", page.selected)
                                  ELSE Request("create", None))
  /\ page' = [page EXCEPT !.saving = TRUE]
  /\ UNCHANGED <<boot, gate, dispatch, swapped, focus, stops>>

\* handleDelete, confirmed; it is not disabled while it runs.
Delete ==
  /\ At(page.selected # None)
  /\ Send(Request("delete", page.selected))
  /\ UNCHANGED <<boot, gate, dispatch, page, swapped, focus, stops>>

\* The officer's other page of dispatches deletes one.
DeletedElsewhere(d) ==
  /\ At(dispatch[d] # None) /\ Trouble
  /\ dispatch' = [dispatch EXCEPT ![d] = None]
  /\ UNCHANGED <<boot, gate, page, net, swapped, focus>>

Rows == {d \in Ids : dispatch[d] # None}
Answer(r, result) ==
  net' = (net \ {r}) \cup {[r EXCEPT !.stage = "answered", !.result = result]}

\* GET /api/dispatches.
ServeLoad(r) ==
  /\ r \in net /\ r.kind = "load" /\ r.stage = "sent"
  /\ Answer(r, Rows)
  /\ UNCHANGED <<boot, gate, dispatch, page, swapped, focus, stops>>

Known(d) == d \in page.list \/ page.selected = d \/ \E q \in net : d \in q.result \/ q.d = d
Free == {d \in Ids : dispatch[d] = None /\ ~Known(d)}

\* createDispatch: a new id, here the least that no row, page or request has.
ServeCreate(r, d) ==
  /\ r \in net /\ r.kind = "create" /\ r.stage = "sent"
  /\ d \in Free /\ \A e \in Free : d <= e
  /\ dispatch' = [dispatch EXCEPT ![d] = IF r.of = New THEN d ELSE r.of]
  /\ Answer(r, {d})
  /\ UNCHANGED <<boot, gate, page, swapped, focus, stops>>

\* updateDispatch and deleteDispatch: no row, no answer but 404.
ServeUpdate(r) ==
  /\ r \in net /\ r.kind = "update" /\ r.stage = "sent"
  /\ dispatch' = IF r.d \in Rows THEN [dispatch EXCEPT ![r.d] = r.of] ELSE dispatch
  /\ Answer(r, Rows \cap {r.d})
  /\ UNCHANGED <<boot, gate, page, swapped, focus, stops>>

ServeDelete(r) ==
  /\ r \in net /\ r.kind = "delete" /\ r.stage = "sent"
  /\ dispatch' = [dispatch EXCEPT ![r.d] = None]
  /\ Answer(r, Rows \cap {r.d})
  /\ UNCHANGED <<boot, gate, page, swapped, focus, stops>>

\* What the handler does after its await.  A list loaded replaces the one there is; a
\* dispatch created is selected, whatever the form holds by now; one deleted empties
\* the form, whatever it holds.
After(r) ==
  CASE r.kind = "load" -> [page EXCEPT !.list = r.result]
    [] r.kind = "create" ->
         LET d == CHOOSE e \in r.result : TRUE IN
         [page EXCEPT !.list = @ \cup {d}, !.selected = d, !.saving = FALSE,
                      !.of = IF @ = New /\ ~swapped THEN d ELSE @]
    [] r.kind = "update" -> [page EXCEPT !.saving = FALSE]
    [] r.kind = "delete" /\ r.result # {} ->
         [page EXCEPT !.list = @ \ {r.d}, !.selected = None, !.of = New]
    [] OTHER -> page

Deliver(r) ==
  /\ r \in net /\ r.stage = "answered"
  /\ page' = IF r.live THEN After(r) ELSE page
  /\ swapped' = (swapped \/ (r.live /\ r.kind = "delete" /\ r.result # {} /\ Creating))
  /\ net' = net \ {r}
  /\ UNCHANGED <<boot, gate, dispatch, focus, stops>>

\* A request or its answer is lost.
Lose(r) ==
  /\ r \in net /\ Trouble
  /\ net' = net \ {r}
  /\ page' = IF r.live /\ r.kind \in {"create", "update"} THEN [page EXCEPT !.saving = FALSE]
             ELSE page
  /\ UNCHANGED <<boot, gate, dispatch, swapped, focus>>

-----------------------------------------------------------------------------
Seed ==
  \/ SeedMarker \/ SeedLast
  \/ \E p \in People : SeedPerson(p) \/ \E g \in Gates : SeedEntry(p, g)
Recording(o) ==
  \/ RecordInsert(o) \/ RecordCommit(o) \/ RecordUpdate(o) \/ RecordFails(o)
  \/ \E p \in People, g \in Gates : Record(o, p, g)
Editing ==
  \/ Mount \/ NewDispatch \/ Save \/ Delete
  \/ \E d \in Ids : Select(d) \/ DeletedElsewhere(d)
Answering(r) ==
  \/ ServeLoad(r) \/ ServeUpdate(r) \/ ServeDelete(r) \/ Deliver(r) \/ Lose(r)
  \/ \E d \in Ids : ServeCreate(r, d)

Next ==
  \/ Start \/ Seed \/ Stop \/ Editing
  \/ \E o \in Officers : Recording(o)
  \/ \E r \in net : Answering(r)

Spec == Init /\ [][Next]_vars

-----------------------------------------------------------------------------
\* However often the server stops and starts, nobody is on the roster twice, and unless
\* a start stopped while it was seeding, everybody is when the server is up.
SeededOnce ==
  /\ \A p \in People : roster[p] <= 1
  /\ server = "up" /\ ~halted => \A p \in People : roster[p] = 1

\* The roster shows the newest entry as a person's last checkpoint, between recordings,
\* unless two of them overlapped or one stopped half way.
LastCheckpointIsNewest ==
  server = "up" /\ ~halted =>
    \A p \in People \ raced :
      (\A o \in Officers : post[o].pc = "update" => post[o].who # p) => last[p] = newest[p]

\* A dispatch only ever holds text that was typed into it or opened from it, unless the
\* form was given another text while one was being created.
TextStaysInItsDispatch ==
  ~swapped => \A d \in Ids : dispatch[d] \in {None, d}

-----------------------------------------------------------------------------
(* What each step preserves; with it the properties above hold for any       *)
(* roster, any number of officers, dispatches, requests and stops.           *)

Post ==
  [pc : {"idle", "insert", "commit", "update"}, who : People \cup {None},
   at : Gates \cup {None}, before : SUBSET Officers, beaten : BOOLEAN]
Page == [list : SUBSET Ids, selected : Ids \cup {None}, of : Ids \cup {New}, saving : BOOLEAN]
Message ==
  [kind : {"load", "create", "update", "delete"}, d : Ids \cup {None}, of : Ids \cup {New},
   live : BOOLEAN, stage : {"sent", "answered"}, result : SUBSET Ids]

BootOK ==
  /\ server \in {"down", "marker", "roster", "entries", "up"} /\ todo \subseteq People
  /\ marker \in BOOLEAN /\ roster \in [People -> Nat] /\ halted \in BOOLEAN

GateOK ==
  /\ newest \in [People -> Gates \cup {None}] /\ last \in [People -> Gates \cup {None}]
  /\ post \in [Officers -> Post] /\ raced \subseteq People
  /\ \A o \in Officers : post[o].pc # "idle" => post[o].who \in People /\ post[o].at \in Gates
  /\ \A o \in Officers : \A q \in post[o].before :
       post[q].pc = "commit" /\ post[q].who = post[o].who
  /\ \A o \in Officers : post[o].pc # "commit" => ~post[o].beaten /\ post[o].before = {}

DeskOK ==
  /\ dispatch \in [Ids -> Ids \cup {None, New}] /\ page \in Page /\ net \subseteq Message
  /\ \A r \in net : /\ r.kind \in {"update", "delete"} => r.d \in Ids
                    /\ r.kind = "create" /\ r.stage = "answered" => r.result # {}
  /\ swapped \in BOOLEAN

TypeOK == BootOK /\ GateOK /\ DeskOK

\* The marker stands before the first row; a seed that runs has inserted those it has
\* not still to do.
Seeding ==
  /\ ~marker => server \in {"down", "marker"} /\ \A p \in People : roster[p] = 0
  /\ server = "marker" => ~marker
  /\ server = "roster" => \A p \in People : roster[p] = IF p \in todo THEN 0 ELSE 1
  /\ \A p \in People : roster[p] <= 1
  /\ marker /\ ~halted /\ server # "roster" => \A p \in People : roster[p] = 1

\* Officer o inserts an entry of p, and then has inserted the newest one and not yet
\* shown it; nobody else does.
Entering(o, p) == post[o].pc \in {"commit", "update"} /\ post[o].who = p
Updating(o, p) == post[o].pc = "update" /\ post[o].who = p

Shown(p) ==
  /\ \A o \in Officers : Updating(o, p) => newest[p] = post[o].at
  /\ \A o, q \in Officers : Entering(o, p) /\ Entering(q, p) => o = q
  /\ \A o \in Officers : Entering(o, p) => ~post[o].beaten /\ post[o].before = {}
  /\ (\A o \in Officers : ~Updating(o, p)) => last[p] = newest[p]

Checkpoints ==
  /\ server # "up" => \A o \in Officers : post[o].pc = "idle"
  /\ ~halted /\ server # "entries" => \A p \in People \ raced : Shown(p)

\* The save of the page on display that is under way, if any.
Saves(r) == r.kind \in {"create", "update"} /\ r.live

\* One save at a time; the form holds what is selected, and a request what it was
\* sent for.
Texts ==
  /\ \A r \in net : Saves(r) => page.saving
  /\ \A q, r \in net : Saves(q) /\ Saves(r) => q = r
  /\ ~swapped =>
       /\ \A d \in Ids : dispatch[d] \in {None, d}
       /\ page.of = IF page.selected = None THEN New ELSE page.selected
       /\ Creating => page.selected = None
       /\ \A r \in net : /\ r.kind = "create" => r.of = New
                         /\ r.kind = "update" => r.of = r.d

IInv == TypeOK /\ Seeding /\ Checkpoints /\ Texts
=============================================================================
