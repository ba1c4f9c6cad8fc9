---------------------------- MODULE SentinelProofs ---------------------------
(***************************************************************************)
(* Proofs about Sentinel, for any roster and any number of officers,        *)
(* dispatches, requests under way and stops.                               *)
(***************************************************************************)
EXTENDS Sentinel, TLAPS

-----------------------------------------------------------------------------
(* The records: an officer's recording, the page, its requests.              *)

LEMMA IdlePost ==
  Idle \in Post /\ Idle.pc = "idle" /\ Idle.before = {} /\ ~Idle.beaten
BY DEF Idle, Post

\* What a recording leaves of the others': more of them are beaten.
Others(o, more) ==
  \A q \in Officers \ {o} :
    /\ post'[q] \in Post
    /\ post'[q].pc = post[q].pc /\ post'[q].who = post[q].who /\ post'[q].at = post[q].at
    /\ post'[q].before \subseteq post[q].before \ {o}
    /\ post'[q].beaten => post[q].beaten \/ q \in more

LEMMA PostTyped ==
  ASSUME GateOK, NEW o \in Officers, NEW j \in Post, post' \in [Officers -> Post],
         NEW more, post'[o] = j, Others(o, more), \A q \in more : post[q].pc = "commit",
         j.pc # "idle" => j.who \in People /\ j.at \in Gates,
         j.pc # "commit" => ~j.beaten /\ j.before = {},
         \A q \in j.before : q # o /\ post[q].pc = "commit" /\ post[q].who = j.who,
         newest' \in [People -> Gates \cup {None}], last' \in [People -> Gates \cup {None}],
         raced' \subseteq People
  PROVE  GateOK'
<1>1. \A q \in Officers : post'[q].pc # "idle" =>
        post'[q].who \in People /\ post'[q].at \in Gates
  BY DEF GateOK, Others
<1>2. ASSUME NEW x \in Officers, NEW q \in post'[x].before
      PROVE  post'[q].pc = "commit" /\ post'[q].who = post'[x].who
  <2>1. q \in Officers
    BY <1>2 DEF Post
  <2>2. CASE x = o
    BY <2>1, <2>2 DEF Others
  <2>3. CASE x # o
    BY <2>1, <2>3 DEF GateOK, Others
  <2> QED
    BY <2>2, <2>3
<1>3. ASSUME NEW x \in Officers, post'[x].pc # "commit"
      PROVE  ~post'[x].beaten /\ post'[x].before = {}
  <2>1. CASE x = o
    BY <1>3, <2>1
  <2>2. CASE x # o
    BY <1>3, <2>2 DEF GateOK, Others
  <2> QED
    BY <2>1, <2>2
<1> QED
  BY <1>1, <1>2, <1>3 DEF GateOK

LEMMA PostSet ==
  ASSUME GateOK, NEW o \in Officers, NEW j \in Post, post[o].pc # "commit",
         post' = [post EXCEPT ![o] = j]
  PROVE  post' \in [Officers -> Post] /\ post'[o] = j /\ Others(o, {})
<1>1. \A q \in Officers : o \notin post[q].before
  BY DEF GateOK
<1> QED
  BY <1>1 DEF GateOK, Others, Post

LEMMA MountedPage ==
  /\ Mounted \in Page /\ Mounted.list = {} /\ Mounted.selected = None
  /\ Mounted.of = New /\ Mounted.saving = FALSE
BY DEF Mounted, Page

LEMMA RequestFields ==
  ASSUME DeskOK, NEW kind \in {"load", "create", "update", "delete"}, NEW d \in Ids \cup {None}
  PROVE  /\ Request(kind, d) \in Message
         /\ Request(kind, d).kind = kind /\ Request(kind, d).d = d
         /\ Request(kind, d).of = page.of /\ Request(kind, d).live
         /\ Request(kind, d).stage = "sent"
<1>1. page.of \in Ids \cup {New}
  BY DEF DeskOK, Page
<1> QED
  BY <1>1 DEF Request, Message

LEMMA StaleFields ==
  ASSUME NEW r \in Message
  PROVE  /\ [r EXCEPT !.live = FALSE] \in Message
         /\ [r EXCEPT !.live = FALSE].live = FALSE
         /\ [r EXCEPT !.live = FALSE].kind = r.kind /\ [r EXCEPT !.live = FALSE].d = r.d
         /\ [r EXCEPT !.live = FALSE].of = r.of /\ [r EXCEPT !.live = FALSE].stage = r.stage
         /\ [r EXCEPT !.live = FALSE].result = r.result
BY DEF Message

\* The answer is the request with a result.
LEMMA AnswerFields ==
  ASSUME NEW r \in Message, NEW result \in SUBSET Ids, Answer(r, result)
  PROVE  \E a \in Message :
           /\ net' = (net \ {r}) \cup {a}
           /\ a.kind = r.kind /\ a.d = r.d /\ a.of = r.of /\ a.live = r.live
           /\ a.stage = "answered" /\ a.result = result
<1> DEFINE a == [r EXCEPT !.stage = "answered", !.result = result]
<1>1. /\ a \in Message /\ a.kind = r.kind /\ a.d = r.d /\ a.of = r.of /\ a.live = r.live
      /\ a.stage = "answered" /\ a.result = result
  BY DEF Message
<1>2. net' = (net \ {r}) \cup {a}
  BY DEF Answer
<1> QED
  BY <1>1, <1>2

LEMMA PageFields ==
  ASSUME DeskOK
  PROVE  /\ page \in Page /\ page.list \subseteq Ids /\ page.selected \in Ids \cup {None}
         /\ page.of \in Ids \cup {New} /\ page.saving \in BOOLEAN
BY DEF DeskOK, Page

LEMMA Absent == None \notin Ids /\ None # New /\ New \notin Ids
BY SentinelAssumption DEF Ids, New

\* What the page makes of an answer to a request of its own.
LEMMA AfterFields ==
  ASSUME DeskOK, NEW r \in net, r.stage = "answered"
  PROVE  /\ After(r) \in Page
         /\ r.kind = "load" => /\ After(r).selected = page.selected /\ After(r).of = page.of
                               /\ After(r).saving = page.saving
         /\ r.kind = "create" =>
              /\ After(r).selected \in r.result /\ After(r).saving = FALSE
              /\ After(r).of = IF page.of = New /\ ~swapped THEN After(r).selected ELSE page.of
         /\ r.kind = "update" => /\ After(r).selected = page.selected /\ After(r).of = page.of
                                 /\ After(r).saving = FALSE
         /\ r.kind = "delete" => /\ After(r).saving = page.saving
                                 /\ IF r.result # {}
                                    THEN After(r).selected = None /\ After(r).of = New
                                    ELSE After(r) = page
<1>1. /\ r \in Message /\ r.kind \in {"load", "create", "update", "delete"}
      /\ r.result \subseteq Ids /\ (r.kind = "create" => r.result # {})
  BY DEF DeskOK, Message
<1>2. CASE r.kind = "load"
  <2>1. After(r) = [page EXCEPT !.list = r.result]
    BY <1>1, <1>2 DEF After
  <2> QED
    BY <1>1, <1>2, <2>1, PageFields DEF Page
<1>3. CASE r.kind = "create"
  <2> DEFINE d == CHOOSE e \in r.result : TRUE
  <2>1. d \in r.result /\ d \in Ids
    BY <1>1, <1>3
  <2> DEFINE of == IF page.of = New /\ ~swapped THEN d ELSE page.of
             list == page.list \cup {d}
  <2>2. After(r) = [page EXCEPT !.list = list, !.selected = d, !.saving = FALSE, !.of = of]
    BY <1>3 DEF After
  <2>3. list \in SUBSET Ids /\ of \in Ids \cup {New}
    BY <2>1, PageFields
  <2> HIDE DEF of, list, d
  <2>4. /\ After(r) \in Page /\ After(r).selected = d /\ After(r).saving = FALSE
        /\ After(r).of = of
    BY <2>1, <2>2, <2>3, PageFields DEF Page
  <2>5. After(r).of = IF page.of = New /\ ~swapped THEN d ELSE page.of
    BY <2>4 DEF of
  <2> QED
    BY <1>3, <2>1, <2>4, <2>5
<1>4. CASE r.kind = "update"
  <2>1. After(r) = [page EXCEPT !.saving = FALSE]
    BY <1>4 DEF After
  <2> QED
    BY <1>1, <1>4, <2>1, PageFields DEF Page
<1>5. CASE r.kind = "delete" /\ r.result # {}
  <2>1. After(r) = [page EXCEPT !.list = @ \ {r.d}, !.selected = None, !.of = New]
    BY <1>5 DEF After
  <2> QED
    BY <1>1, <1>5, <2>1, PageFields DEF Page
<1>6. CASE r.kind = "delete" /\ r.result = {}
  <2>1. After(r) = page
    BY <1>6 DEF After
  <2> QED
    BY <1>1, <1>6, <2>1, PageFields
<1> QED
  BY <1>1, <1>2, <1>3, <1>4, <1>5, <1>6

-----------------------------------------------------------------------------
(* The server's starts and its seed.                                        *)

LEMMA BootKeeps == TypeOK /\ Seeding /\ [Next]_vars => BootOK' /\ Seeding'
<1> SUFFICES ASSUME TypeOK, Seeding, [Next]_vars PROVE BootOK' /\ Seeding'
  OBVIOUS
<1> USE DEF TypeOK, BootOK
<1>1. CASE Start
  BY <1>1 DEF Start, Seeding
<1>2. CASE SeedMarker
  <2>1. /\ marker' = TRUE /\ server' = "roster" /\ todo' = People /\ server = "marker"
        /\ UNCHANGED <<roster, halted>>
    BY <1>2 DEF SeedMarker
  <2> QED
    BY <2>1 DEF Seeding
<1>3. ASSUME NEW p \in People, SeedPerson(p) PROVE BootOK' /\ Seeding'
  <2>1. /\ server = "roster" /\ p \in todo /\ UNCHANGED <<marker, halted>>
        /\ roster' = [roster EXCEPT ![p] = @ + 1]
        /\ IF todo = {p} THEN server' = "entries" /\ todo' = Posted
                         ELSE server' = "roster" /\ todo' = todo \ {p}
    BY <1>3 DEF SeedPerson
  <2>2. roster[p] = 0 /\ \A q \in People : roster[q] = IF q \in todo THEN 0 ELSE 1
    BY <2>1 DEF Seeding
  <2>3. /\ roster' \in [People -> Nat] /\ roster'[p] = 1
        /\ \A q \in People \ {p} : roster'[q] = roster[q]
    BY <2>1, <2>2
  <2>4. \A q \in People : roster'[q] \in {0, 1} /\ (q \notin todo \ {p} => roster'[q] = 1)
    BY <2>2, <2>3
  <2>5. BootOK'
    BY <2>1, <2>3, SentinelAssumption
  <2>6. marker
    BY <2>1 DEF Seeding
  <2>7. CASE todo = {p}
    BY <2>1, <2>4, <2>5, <2>6, <2>7 DEF Seeding
  <2>8. CASE todo # {p}
    <3>1. \A q \in People : roster'[q] = IF q \in todo' THEN 0 ELSE 1
      BY <2>1, <2>2, <2>3, <2>8
    <3> QED
      BY <2>1, <2>4, <2>5, <2>6, <2>8, <3>1 DEF Seeding
  <2> QED
    BY <2>7, <2>8
<1>4. ASSUME NEW p \in People, NEW g \in Gates, SeedEntry(p, g) PROVE BootOK' /\ Seeding'
  BY <1>4 DEF SeedEntry, Seeding
<1>5. CASE SeedLast
  BY <1>5 DEF SeedLast, Seeding
<1>6. CASE Stop
  <2>1. /\ server' = "down" /\ todo' = {} /\ UNCHANGED <<marker, roster>>
        /\ halted' = (halted \/ server \in {"roster", "entries"})
    BY <1>6 DEF Stop
  <2> QED
    BY <2>1 DEF Seeding
<1>7. CASE UNCHANGED boot
  BY <1>7 DEF boot, Seeding
<1>8. UNCHANGED boot \/ Start \/ Seed \/ Stop
  BY DEF Next, Editing, Recording, Answering, Mount, NewDispatch, Save, Delete, Select,
     DeletedElsewhere, RecordInsert, RecordCommit, RecordUpdate, RecordFails, Record, ServeLoad,
     ServeUpdate, ServeDelete, ServeCreate, Deliver, Lose, vars
<1> QED
  BY <1>1, <1>2, <1>3, <1>4, <1>5, <1>6, <1>7, <1>8 DEF Seed

-----------------------------------------------------------------------------
(* Checkpoints.                                                             *)

\* Nobody else is about to show an entry of p: what one recording does to p.
LEMMA ShownFrame ==
  ASSUME NEW p \in People, Shown(p), newest'[p] = newest[p], last'[p] = last[p],
         \A o \in Officers : Entering(o, p)' \/ Entering(o, p) =>
           /\ post'[o].pc = post[o].pc /\ post'[o].who = post[o].who
           /\ post'[o].at = post[o].at
           /\ post'[o].before \subseteq post[o].before
           /\ post'[o].beaten => post[o].beaten
  PROVE  Shown(p)'
BY DEF Shown, Entering, Updating

LEMMA CheckpointsFrame ==
  ASSUME Checkpoints, server' = server, halted' = halted, UNCHANGED gate
  PROVE  Checkpoints'
BY DEF Checkpoints, Shown, Entering, Updating, gate

LEMMA GateKeeps == TypeOK /\ Checkpoints /\ [Next]_vars => GateOK' /\ Checkpoints'
<1> SUFFICES ASSUME TypeOK, Checkpoints, [Next]_vars PROVE GateOK' /\ Checkpoints'
  OBVIOUS
<1>1. CASE Start
  <2>1. UNCHANGED gate /\ halted' = halted /\ server = "down" /\ server' \in {"up", "marker"}
    BY <1>1 DEF Start
  <2>2. \A o \in Officers : post[o].pc = "idle"
    BY <2>1 DEF Checkpoints
  <2> QED
    BY <2>1, <2>2 DEF TypeOK, GateOK, Checkpoints, Shown, Entering, Updating, gate
<1>2. CASE SeedMarker \/ \E p \in People : SeedPerson(p)
  <2>1. /\ UNCHANGED gate /\ halted' = halted /\ server \in {"marker", "roster"}
        /\ server' \in {"roster", "entries"}
    BY <1>2 DEF SeedMarker, SeedPerson
  <2>2. \A o \in Officers : post[o].pc = "idle"
    BY <2>1 DEF Checkpoints
  <2> QED
    BY <2>1, <2>2 DEF TypeOK, GateOK, Checkpoints, Shown, Entering, Updating, gate
<1>3. ASSUME NEW p \in People, NEW g \in Gates, SeedEntry(p, g) PROVE GateOK' /\ Checkpoints'
  <2>1. /\ server = "entries" /\ server' = "entries" /\ UNCHANGED <<last, post, raced>>
        /\ newest' = [newest EXCEPT ![p] = g]
    BY <1>3 DEF SeedEntry
  <2> QED
    BY <2>1 DEF TypeOK, GateOK, Checkpoints
<1>4. CASE SeedLast
  <2>1. /\ server = "entries" /\ server' = "up" /\ UNCHANGED <<newest, post, raced>>
        /\ last' = newest
    BY <1>4 DEF SeedLast
  <2>2. \A o \in Officers : post[o].pc = "idle"
    BY <2>1 DEF Checkpoints
  <2> QED
    BY <2>1, <2>2 DEF TypeOK, GateOK, Checkpoints, Shown, Entering, Updating
<1>5. CASE Stop
  <2> DEFINE half == {post[o].who : o \in {q \in Officers : post[q].pc = "update"}}
  <2>1. /\ server' = "down" /\ raced' = raced \cup half /\ UNCHANGED <<newest, last>>
        /\ post' = [o \in Officers |-> Idle]
        /\ halted' = (halted \/ server \in {"roster", "entries"})
    BY <1>5 DEF Stop
  <2>2. half \subseteq People /\ \A p \in People \ half, o \in Officers : ~Updating(o, p)
    BY DEF TypeOK, GateOK, Updating
  <2>3. \A o \in Officers : post'[o] = Idle /\ post'[o].pc = "idle"
    BY <2>1, IdlePost
  <2>4. GateOK'
    BY <2>1, <2>2, <2>3, IdlePost DEF TypeOK, GateOK
  <2> HIDE DEF half
  <2>5. ASSUME ~halted', NEW p \in People \ raced' PROVE Shown(p)'
    <3>1. last[p] = newest[p]
      BY <2>1, <2>2, <2>5 DEF Checkpoints, Shown
    <3> QED
      BY <2>1, <2>3, <3>1 DEF Shown, Entering, Updating
  <2> QED
    BY <2>1, <2>3, <2>4, <2>5 DEF Checkpoints
<1>6. ASSUME NEW o \in Officers, NEW p \in People, NEW g \in Gates, Record(o, p, g)
      PROVE  GateOK' /\ Checkpoints'
  <2> DEFINE j == [Idle EXCEPT !.pc = "insert", !.who = p, !.at = g]
  <2>1. /\ server = "up" /\ post[o].pc = "idle" /\ post' = [post EXCEPT ![o] = j]
        /\ UNCHANGED <<boot, newest, last, raced>>
    BY <1>6 DEF Record
  <2>2. /\ j \in Post /\ j.pc = "insert" /\ j.who = p /\ j.at = g
        /\ j.before = {} /\ ~j.beaten
    BY DEF Idle, Post
  <2> HIDE DEF j
  <2>3. post' \in [Officers -> Post] /\ post'[o] = j /\ Others(o, {})
    BY <2>1, <2>2, PostSet DEF TypeOK
  <2>4. GateOK'
    BY <2>1, <2>2, <2>3, PostTyped DEF TypeOK, GateOK
  <2>5. ASSUME NEW x \in People, Shown(x) PROVE Shown(x)'
    <3>1. \A q \in Officers : Entering(q, x)' \/ Entering(q, x) => q # o
      BY <2>1, <2>2, <2>3 DEF Entering
    <3> QED
      BY <2>1, <2>3, <2>5, <3>1, ShownFrame DEF Others, Entering
  <2> QED
    BY <2>1, <2>4, <2>5 DEF Checkpoints, boot
<1>7. ASSUME NEW o \in Officers, RecordInsert(o) PROVE GateOK' /\ Checkpoints'
  <2> DEFINE beside == Beside(o, {"commit"})
  <2>1. /\ post[o].pc = "insert" /\ post[o] \in Post /\ ~post[o].beaten
        /\ post[o].who \in People /\ post[o].at \in Gates
    BY <1>7 DEF RecordInsert, TypeOK, GateOK
  <2> PICK p \in People : p = post[o].who
    BY <2>1
  <2> DEFINE j == [post[o] EXCEPT !.pc = "commit", !.before = beside]
  <2>2. /\ post' = [post EXCEPT ![o] = j]
        /\ raced' = IF Beside(o, {"commit", "update"}) = {} THEN raced ELSE raced \cup {p}
        /\ UNCHANGED <<boot, newest, last>>
    BY <1>7 DEF RecordInsert, TypeOK, GateOK
  <2>3. /\ beside \in SUBSET Officers
        /\ \A q \in beside : q # o /\ post[q].pc = "commit" /\ post[q].who = p
        /\ beside \subseteq Beside(o, {"commit", "update"})
    BY DEF Beside
  <2> HIDE DEF beside
  <2>4. /\ j \in Post /\ j.pc = "commit" /\ j.who = p /\ j.at = post[o].at
        /\ j.before = beside /\ j.beaten = post[o].beaten
    BY <2>1, <2>3 DEF Post
  <2> HIDE DEF j
  <2>5. post' \in [Officers -> Post] /\ post'[o] = j /\ Others(o, {})
    BY <2>1, <2>2, <2>4, PostSet DEF TypeOK
  <2>6. GateOK'
    BY <2>1, <2>2, <2>3, <2>4, <2>5, PostTyped DEF TypeOK, GateOK
  <2>7. server = "up"
    BY <2>1 DEF Checkpoints
  <2>8. ASSUME ~halted, NEW x \in People \ raced' PROVE Shown(x)'
    <3>1. Shown(x)
      BY <2>2, <2>7, <2>8 DEF Checkpoints
    <3>2. CASE x # p
      <4>1. \A q \in Officers : Entering(q, x)' \/ Entering(q, x) => q # o
        BY <2>1, <2>4, <2>5, <3>2 DEF Entering
      <4> QED
        BY <2>1, <2>2, <2>5, <3>1, <4>1, ShownFrame DEF Others, Entering, TypeOK, GateOK
    <3>3. CASE x = p
      \* the only one to insert an entry of p: otherwise they overlap
      <4>1. Beside(o, {"commit", "update"}) = {}
        BY <2>2, <2>8, <3>3
      <4>2. \A q \in Officers \ {o} : ~Entering(q, p) /\ ~Entering(q, p)'
        BY <2>5, <4>1 DEF Beside, Entering, Others
      <4>3. \A q \in Officers : ~Updating(q, p) /\ ~Updating(q, p)'
        BY <2>1, <2>4, <2>5, <4>2 DEF Entering, Updating
      <4>4. Entering(o, p)' => ~post'[o].beaten /\ post'[o].before = {}
        BY <2>1, <2>3, <2>4, <2>5, <4>1
      <4> QED
        BY <2>2, <3>1, <3>3, <4>2, <4>3, <4>4 DEF Shown
    <3> QED
      BY <3>2, <3>3
  <2> QED
    BY <2>2, <2>6, <2>7, <2>8 DEF Checkpoints, boot
<1>8. ASSUME NEW o \in Officers, RecordCommit(o) PROVE GateOK' /\ Checkpoints'
  <2>1. /\ post[o].pc = "commit" /\ post[o] \in Post
        /\ post[o].who \in People /\ post[o].at \in Gates
    BY <1>8 DEF RecordCommit, TypeOK, GateOK
  <2> PICK p \in People : p = post[o].who
    BY <2>1
  <2> DEFINE j == [post[o] EXCEPT !.pc = "update", !.before = {}, !.beaten = FALSE]
             k(q) == [post[q] EXCEPT !.before = @ \ {o}, !.beaten = @ \/ q \in post[o].before]
  <2>2. /\ post' = [q \in Officers |-> IF q = o THEN j ELSE k(q)]
        /\ newest' = IF post[o].beaten THEN newest ELSE [newest EXCEPT ![p] = post[o].at]
        /\ UNCHANGED <<boot, last, raced>>
    BY <1>8 DEF RecordCommit
  <2>3. /\ j \in Post /\ j.pc = "update" /\ j.who = p /\ j.at = post[o].at
        /\ j.before = {} /\ ~j.beaten
    BY <2>1 DEF Post
  <2>4. ASSUME NEW q \in Officers
        PROVE  /\ k(q) \in Post /\ k(q).pc = post[q].pc /\ k(q).who = post[q].who
               /\ k(q).at = post[q].at /\ k(q).before = post[q].before \ {o}
               /\ k(q).beaten = (post[q].beaten \/ q \in post[o].before)
    <3>1. post[q] \in Post /\ (post[q].beaten \/ q \in post[o].before) \in BOOLEAN
      BY DEF TypeOK, GateOK, Post
    <3> QED
      BY <3>1 DEF Post
  <2> HIDE DEF j, k
  <2>5. post' \in [Officers -> Post] /\ post'[o] = j /\ Others(o, post[o].before)
    BY <2>2, <2>3, <2>4 DEF Others
  <2>6. /\ newest' \in [People -> Gates \cup {None}]
        /\ ~post[o].beaten => newest'[p] = post[o].at
        /\ \A x \in People \ {p} : newest'[x] = newest[x]
    BY <2>1, <2>2 DEF TypeOK, GateOK
  <2>7. GateOK'
    <3>1. last' \in [People -> Gates \cup {None}] /\ raced' \subseteq People
      BY <2>2 DEF TypeOK, GateOK
    <3>2. \A q \in post[o].before : post[q].pc = "commit"
      BY DEF TypeOK, GateOK
    <3>3. GateOK /\ j.who \in People /\ j.at \in Gates
      BY <2>1, <2>3 DEF TypeOK
    <3>4. j \in Post /\ j.before = {} /\ ~j.beaten /\ j.pc = "update"
      BY <2>3
    <3>5. newest' \in [People -> Gates \cup {None}]
      BY <2>6
    <3> QED
      BY <2>5, <3>1, <3>2, <3>3, <3>4, <3>5, PostTyped
  <2>8. server = "up"
    BY <2>1 DEF Checkpoints
  <2>9. ASSUME ~halted, NEW x \in People \ raced' PROVE Shown(x)'
    <3>1. Shown(x)
      BY <2>2, <2>8, <2>9 DEF Checkpoints
    <3>2. CASE x # p
      <4>1. \A q \in Officers : Entering(q, x)' \/ Entering(q, x) =>
              q # o /\ q \notin post[o].before
        BY <2>1, <2>3, <2>5, <3>2 DEF Entering, Others, TypeOK, GateOK
      <4> QED
        BY <2>2, <2>5, <2>6, <3>1, <3>2, <4>1, ShownFrame DEF Others, Entering
    <3>3. CASE x = p
      <4>1. Entering(o, p) /\ ~post[o].beaten
        BY <2>1, <3>1, <3>3 DEF Entering, Shown
      <4>2. \A q \in Officers \ {o} : ~Entering(q, p)'
        BY <2>5, <3>1, <3>3, <4>1 DEF Entering, Others, Shown
      <4>3. Updating(o, p)'
        BY <2>3, <2>5 DEF Updating
      <4> QED
        BY <2>3, <2>5, <2>6, <3>3, <4>1, <4>2, <4>3 DEF Shown, Updating, Entering
    <3> QED
      BY <3>2, <3>3
  <2> QED
    BY <2>2, <2>7, <2>8, <2>9 DEF Checkpoints, boot
<1>9. ASSUME NEW o \in Officers, RecordUpdate(o) \/ RecordFails(o)
      PROVE  GateOK' /\ Checkpoints'
  <2>1. /\ post[o].pc # "idle" /\ post[o].who \in People /\ post[o].at \in Gates
    BY <1>9 DEF RecordUpdate, RecordFails, TypeOK, GateOK
  <2> PICK p \in People : p = post[o].who
    BY <2>1
  <2>2. UNCHANGED <<boot, newest>>
    BY <1>9 DEF RecordUpdate, RecordFails
  <2>3. post' \in [Officers -> Post] /\ post'[o] = Idle /\ Others(o, {})
    <3>1. CASE RecordUpdate(o)
      BY <3>1, IdlePost, PostSet DEF RecordUpdate, TypeOK
    <3>2. CASE RecordFails(o)
      <4> DEFINE k(q) == [post[q] EXCEPT !.before = @ \ {o}]
      <4>1. post' = [q \in Officers |-> IF q = o THEN Idle ELSE k(q)]
        BY <3>2 DEF RecordFails
      <4>2. ASSUME NEW q \in Officers
            PROVE  /\ k(q) \in Post /\ k(q).pc = post[q].pc /\ k(q).who = post[q].who
                   /\ k(q).at = post[q].at /\ k(q).before = post[q].before \ {o}
                   /\ k(q).beaten = post[q].beaten
        BY DEF TypeOK, GateOK, Post
      <4> HIDE DEF k
      <4> QED
        BY <4>1, <4>2, IdlePost DEF Others
    <3> QED
      BY <1>9, <3>1, <3>2
  <2>4. \/ /\ post[o].pc = "update" /\ last' = [last EXCEPT ![p] = post[o].at]
           /\ raced' = raced
        \/ /\ last' = last
           /\ raced' = IF post[o].pc = "update" THEN raced \cup {p} ELSE raced
    BY <1>9 DEF RecordUpdate, RecordFails
  <2>5. /\ last' \in [People -> Gates \cup {None}] /\ raced' \subseteq People
        /\ raced \subseteq raced' /\ \A x \in People \ {p} : last'[x] = last[x]
        /\ p \notin raced' => /\ post[o].pc = "update" => last'[p] = post[o].at
                              /\ post[o].pc # "update" => last'[p] = last[p]
    BY <2>1, <2>4 DEF TypeOK, GateOK
  <2>6. GateOK'
    BY <2>2, <2>3, <2>5, IdlePost, PostTyped DEF TypeOK, GateOK
  <2>7. server = "up"
    BY <2>1 DEF Checkpoints
  <2>8. /\ ~Entering(o, p)' /\ ~Updating(o, p)'
        /\ \A x \in People \ {p} : ~Entering(o, x) /\ ~Entering(o, x)'
    BY <2>3, IdlePost DEF Entering, Updating
  <2>9. ASSUME ~halted, NEW x \in People \ raced' PROVE Shown(x)'
    <3>1. Shown(x)
      BY <2>5, <2>7, <2>9 DEF Checkpoints
    <3>2. CASE x # p \/ ~Entering(o, p)
      <4>1. \A q \in Officers : Entering(q, x)' \/ Entering(q, x) => q # o
        BY <2>8, <3>2
      <4>2. last'[x] = last[x]
        BY <2>5, <2>9, <3>2 DEF Entering
      <4> QED
        BY <2>2, <2>3, <3>1, <4>1, <4>2, ShownFrame DEF Others, Entering
    <3>3. CASE x = p /\ Entering(o, p)
      <4>1. \A q \in Officers \ {o} : ~Entering(q, p)'
        BY <2>3, <3>1, <3>3 DEF Entering, Others, Shown
      <4>2. \A q \in Officers : ~Entering(q, p)' /\ ~Updating(q, p)'
        BY <2>8, <4>1 DEF Entering, Updating
      <4>3. last'[p] = newest[p]
        <5>1. CASE post[o].pc = "update"
          BY <2>5, <2>9, <3>1, <3>3, <5>1 DEF Shown, Updating
        <5>2. CASE post[o].pc # "update"
          BY <2>5, <2>9, <3>1, <3>3, <5>2 DEF Shown, Updating, Entering
        <5> QED
          BY <5>1, <5>2
      <4> QED
        BY <2>2, <3>3, <4>2, <4>3 DEF Shown
    <3> QED
      BY <3>2, <3>3
  <2> QED
    BY <2>2, <2>6, <2>7, <2>9 DEF Checkpoints, boot
<1>10. CASE Editing \/ (\E r \in net : Answering(r)) \/ UNCHANGED vars
  <2>1. UNCHANGED <<boot, gate>>
    BY <1>10 DEF Editing, Answering, Mount, NewDispatch, Save, Delete, Select,
       DeletedElsewhere, ServeLoad, ServeUpdate, ServeDelete, ServeCreate, Deliver, Lose, vars
  <2> QED
    BY <2>1, CheckpointsFrame DEF boot, gate, TypeOK, GateOK
<1> QED
  BY <1>1, <1>2, <1>3, <1>4, <1>5, <1>6, <1>7, <1>8, <1>9, <1>10 DEF Next, Seed, Recording

-----------------------------------------------------------------------------
(* Dispatches.                                                              *)

LEMMA DeskFrame ==
  ASSUME DeskOK, Texts, UNCHANGED <<page, net, swapped>>,
         dispatch' \in [Ids -> Ids \cup {None, New}],
         \A d \in Ids : dispatch[d] \in {None, d} => dispatch'[d] \in {None, d}
  PROVE  DeskOK' /\ Texts'
<1>1. DeskOK'
  BY DEF DeskOK
<1> QED
  BY <1>1 DEF Texts, Saves, Creating

\* An answer changes neither who saves what nor the page.
LEMMA AnswerKeeps ==
  ASSUME DeskOK, Texts, NEW r \in net, NEW result \in SUBSET Ids, Answer(r, result),
         r.kind = "create" => result # {}, UNCHANGED <<page, swapped>>,
         dispatch' \in [Ids -> Ids \cup {None, New}],
         ~swapped => \A d \in Ids : dispatch'[d] \in {None, d}
  PROVE  DeskOK' /\ Texts'
<1>1. r \in Message
  BY DEF DeskOK
<1>2. PICK a \in Message :
        /\ net' = (net \ {r}) \cup {a}
        /\ a.kind = r.kind /\ a.d = r.d /\ a.of = r.of /\ a.live = r.live
        /\ a.stage = "answered" /\ a.result = result
  BY <1>1, AnswerFields
<1>3. DeskOK'
  <2>1. net' \subseteq Message
    BY <1>2 DEF DeskOK
  <2>2. \A m \in net' : /\ m.kind \in {"update", "delete"} => m.d \in Ids
                        /\ m.kind = "create" /\ m.stage = "answered" => m.result # {}
    BY <1>2 DEF DeskOK
  <2> QED
    BY <2>1, <2>2 DEF DeskOK
<1>4. /\ Saves(a) <=> Saves(r)
      /\ \A m \in net' : m = a \/ (m \in net /\ m # r)
  BY <1>2 DEF Saves
<1>5. \A m \in net' : Saves(m) => page.saving
  BY <1>4 DEF Texts
<1>6. \A q, m \in net' : Saves(q) /\ Saves(m) => q = m
  BY <1>4 DEF Texts
<1>7. Creating' => Creating
  BY <1>2 DEF Creating
<1>8. ~swapped => \A m \in net' : /\ m.kind = "create" => m.of = New
                                  /\ m.kind = "update" => m.of = m.d
  BY <1>2, <1>4 DEF Texts
<1>9. /\ page' = page /\ swapped' = swapped
      /\ ~swapped => page.of = (IF page.selected = None THEN New ELSE page.selected)
      /\ ~swapped => (Creating => page.selected = None)
  BY DEF Texts
<1> QED
  BY <1>3, <1>5, <1>6, <1>7, <1>8, <1>9 DEF Texts, Saves

\* The officer acts on the editor: what it sends goes with what the form holds.
LEMMA EditKeeps ==
  ASSUME DeskOK, Texts, Editing PROVE DeskOK' /\ Texts'
<1> USE PageFields, Absent
<1>1. CASE Mount
  <2> DEFINE load == Request("load", None)
  <2>1. /\ page' = Mounted /\ UNCHANGED <<dispatch, swapped>>
        /\ net' = {[r EXCEPT !.live = FALSE] : r \in {q \in net : q.kind # "load"}} \cup {load}
    BY <1>1 DEF Mount
  <2>2. load \in Message /\ load.kind = "load" /\ load.stage = "sent"
    <3>1. "load" \in {"load", "create", "update", "delete"} /\ None \in Ids \cup {None}
      OBVIOUS
    <3> QED
      BY ONLY DeskOK, <3>1, RequestFields
  <2> HIDE DEF load
  <2>3. ASSUME NEW m \in net'
        PROVE  /\ m \in Message
               /\ \/ m = load
                  \/ \E r \in net : /\ m.kind = r.kind /\ m.d = r.d /\ m.of = r.of
                                    /\ m.live = FALSE /\ m.stage = r.stage
                                    /\ m.result = r.result
    <3>1. CASE m = load
      BY <2>2, <3>1
    <3>2. CASE m # load
      <4>1. PICK r \in net : m = [r EXCEPT !.live = FALSE]
        BY <2>1, <3>2
      <4>2. r \in Message
        BY DEF DeskOK
      <4> QED
        BY <4>1, <4>2, StaleFields
    <3> QED
      BY <3>1, <3>2
  <2>4. \A m \in net' : /\ m.kind \in {"update", "delete"} => m.d \in Ids
                        /\ m.kind = "create" /\ m.stage = "answered" => m.result # {}
    BY <2>2, <2>3 DEF DeskOK
  <2>5. DeskOK'
    BY <2>1, <2>3, <2>4, MountedPage DEF DeskOK
  <2>6. \A m \in net' : ~Saves(m)
    BY <2>2, <2>3 DEF Saves
  <2>7. ~Creating'
    BY <2>6 DEF Creating, Saves
  <2>8. ~swapped => \A m \in net' : /\ m.kind = "create" => m.of = New
                                    /\ m.kind = "update" => m.of = m.d
    BY <2>2, <2>3 DEF Texts
  <2>9. ~swapped => \A d \in Ids : dispatch[d] \in {None, d}
    BY DEF Texts
  <2> QED
    BY <2>1, <2>5, <2>6, <2>7, <2>8, <2>9, MountedPage DEF Texts, Saves
<1>2. ASSUME NEW of \in Ids \cup {New}, NEW selected \in Ids \cup {None},
             page' = [page EXCEPT !.selected = selected, !.of = of],
             of = IF selected = None THEN New ELSE selected,
             swapped' = (swapped \/ Creating), UNCHANGED <<dispatch, net>>
      PROVE  DeskOK' /\ Texts'
  <2>1. /\ page' \in Page /\ page'.selected = selected /\ page'.of = of
        /\ page'.saving = page.saving
    BY <1>2 DEF Page
  <2>2. DeskOK'
    BY <1>2, <2>1 DEF DeskOK
  <2>3. Creating' <=> Creating
    BY <1>2 DEF Creating
  <2> QED
    BY <1>2, <2>1, <2>2, <2>3 DEF Texts, Saves
<1>3. CASE NewDispatch
  <2>1. /\ page' = [page EXCEPT !.selected = None, !.of = New]
        /\ swapped' = (swapped \/ Creating) /\ UNCHANGED <<dispatch, net>>
    BY <1>3 DEF NewDispatch, Edits
  <2> QED
    BY <1>2, <2>1
<1>4. ASSUME NEW d \in Ids, Select(d) PROVE DeskOK' /\ Texts'
  <2>1. /\ page' = [page EXCEPT !.selected = d, !.of = d]
        /\ swapped' = (swapped \/ Creating) /\ UNCHANGED <<dispatch, net>>
    BY <1>4 DEF Select, Edits
  <2> QED
    BY <1>2, <2>1
<1>5. CASE Save
  <2>1. PICK m \in Message :
          /\ net' = net \cup {m} /\ m.live /\ m.stage = "sent" /\ m.of = page.of
          /\ IF page.selected # None THEN m.kind = "update" /\ m.d = page.selected
                                     ELSE m.kind = "create"
    <3>1. CASE page.selected # None
      <4>1. net' = net \cup {Request("update", page.selected)} /\ page.selected \in Ids
        BY <1>5, <3>1 DEF Save, Send
      <4>2. "update" \in {"load", "create", "update", "delete"}
        OBVIOUS
      <4> QED
        BY <3>1, <4>1, <4>2, RequestFields
    <3>2. CASE page.selected = None
      <4>1. net' = net \cup {Request("create", None)} /\ None \in Ids \cup {None}
        BY <1>5, <3>2 DEF Save, Send
      <4>2. "create" \in {"load", "create", "update", "delete"}
        OBVIOUS
      <4> QED
        BY <3>2, <4>1, <4>2, RequestFields
    <3> QED
      BY <3>1, <3>2
  <2>2. ~page.saving /\ page' = [page EXCEPT !.saving = TRUE] /\ UNCHANGED <<dispatch, swapped>>
    BY <1>5 DEF Save, At
  <2>3. /\ page' \in Page /\ page'.selected = page.selected /\ page'.of = page.of
        /\ page'.saving = TRUE
    BY <2>2 DEF Page
  <2>4. DeskOK'
    BY <2>1, <2>2, <2>3 DEF DeskOK
  <2>5. \A r \in net : ~Saves(r)
    BY <2>2 DEF Texts
  <2>6. \A q, r \in net' : Saves(q) /\ Saves(r) => q = r
    BY <2>1, <2>5
  <2>7. Creating' => page.selected = None
    BY <2>1, <2>5 DEF Creating, Saves
  <2>8. ~swapped => \A r \in net' : /\ r.kind = "create" => r.of = New
                                    /\ r.kind = "update" => r.of = r.d
    BY <2>1 DEF Texts
  <2>9. /\ ~swapped => \A d \in Ids : dispatch[d] \in {None, d}
        /\ ~swapped => page.of = (IF page.selected = None THEN New ELSE page.selected)
    BY DEF Texts
  <2> QED
    BY <2>2, <2>3, <2>4, <2>6, <2>7, <2>8, <2>9 DEF Texts, Saves
<1>6. CASE Delete
  <2> DEFINE m == Request("delete", page.selected)
  <2>1. /\ page.selected \in Ids /\ net' = net \cup {m}
        /\ UNCHANGED <<dispatch, page, swapped>>
    BY <1>6 DEF Delete, At, Send
  <2>2. m \in Message /\ m.kind = "delete" /\ m.d = page.selected /\ m.stage = "sent"
    BY RequestFields
  <2> HIDE DEF m
  <2>3. DeskOK'
    BY <2>1, <2>2 DEF DeskOK
  <2>4. \A r \in net' : r \in net \/ (r.kind = "delete" /\ ~Saves(r))
    BY <2>1, <2>2 DEF Saves
  <2>5. Creating' => Creating
    BY <2>1, <2>2 DEF Creating
  <2>6. \A q, r \in net' : Saves(q) /\ Saves(r) => q = r
    BY <2>4 DEF Texts
  <2>7. \A r \in net' : Saves(r) => page.saving
    BY <2>4 DEF Texts
  <2>8. ~swapped => \A r \in net' : /\ r.kind = "create" => r.of = New
                                    /\ r.kind = "update" => r.of = r.d
    BY <2>4 DEF Texts
  <2>9. ~swapped => /\ \A d \in Ids : dispatch[d] \in {None, d}
                    /\ page.of = (IF page.selected = None THEN New ELSE page.selected)
                    /\ Creating => page.selected = None
    BY DEF Texts
  <2> QED
    BY <2>1, <2>3, <2>5, <2>6, <2>7, <2>8, <2>9 DEF Texts, Saves
<1>7. ASSUME NEW d \in Ids, DeletedElsewhere(d) PROVE DeskOK' /\ Texts'
  <2>1. dispatch' = [dispatch EXCEPT ![d] = None] /\ UNCHANGED <<page, net, swapped>>
    BY <1>7 DEF DeletedElsewhere
  <2>2. /\ dispatch' \in [Ids -> Ids \cup {None, New}]
        /\ \A e \in Ids : dispatch[e] \in {None, e} => dispatch'[e] \in {None, e}
    BY <2>1 DEF DeskOK
  <2> QED
    BY <2>1, <2>2, DeskFrame
<1> QED
  BY <1>1, <1>3, <1>4, <1>5, <1>6, <1>7 DEF Editing

\* The server answers: a text goes to the row it was opened from or to a new one.
LEMMA ServeKeeps ==
  ASSUME DeskOK, Texts, NEW r \in net,
         ServeLoad(r) \/ ServeUpdate(r) \/ ServeDelete(r) \/ \E d \in Ids : ServeCreate(r, d)
  PROVE  DeskOK' /\ Texts'
<1>1. r \in Message /\ r.of \in Ids \cup {New}
  BY DEF DeskOK, Message
<1>2. CASE ServeLoad(r)
  <2>1. /\ r.kind = "load" /\ Answer(r, Rows) /\ Rows \in SUBSET Ids
        /\ UNCHANGED <<dispatch, page, swapped>>
    BY <1>2 DEF ServeLoad, Rows
  <2> QED
    BY <2>1, AnswerKeeps DEF DeskOK, Texts
<1>3. CASE ServeUpdate(r)
  <2>1. /\ r.kind = "update" /\ Answer(r, Rows \cap {r.d}) /\ Rows \cap {r.d} \in SUBSET Ids
        /\ r.d \in Ids /\ UNCHANGED <<page, swapped>>
        /\ dispatch' = IF r.d \in Rows THEN [dispatch EXCEPT ![r.d] = r.of] ELSE dispatch
    BY <1>3 DEF ServeUpdate, Rows, DeskOK
  <2>2. dispatch' \in [Ids -> Ids \cup {None, New}]
    BY <1>1, <2>1 DEF DeskOK
  <2>3. ~swapped => \A d \in Ids : dispatch'[d] \in {None, d}
    BY <2>1 DEF DeskOK, Texts
  <2> QED
    BY <2>1, <2>2, <2>3, AnswerKeeps
<1>4. CASE ServeDelete(r)
  <2>1. /\ r.kind = "delete" /\ Answer(r, Rows \cap {r.d}) /\ Rows \cap {r.d} \in SUBSET Ids
        /\ r.d \in Ids /\ UNCHANGED <<page, swapped>>
        /\ dispatch' = [dispatch EXCEPT ![r.d] = None]
    BY <1>4 DEF ServeDelete, Rows, DeskOK
  <2>2. dispatch' \in [Ids -> Ids \cup {None, New}]
    BY <2>1 DEF DeskOK
  <2>3. ~swapped => \A d \in Ids : dispatch'[d] \in {None, d}
    BY <2>1 DEF DeskOK, Texts
  <2> QED
    BY <2>1, <2>2, <2>3, AnswerKeeps
<1>5. ASSUME NEW d \in Ids, ServeCreate(r, d) PROVE DeskOK' /\ Texts'
  <2>1. /\ r.kind = "create" /\ Answer(r, {d}) /\ {d} \in SUBSET Ids /\ {d} # {}
        /\ UNCHANGED <<page, swapped>>
        /\ dispatch' = [dispatch EXCEPT ![d] = IF r.of = New THEN d ELSE r.of]
    BY <1>5 DEF ServeCreate
  <2>2. dispatch' \in [Ids -> Ids \cup {None, New}]
    BY <1>1, <2>1 DEF DeskOK
  <2>3. ~swapped => \A e \in Ids : dispatch'[e] \in {None, e}
    BY <2>1 DEF DeskOK, Texts
  <2> QED
    BY <2>1, <2>2, <2>3, AnswerKeeps
<1> QED
  BY <1>2, <1>3, <1>4, <1>5

\* The page gets an answer.
LEMMA DeliverKeeps ==
  ASSUME DeskOK, Texts, NEW r \in net, Deliver(r) PROVE DeskOK' /\ Texts'
<1> USE PageFields, Absent
<1>1. /\ r.stage = "answered" /\ page' = IF r.live THEN After(r) ELSE page
      /\ swapped' = (swapped \/ (r.live /\ r.kind = "delete" /\ r.result # {} /\ Creating))
      /\ net' = net \ {r} /\ UNCHANGED dispatch
  BY DEF Deliver
<1>2. /\ r \in Message /\ r.kind \in {"load", "create", "update", "delete"}
      /\ r.live \in BOOLEAN /\ r.result \subseteq Ids
  BY DEF DeskOK, Message
<1>3. page' \in Page
  BY <1>1, AfterFields
<1>4. swapped' \in BOOLEAN
  BY <1>1, <1>2 DEF DeskOK, Creating
<1>5. DeskOK'
  BY <1>1, <1>3, <1>4 DEF DeskOK
<1>6. /\ \A m \in net' : m \in net /\ m # r
      /\ \A m, q \in net' : Saves(m) /\ Saves(q) => m = q
      /\ Creating' => Creating
      /\ Saves(r) => \A m \in net' : ~Saves(m)
  BY <1>1 DEF Texts, Creating
<1>7. \A m \in net' : Saves(m) => page'.saving
  BY <1>1, <1>2, <1>6, AfterFields DEF Texts, Saves
<1>8. ASSUME ~swapped'
      PROVE  /\ page'.of = IF page'.selected = None THEN New ELSE page'.selected
             /\ Creating' => page'.selected = None
  <2>1. /\ ~swapped /\ page.of = (IF page.selected = None THEN New ELSE page.selected)
        /\ Creating => page.selected = None
    BY <1>1, <1>8 DEF Texts
  <2>2. CASE ~r.live \/ r.kind \in {"load", "update"} \/ (r.kind = "delete" /\ r.result = {})
    <3>1. page'.selected = page.selected /\ page'.of = page.of
      BY <1>1, <2>2, AfterFields
    <3> QED
      BY <1>6, <2>1, <3>1
  <2>3. CASE r.live /\ r.kind = "create"
    \* the form is empty, as it was when it was sent, and nothing else is created
    <3>1. Creating /\ Saves(r)
      BY <2>3 DEF Creating, Saves
    <3>2. ~Creating'
      BY <1>6, <3>1 DEF Creating, Saves
    <3>3. page.of = New /\ page' = After(r) /\ After(r).selected \in Ids
      BY <1>1, <1>2, <2>1, <2>3, <3>1, AfterFields
    <3>4. page'.of = page'.selected
      BY <1>1, <2>1, <2>3, <3>3, AfterFields
    <3> QED
      BY <3>2, <3>3, <3>4
  <2>4. CASE r.live /\ r.kind = "delete" /\ r.result # {}
    <3>1. page'.selected = None /\ page'.of = New
      BY <1>1, <2>4, AfterFields
    <3> QED
      BY <3>1
  <2> QED
    BY <1>2, <2>2, <2>3, <2>4
<1>9. ~swapped' => /\ \A d \in Ids : dispatch[d] \in {None, d}
                   /\ \A m \in net' : /\ m.kind = "create" => m.of = New
                                      /\ m.kind = "update" => m.of = m.d
  BY <1>1, <1>6 DEF Texts
<1> QED
  BY <1>1, <1>5, <1>6, <1>7, <1>8, <1>9 DEF Texts, Saves

\* It never gets one.
LEMMA LoseKeeps ==
  ASSUME DeskOK, Texts, NEW r \in net, Lose(r) PROVE DeskOK' /\ Texts'
<1> USE PageFields
<1>1. /\ net' = net \ {r} /\ UNCHANGED <<dispatch, swapped>>
      /\ page' = IF Saves(r) THEN [page EXCEPT !.saving = FALSE] ELSE page
  BY DEF Lose, Saves
<1>2. /\ page' \in Page /\ page'.selected = page.selected /\ page'.of = page.of
      /\ ~Saves(r) => page'.saving = page.saving
  BY <1>1 DEF Page
<1>3. DeskOK'
  BY <1>1, <1>2 DEF DeskOK
<1>4. /\ \A m \in net' : m \in net /\ m # r
      /\ \A m, q \in net' : Saves(m) /\ Saves(q) => m = q
      /\ Creating' => Creating
      /\ \A m \in net' : Saves(m) => page'.saving
  BY <1>1, <1>2 DEF Texts, Creating
<1>5. ~swapped =>
        /\ \A d \in Ids : dispatch[d] \in {None, d}
        /\ page.of = (IF page.selected = None THEN New ELSE page.selected)
        /\ Creating => page.selected = None
        /\ \A m \in net' : /\ m.kind = "create" => m.of = New
                           /\ m.kind = "update" => m.of = m.d
  BY <1>4 DEF Texts
<1> QED
  BY <1>1, <1>2, <1>3, <1>4, <1>5 DEF Texts, Saves

LEMMA DeskKeeps == TypeOK /\ Texts /\ [Next]_vars => DeskOK' /\ Texts'
<1> SUFFICES ASSUME TypeOK, Texts, [Next]_vars PROVE DeskOK' /\ Texts'
  OBVIOUS
<1>1. DeskOK
  BY DEF TypeOK
<1>2. CASE UNCHANGED desk
  BY <1>1, <1>2 DEF desk, DeskOK, Texts, Saves, Creating
<1>3. CASE Stop
  <2>1. /\ net' = {} /\ page' = [page EXCEPT !.saving = FALSE] /\ UNCHANGED <<dispatch, swapped>>
    BY <1>3 DEF Stop
  <2>2. page' \in Page /\ page'.selected = page.selected /\ page'.of = page.of
    BY <1>1, <2>1, PageFields DEF Page
  <2>3. DeskOK' /\ ~Creating'
    BY <1>1, <2>1, <2>2 DEF DeskOK, Creating
  <2> QED
    BY <2>1, <2>2, <2>3 DEF Texts, Saves
<1>4. CASE Editing
  BY <1>1, <1>4, EditKeeps
<1>5. ASSUME NEW r \in net, Answering(r) PROVE DeskOK' /\ Texts'
  BY <1>1, <1>5, ServeKeeps, DeliverKeeps, LoseKeeps DEF Answering
<1>6. CASE Start \/ Seed \/ (\E o \in Officers : Recording(o)) \/ UNCHANGED vars
  <2>1. UNCHANGED desk
    BY <1>6 DEF Start, Seed, SeedMarker, SeedLast, SeedPerson, SeedEntry, Recording, Record,
       RecordInsert, RecordCommit, RecordUpdate, RecordFails, vars
  <2> QED
    BY <1>2, <2>1
<1> QED
  BY <1>3, <1>4, <1>5, <1>6 DEF Next

-----------------------------------------------------------------------------
(* The properties.                                                          *)

LEMMA InitHolds == Init => IInv
<1> SUFFICES ASSUME Init PROVE IInv
  OBVIOUS
<1>1. BootOK /\ Seeding
  <2>1. roster \in [People -> Nat] /\ \A p \in People : roster[p] = 0
    BY DEF Init
  <2>2. server = "down" /\ marker = FALSE /\ todo = {} /\ halted = FALSE
    BY DEF Init
  <2>3. BootOK
    BY <2>1, <2>2 DEF BootOK
  <2>4. ~marker /\ \A p \in People : roster[p] <= 1
    BY <2>1, <2>2
  <2>5. Seeding
    BY <2>1, <2>2, <2>4 DEF Seeding
  <2> QED
    BY <2>3, <2>5
<1>2. \A o \in Officers : post[o] = Idle /\ post[o].pc = "idle"
  BY IdlePost DEF Init
<1>3. GateOK
  BY <1>2, IdlePost DEF Init, GateOK
<1>4. Checkpoints
  BY <1>2 DEF Init, Checkpoints, Shown, Entering, Updating
<1>5. DeskOK /\ Texts
  BY MountedPage DEF Init, DeskOK, Texts, Creating, Saves
<1> QED
  BY <1>1, <1>3, <1>4, <1>5 DEF IInv, TypeOK

\* The strengthening below holds whenever the server stops and starts.
THEOREM Inductive == Spec => []IInv
<1>1. IInv /\ [Next]_vars => IInv'
  BY BootKeeps, GateKeeps, DeskKeeps DEF IInv, TypeOK
<1> QED
  BY InitHolds, <1>1, PTL DEF Spec

\* bootstrap seeds behind a marker row that is inserted first (db/seed.ts): nobody is on
\* the roster twice however often the server is started, and everybody is unless a start
\* stopped while it was seeding.
THEOREM SeededOnceHolds == Spec => []SeededOnce
<1>1. IInv => SeededOnce
  BY DEF IInv, Seeding, SeededOnce
<1> QED
  BY <1>1, Inductive, PTL

\* A recording inserts an entry and updates the roster in separate statements: between
\* recordings the roster shows the newest entry, unless two for one person overlapped or
\* one stopped half way.
THEOREM LastCheckpointHolds == Spec => []LastCheckpointIsNewest
<1>1. IInv => LastCheckpointIsNewest
  BY DEF IInv, Checkpoints, Shown, Entering, Updating, LastCheckpointIsNewest
<1> QED
  BY <1>1, Inductive, PTL

\* handleSave and handleDelete of DispatchesPage.tsx go on after their awaits with a form
\* that may have changed: a dispatch still holds only text typed into it or opened from it,
\* unless the form was given another text while one was being created.
THEOREM TextStays == Spec => []TextStaysInItsDispatch
<1>1. IInv => TextStaysInItsDispatch
  BY DEF IInv, Texts, TextStaysInItsDispatch
<1> QED
  BY <1>1, Inductive, PTL

=============================================================================
