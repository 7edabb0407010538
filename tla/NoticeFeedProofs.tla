--------------------------- MODULE NoticeFeedProofs ---------------------------
(* Proofs about NoticeFeed: typing, what is announced of a notice, and what *)
(* an open list shows.                                                      *)
EXTENDS NoticeFeed, FiniteSetTheorems, TLAPS

-----------------------------------------------------------------------------
(* Typing.                                                                 *)

Desks == [at : {"idle", "save", "commit", "answer", "done"},
          op : {"create", "update", "destroy", None}, notice : Notices \cup {None},
          loaded : Rows \cup {None}, form : Forms \cup {None},
          format : {"html", "turbo_stream", None}]

InHand(d) == d.at \in {"save", "commit", "answer"}

\* What a request has at hand: its notice, the row it loaded unless it creates one, and
\* its form unless it destroys.
Equipped(d) ==
    /\ InHand(d) => /\ d.notice \in Notices
                    /\ d.op \in {"create", "update", "destroy"}
                    /\ d.op # "destroy" => d.form \in Forms
                    /\ IF d.op = "create" THEN d.loaded = None ELSE d.loaded \in Rows
    /\ ~InHand(d) => d.notice = None

TypedServer ==
    /\ table \in [Notices -> Rows \cup {None}]
    /\ born \subseteq Notices /\ tainted \subseteq Notices
    /\ \A n \in Notices : table[n] # None => n \in born
    /\ desk \in [Requests -> Desks]
    /\ \A r \in Requests : /\ Equipped(desk[r])
                           /\ desk[r].notice # None => desk[r].notice \in born

ListPages == [open : BOOLEAN, cards : SUBSET Notices, count : Nat, list : BOOLEAN,
              fetch : {"none", "asked", "answered"}, html : SUBSET Notices,
              visits : 0 .. MaxVisits]

TypedWire ==
    /\ role \in [Pages -> Users] /\ socket \in [Pages -> BOOLEAN]
    /\ inbox \in [Pages -> Seq(Messages)] /\ drops \in [Pages -> 0 .. MaxDrops]
    /\ blind \in [Pages -> BOOLEAN]

TypedLists ==
    /\ page \in [Pages -> ListPages]
    /\ removed \in [Pages -> SUBSET Notices] /\ raced \in [Pages -> BOOLEAN]

LEMMA FormsAreRows == Forms \subseteq Rows
<1> SUFFICES ASSUME NEW f \in Forms PROVE f \in Rows
  OBVIOUS
<1> DEFINE h == [c \in Columns |-> f]
<1>1. h \in [Columns -> Forms] /\ f = [c \in Columns |-> h[c][c]]
  BY FormsAreAttributes DEF Attributes
<1> QED
  BY <1>1 DEF Rows

LEMMA NoneIsNoForm == None \notin Forms
  BY FormsAreRows, NoneIsOther

\* A row with some columns of a form.
LEMMA MixedRow ==
  ASSUME NEW row \in Rows, NEW f \in Forms, NEW C
  PROVE  [c \in Columns |-> IF c \in C THEN f[c] ELSE row[c]] \in Rows
<1>1. PICK h \in [Columns -> Forms] : row = [c \in Columns |-> h[c][c]]
  BY DEF Rows
<1> DEFINE g == [c \in Columns |-> IF c \in C THEN f ELSE h[c]]
<1>2. g \in [Columns -> Forms]
  OBVIOUS
<1>3. [c \in Columns |-> IF c \in C THEN f[c] ELSE row[c]] = [c \in Columns |-> g[c][c]]
  BY <1>1
<1> QED
  BY <1>2, <1>3 DEF Rows

\* What one request does leaves the others' desks alone.
LEMMA DeskOfOne ==
  ASSUME TypedServer, NEW r \in Requests, NEW d \in Desks, Equipped(d),
         d.notice # None => d.notice \in born',
         desk' = [desk EXCEPT ![r] = d],
         born \subseteq born', born' \subseteq Notices, tainted' \subseteq Notices,
         table' \in [Notices -> Rows \cup {None}],
         \A n \in Notices : table'[n] # None => n \in born'
  PROVE  TypedServer'
<1>1. desk' \in [Requests -> Desks] /\ desk'[r] = d
      /\ \A q \in Requests : q # r => desk'[q] = desk[q]
  BY DEF TypedServer
<1>2. ASSUME NEW q \in Requests
      PROVE  Equipped(desk'[q]) /\ (desk'[q].notice # None => desk'[q].notice \in born')
  BY <1>1 DEF TypedServer
<1> QED
  BY <1>1, <1>2 DEF TypedServer, Equipped, InHand

\* A request goes on to another state; nothing else at its desk changes.
LEMMA DeskGoesOn ==
  ASSUME NEW d \in Desks, Equipped(d), InHand(d), NEW at \in {"save", "commit", "answer"}
  PROVE  LET e == [d EXCEPT !.at = at]
         IN  /\ e \in Desks /\ Equipped(e) /\ e.at = at /\ e.notice = d.notice
             /\ e.op = d.op /\ e.loaded = d.loaded /\ e.form = d.form
  BY DEF Desks, Equipped, InHand

LEMMA DeskFinished ==
  /\ Finished \in Desks /\ Equipped(Finished) /\ Finished.notice = None
  /\ Finished.at = "done" /\ AtRest \in Desks /\ Equipped(AtRest) /\ AtRest.notice = None
  /\ AtRest.at = "idle"
  BY DEF Finished, AtRest, Desks, Equipped, InHand

\* The row a transaction leaves.
LEMMA RowTyped ==
  ASSUME TypedServer, NEW r \in Requests, desk[r].at = "commit"
  PROVE  Row(r) \in Rows \cup {None}
<1> DEFINE d == desk[r]
           old == table[d.notice]
<1>1. d \in Desks /\ Equipped(d) /\ InHand(d)
  BY DEF TypedServer, InHand
<1>2. /\ d.op \in {"create", "update", "destroy"} /\ (d.op # "destroy" => d.form \in Forms)
      /\ old \in Rows \cup {None}
  BY <1>1 DEF Equipped, TypedServer
<1>3. CASE d.op = "destroy"
  BY <1>3 DEF Row
<1>4. CASE d.op = "create"
  BY <1>2, <1>4, FormsAreRows DEF Row
<1>5. CASE d.op = "update"
  <2>1. Row(r) = IF old = None THEN None
                 ELSE [c \in Columns |-> IF c \in Changed(r) THEN d.form[c] ELSE old[c]]
    BY <1>5 DEF Row
  <2>2. old # None => [c \in Columns |-> IF c \in Changed(r) THEN d.form[c] ELSE old[c]] \in Rows
    BY <1>2, <1>5, MixedRow
  <2> QED
    BY <2>1, <2>2
<1> QED
  BY <1>2, <1>3, <1>4, <1>5

Formats == {"html", "turbo_stream"}

\* The steps of the server, with what each does to the desk of its request.
LEMMA TypedServerStep ==
  ASSUME TypedServer, [Next]_vars
  PROVE  TypedServer'
<1>1. ASSUME NEW r \in Requests, NEW n \in Notices, NEW f \in Forms, NEW format \in Formats,
             OpenCreate(r, n, f, format)
      PROVE  TypedServer'
  <2> DEFINE d == [at |-> "save", op |-> "create", notice |-> n, loaded |-> None,
                   form |-> f, format |-> format]
  <2>1. d \in Desks /\ Equipped(d) /\ d.notice = n
    BY DEF Desks, Equipped, InHand, Formats
  <2>2. /\ desk' = [desk EXCEPT ![r] = d] /\ born' = born \cup {n}
        /\ UNCHANGED <<table, tainted>>
    BY <1>1 DEF OpenCreate, history
  <2> HIDE DEF d
  <2> QED
    BY <2>1, <2>2, DeskOfOne DEF TypedServer
<1>2. ASSUME NEW r \in Requests, NEW n \in Notices, NEW format \in Formats,
             NEW op \in {"update", "destroy"}, NEW f, f \in Forms \/ (op = "destroy" /\ f = None),
             OpenNotice(r, op, n, f, format)
      PROVE  TypedServer'
  <2> DEFINE d == [at |-> "save", op |-> op, notice |-> n, loaded |-> table[n],
                   form |-> f, format |-> format]
  <2>1. table[n] \in Rows /\ n \in born
    BY <1>2 DEF OpenNotice, TypedServer
  <2>2. d \in Desks /\ Equipped(d) /\ d.notice = n
    BY <1>2, <2>1 DEF Desks, Equipped, InHand, Formats
  <2>3. /\ desk' = [desk EXCEPT ![r] = d] /\ tainted' \subseteq tainted \cup {n}
        /\ UNCHANGED <<table, born>>
    BY <1>2 DEF OpenNotice
  <2> HIDE DEF d
  <2> QED
    BY <2>1, <2>2, <2>3, DeskOfOne DEF TypedServer
\* A request goes on, or is finished.
<1>3. ASSUME NEW r \in Requests, InHand(desk[r]), UNCHANGED born,
             \/ desk' = [desk EXCEPT ![r] = Finished]
             \/ \E at \in {"save", "commit", "answer"} :
                    desk' = [desk EXCEPT ![r] = [desk[r] EXCEPT !.at = at]],
             tainted' \subseteq tainted \cup {desk[r].notice},
             \/ UNCHANGED table
             \/ /\ desk[r].at = "commit"
                /\ table' = [table EXCEPT ![desk[r].notice] = Row(r)]
      PROVE  TypedServer'
  <2>1. /\ desk[r] \in Desks /\ Equipped(desk[r]) /\ desk[r].notice \in Notices
        /\ desk[r].notice \in born
    BY <1>3, NoneIsOther DEF TypedServer, Equipped
  <2>2. /\ table' \in [Notices -> Rows \cup {None}]
        /\ \A n \in Notices : table'[n] # None => n \in born'
    BY <1>3, <2>1, RowTyped DEF TypedServer
  <2>3. PICK d \in Desks : /\ Equipped(d) /\ (d.notice # None => d.notice \in born)
                           /\ desk' = [desk EXCEPT ![r] = d]
    BY <1>3, <2>1, DeskFinished, DeskGoesOn
  <2> QED
    BY <1>3, <2>1, <2>2, <2>3, DeskOfOne DEF TypedServer
<1>4. ASSUME NEW r \in Requests, Proceed(r) \/ Fail(r) PROVE TypedServer'
  <2>1. /\ InHand(desk[r]) /\ UNCHANGED born
        /\ tainted' \subseteq tainted \cup {desk[r].notice}
        /\ \/ UNCHANGED table
           \/ /\ desk[r].at = "commit"
              /\ table' = [table EXCEPT ![desk[r].notice] = Row(r)]
    BY <1>4 DEF Proceed, Refuse, Save, Destroy, Commit, RaiseInTemplate, AnnounceAgain, Fail,
                InHand, history
  <2>2. \/ desk' = [desk EXCEPT ![r] = Finished]
        \/ \E at \in {"save", "commit", "answer"} :
               desk' = [desk EXCEPT ![r] = [desk[r] EXCEPT !.at = at]]
    BY <1>4 DEF Proceed, Refuse, Save, Destroy, Commit, RaiseInTemplate, AnnounceAgain, Fail
  <2> QED
    BY <1>3, <2>1, <2>2
<1>5. CASE UNCHANGED <<table, born, tainted, desk>>
  BY <1>5 DEF TypedServer
<1>6. ASSUME NEW p \in Pages, Client(p) PROVE UNCHANGED <<table, born, tainted, desk>>
  BY <1>6 DEF Client, Visit, Restore, Leave, Receive, RenderList, loadNotices, FetchFails, Drop,
              Reconnect, server, history
<1> QED
  BY <1>1, <1>2, <1>4, <1>5, <1>6 DEF Next, Open, Formats, vars, server, history

\* What is broadcast is a message, and the page it reaches queues it.
LEMMA Queued ==
  ASSUME TypedWire, NEW m \in Messages, Broadcast(m)
  PROVE  /\ inbox' \in [Pages -> Seq(Messages)]
         /\ \A p \in Pages : \/ inbox'[p] = inbox[p]
                             \/ /\ inbox'[p] = Append(inbox[p], m)
                                /\ subscribed(p) \in Streams(m.audience)
  BY DEF TypedWire, Broadcast

\* Every broadcast: of a form, or of the end of a notice.
LEMMA Broadcasts ==
  ASSUME TypedServer, NEW r \in Requests, Save(r) \/ Destroy(r) \/ AnnounceAgain(r)
  PROVE  \E m \in Messages : Broadcast(m)
<1>1. Equipped(desk[r]) /\ desk[r].at \in {"save", "answer"}
  BY DEF TypedServer, Save, Destroy, AnnounceAgain
<1>2. /\ desk[r].notice \in Notices /\ desk[r].op \in {"create", "update", "destroy"}
      /\ desk[r].op # "destroy" => desk[r].form.target_audience \in Audiences \cup {None}
  BY <1>1, FormsAreAttributes DEF Equipped, InHand, Attributes
<1>3. \A audience \in Audiences \cup {None}, id \in Notices \cup {None},
         action \in {"create", "update", "destroy"} :
             [action |-> action, id |-> id, audience |-> audience] \in Messages
  BY DEF Messages
<1> QED
  BY <1>2, <1>3 DEF Save, Destroy, AnnounceAgain, Tell

\* To the clients, a step is a broadcast, nothing, or one of a client.
LEMMA Steps ==
  ASSUME TypedServer, [Next]_vars
  PROVE  \/ /\ UNCHANGED <<wire, page, told>>
            /\ UNCHANGED inbox \/ \E m \in Messages : Broadcast(m)
         \/ \E p \in Pages : Client(p)
<1>1. ASSUME NEW r \in Requests, Save(r) \/ Destroy(r) \/ AnnounceAgain(r)
      PROVE  UNCHANGED <<wire, page, told>> /\ \E m \in Messages : Broadcast(m)
  BY <1>1, Broadcasts DEF Save, Destroy, AnnounceAgain
<1>2. ASSUME NEW r \in Requests,
             \/ Refuse(r) \/ Commit(r) \/ RaiseInTemplate(r) \/ Fail(r)
             \/ \E n, format : Open(r, n, format)
      PROVE  UNCHANGED <<wire, page, told, inbox>>
  BY <1>2 DEF Refuse, Commit, RaiseInTemplate, Fail, Open, OpenCreate, OpenNotice, clients
<1>3. CASE UNCHANGED vars
  BY <1>3 DEF vars, clients
<1> QED
  BY <1>1, <1>2, <1>3 DEF Next, Proceed

-----------------------------------------------------------------------------
(* The list of a page.                                                     *)

LEMMA CardsAreFinite ==
  ASSUME NEW S \in SUBSET Notices
  PROVE  Cardinality(S) \in Nat /\ Cardinality({}) = 0
  BY FiniteNotices, FS_Subset, FS_CardinalityType, FS_EmptySet

LEMMA CountFields ==
  ASSUME NEW pg \in ListPages
  PROVE  LET e == updateNoticeCount(pg)
         IN  /\ e \in ListPages /\ e.cards = pg.cards /\ e.count = Cardinality(pg.cards)
             /\ e.open = pg.open /\ e.list = pg.list /\ e.visits = pg.visits
             /\ e.fetch = pg.fetch
<1>1. Cardinality(pg.cards) \in Nat
  BY CardsAreFinite DEF ListPages
<1> QED
  BY <1>1 DEF updateNoticeCount, ListPages

\* connect: the list is open, and shows what it showed.
LEMMA ConnectFields ==
  ASSUME NEW pg \in ListPages, pg.visits < MaxVisits
  PROVE  LET e == connect(pg)
         IN  /\ e \in ListPages /\ e.cards = pg.cards /\ e.count = pg.count
             /\ e.list = pg.list /\ e.open
<1> DEFINE more == pg.visits + 1
<1>1. more \in 0 .. MaxVisits
  BY Bounds DEF ListPages
<1>2. connect(pg) = [pg EXCEPT !.open = TRUE, !.fetch = "asked", !.visits = more]
  BY DEF connect
<1> HIDE DEF more
<1> QED
  BY <1>1, <1>2 DEF ListPages

\* What the handlers do: cards only go, and the count goes with them.
LEMMA HandleFields ==
  ASSUME NEW pg \in ListPages, NEW m \in Messages
  PROVE  LET e == handleNoticeUpdate(pg, m)
         IN  /\ e \in ListPages /\ e.open = pg.open /\ e.list = pg.list
             /\ e.cards \subseteq pg.cards
             /\ pg.count = Cardinality(pg.cards) => e.count = Cardinality(e.cards)
             /\ pg.list /\ m.action = "destroy" => m.id \notin e.cards
<1> DEFINE e == handleNoticeUpdate(pg, m)
           less == [pg EXCEPT !.cards = pg.cards \ {m.id}]
<1>1. /\ less \in ListPages /\ less.open = pg.open /\ less.list = pg.list
      /\ less.cards = pg.cards \ {m.id}
  BY DEF ListPages
<1>2. prependNotice(pg, m) = pg /\ updateNotice(pg, m) = less /\ removeNotice(pg, m) = less
  BY DEF prependNotice, updateNotice, removeNotice, createNoticeElement
<1>3. m.action \in {"create", "update", "destroy"}
  BY DEF Messages
<1>4. pg.list \in BOOLEAN
  BY DEF ListPages
<1>5. CASE e = pg /\ ~(pg.list /\ m.action = "destroy")
  BY <1>5
<1>6. CASE e = updateNoticeCount(less)
  <2> HIDE DEF less, e
  <2>1. /\ e \in ListPages /\ e.cards = less.cards /\ e.count = Cardinality(less.cards)
        /\ e.open = less.open /\ e.list = less.list
    BY <1>1, <1>6, CountFields
  <2> QED
    BY <1>1, <2>1 DEF e
<1>7. \/ e = pg /\ ~(pg.list /\ m.action = "destroy")
      \/ e = updateNoticeCount(less)
  <2>1. CASE ~pg.list
    BY <2>1 DEF handleNoticeUpdate
  <2>2. CASE pg.list /\ m.action = "create"
    BY <1>2, <2>2 DEF handleNoticeUpdate
  <2>3. CASE pg.list /\ m.action = "update"
    BY <1>2, <2>3 DEF handleNoticeUpdate
  <2>4. CASE pg.list /\ m.action = "destroy"
    BY <1>2, <2>4 DEF handleNoticeUpdate
  <2> QED
    BY <1>3, <1>4, <2>1, <2>2, <2>3, <2>4
<1> QED
  BY <1>5, <1>6, <1>7

\* What holds of each page: the number above the list is that of its cards; a page with
\* its targets lacks the list only when there are no cards; and no card is there of which
\* the open list was told the end, unless a fetch brought it back.
Listing(pg, gone, again) ==
    /\ pg.count = Cardinality(pg.cards)
    /\ HasTargets /\ ~pg.list => pg.cards = {}
    /\ ~pg.open => gone = {}
    /\ HasTargets /\ pg.cards \cap gone # {} => again

Listings ==
    TypedLists /\ \A p \in Pages : Listing(page[p], removed[p], raced[p])

\* The sockets and what is on its way to them.
LEMMA WireStep ==
  ASSUME TypedServer, TypedWire, TypedLists, [Next]_vars
  PROVE  TypedWire'
<1>1. CASE UNCHANGED <<wire, page, told>> /\ (UNCHANGED inbox \/ \E m \in Messages : Broadcast(m))
  <2>1. inbox' \in [Pages -> Seq(Messages)]
    BY <1>1, Queued DEF TypedWire
  <2> QED
    BY <1>1, <2>1 DEF TypedWire, wire, told
<1> SUFFICES ASSUME NEW p \in Pages, Client(p) PROVE TypedWire'
  BY <1>1, Steps
<1>2. CASE Visit(p) \/ Restore(p) \/ Leave(p) \/ RenderList(p) \/ loadNotices(p) \/ FetchFails(p)
  <2>1. UNCHANGED <<role, socket, drops, inbox>>
    BY <1>2 DEF Visit, Restore, Leave, RenderList, loadNotices, FetchFails, wire
  <2>2. UNCHANGED blind \/ \E b : blind' = [blind EXCEPT ![p] = b] /\ b \in BOOLEAN
    <3>1. CASE Visit(p) \/ Restore(p) \/ Leave(p)
      BY <3>1 DEF Visit, Restore, Leave, TypedWire
    <3>2. CASE loadNotices(p)
      BY <3>2 DEF loadNotices, TypedWire
    <3>3. CASE RenderList(p) \/ FetchFails(p)
      BY <3>3 DEF RenderList, FetchFails, told
    <3> QED
      BY <1>2, <3>1, <3>2, <3>3
  <2> QED
    BY <2>1, <2>2 DEF TypedWire
<1>3. CASE Receive(p)
  <2>1. /\ inbox[p] # <<>> /\ inbox' = [inbox EXCEPT ![p] = Tail(inbox[p])]
        /\ UNCHANGED <<role, socket, drops, blind>>
    BY <1>3 DEF Receive, wire
  <2>2. Tail(inbox[p]) \in Seq(Messages)
    BY <2>1 DEF TypedWire
  <2> QED
    BY <2>1, <2>2 DEF TypedWire
<1>4. CASE Drop(p)
  <2>1. <<>> \in Seq(Messages) /\ page[p].open \in BOOLEAN
    BY DEF TypedLists, ListPages
  <2>2. drops[p] + 1 \in 0 .. MaxDrops
    BY <1>4, Bounds DEF Drop, TypedWire
  <2> QED
    BY <1>4, <2>1, <2>2 DEF Drop, TypedWire
<1>5. CASE Reconnect(p)
  BY <1>5 DEF Reconnect, TypedWire, told
<1> QED
  BY <1>2, <1>3, <1>4, <1>5 DEF Client

\* A step of one page.
LEMMA ListingOfOne ==
  ASSUME Listings, NEW p \in Pages, NEW pg \in ListPages, NEW gone \in SUBSET Notices,
         NEW again \in BOOLEAN, Listing(pg, gone, again),
         page' = [page EXCEPT ![p] = pg], removed' = [removed EXCEPT ![p] = gone],
         raced' = [raced EXCEPT ![p] = again]
  PROVE  Listings'
<1>1. TypedLists'
  BY DEF Listings, TypedLists
<1>2. \A q \in Pages :
         /\ page'[q] = IF q = p THEN pg ELSE page[q]
         /\ removed'[q] = IF q = p THEN gone ELSE removed[q]
         /\ raced'[q] = IF q = p THEN again ELSE raced[q]
  BY DEF Listings, TypedLists
<1>3. \A q \in Pages : Listing(page'[q], removed'[q], raced'[q])
  BY <1>2 DEF Listings
<1> QED
  BY <1>1, <1>3 DEF Listings, Listing

LEMMA ListingsStep ==
  ASSUME TypedServer, TypedWire, Listings, [Next]_vars
  PROVE  Listings'
<1>1. CASE UNCHANGED <<page, removed, raced>>
  BY <1>1 DEF Listings, TypedLists, Listing
<1> SUFFICES ASSUME NEW p \in Pages, Client(p) PROVE Listings'
  BY <1>1, Steps DEF told
<1> DEFINE pg == page[p]
<1>2. /\ pg \in ListPages /\ removed[p] \in SUBSET Notices /\ raced[p] \in BOOLEAN
      /\ Listing(pg, removed[p], raced[p])
      /\ removed = [removed EXCEPT ![p] = removed[p]] /\ raced = [raced EXCEPT ![p] = raced[p]]
  BY DEF Listings, TypedLists
\* Only the page changes.
<1>3. ASSUME NEW e \in ListPages, page' = [page EXCEPT ![p] = e],
             Listing(e, removed[p], raced[p]), UNCHANGED <<removed, raced>>
      PROVE  Listings'
  <2>1. removed' = [removed EXCEPT ![p] = removed[p]] /\ raced' = [raced EXCEPT ![p] = raced[p]]
    BY <1>2, <1>3
  <2>2. removed[p] \in SUBSET Notices /\ raced[p] \in BOOLEAN
    BY <1>2
  <2> QED
    BY <1>3, <2>1, <2>2, ListingOfOne, ZenonT(120)
<1>4. CASE Visit(p)
  <2> DEFINE cards == filtered_notices(role[p])
             list == HasTargets /\ cards # {}
             shown == [pg EXCEPT !.cards = cards, !.count = Cardinality(cards), !.list = list]
             e == connect(shown)
  <2>1. cards \in SUBSET Notices /\ Cardinality(cards) \in Nat /\ list \in BOOLEAN
    BY CardsAreFinite, Options DEF filtered_notices
  <2>2. ~pg.open /\ pg.visits < MaxVisits /\ page' = [page EXCEPT ![p] = e]
        /\ UNCHANGED <<removed, raced>>
    BY <1>2, <1>4 DEF Visit
  <2>3. HasTargets /\ ~list => cards = {}
    OBVIOUS
  <2> HIDE DEF cards, list, pg
  <2>a. /\ shown \in ListPages /\ shown.cards = cards /\ shown.count = Cardinality(cards)
        /\ shown.list = list /\ shown.visits = pg.visits
    BY <1>2, <2>1 DEF ListPages
  <2> HIDE DEF shown
  <2>4. /\ e \in ListPages /\ e.cards = cards /\ e.count = Cardinality(cards) /\ e.list = list
        /\ e.open
    BY <2>2, <2>a, ConnectFields
  <2> HIDE DEF e
  <2>5. Listing(e, removed[p], raced[p])
    BY <1>2, <2>2, <2>3, <2>4 DEF Listing
  <2> QED
    BY <1>3, <2>2, <2>4, <2>5
<1>5. CASE Restore(p)
  <2> DEFINE e == connect(pg)
  <2>1. pg.visits \in 1 .. MaxVisits - 1 /\ ~pg.open /\ page' = [page EXCEPT ![p] = e]
        /\ UNCHANGED <<removed, raced>>
    BY <1>2, <1>5 DEF Restore
  <2>2. /\ e \in ListPages /\ e.cards = pg.cards /\ e.count = pg.count /\ e.list = pg.list
        /\ e.open
    BY <1>2, <2>1, Bounds, ConnectFields DEF ListPages
  <2> HIDE DEF e, pg
  <2>3. Listing(e, removed[p], raced[p])
    BY <1>2, <2>1, <2>2 DEF Listing
  <2> QED
    BY <1>3, <2>1, <2>2, <2>3
<1>6. CASE Leave(p)
  <2> DEFINE e == disconnect(pg)
  <2>1. /\ page' = [page EXCEPT ![p] = e] /\ removed' = [removed EXCEPT ![p] = {}]
        /\ raced' = [raced EXCEPT ![p] = FALSE]
    BY <1>6 DEF Leave
  <2>2. /\ e \in ListPages /\ e.cards = pg.cards /\ e.count = pg.count /\ e.list = pg.list
    BY <1>2 DEF ListPages, disconnect
  <2> HIDE DEF e
  <2>3. Listing(e, {}, FALSE)
    BY <1>2, <2>2 DEF Listing
  <2> QED
    BY <1>2, <2>1, <2>2, <2>3, ListingOfOne, ZenonT(120)
<1>7. CASE Receive(p)
  <2> DEFINE m == Head(inbox[p])
             e == handleNoticeUpdate(pg, m)
             gone == IF m.action = "destroy" THEN removed[p] \cup ({m.id} \ {None})
                                             ELSE removed[p]
  <2>1. inbox[p] # <<>> /\ UNCHANGED raced
    BY <1>7 DEF Receive
  <2>2. m \in Messages
    BY <2>1 DEF TypedWire
  <2>3. raced' = [raced EXCEPT ![p] = raced[p]]
    BY <1>2, <2>1
  <2>4. CASE pg.open
    <3>1. "notice_controller.js" \in Subscriptions(p)
      BY <2>4 DEF Subscriptions
    <3>2. page' = [page EXCEPT ![p] = e] /\ removed' = [removed EXCEPT ![p] = gone]
      BY <1>7, <3>1 DEF Receive
    <3>3. gone \in SUBSET Notices
      BY <1>2, <2>2 DEF Messages
    <3>4. /\ e \in ListPages /\ e.open = pg.open /\ e.list = pg.list /\ e.cards \subseteq pg.cards
          /\ e.count = Cardinality(e.cards)
          /\ pg.list /\ m.action = "destroy" => m.id \notin e.cards
      BY <1>2, <2>2, HandleFields DEF Listing
    <3>5. HasTargets /\ e.cards \cap gone # {} => e.cards \cap removed[p] # {}
      BY <1>2, <3>4 DEF Listing
    <3> HIDE DEF e, gone, pg
    <3>6. Listing(e, gone, raced[p])
      BY <1>2, <2>4, <3>4, <3>5 DEF Listing
    <3> QED
      BY <1>2, <2>3, <3>2, <3>3, <3>4, <3>6, ListingOfOne, ZenonT(120)
  <2>5. CASE ~pg.open
    <3>1. UNCHANGED <<page, removed>>
      BY <1>7, <2>5 DEF Receive, Subscriptions
    <3> QED
      BY <1>1, <2>1, <3>1
  <2> QED
    BY <2>4, <2>5
<1>8. CASE RenderList(p)
  <2> DEFINE html == filtered_notices(role[p])
             e == [pg EXCEPT !.fetch = "answered", !.html = html]
  <2>1. html \in SUBSET Notices
    BY DEF filtered_notices
  <2>2. /\ page' = [page EXCEPT ![p] = e]
        /\ UNCHANGED <<removed, raced>>
    BY <1>2, <1>8 DEF RenderList, told
  <2> HIDE DEF html
  <2>3. /\ e \in ListPages /\ e.cards = pg.cards /\ e.count = pg.count /\ e.list = pg.list
        /\ e.open = pg.open
    BY <1>2, <2>1 DEF ListPages
  <2> HIDE DEF e
  <2>4. Listing(e, removed[p], raced[p])
    BY <1>2, <2>3 DEF Listing
  <2> QED
    BY <1>2, <1>3, <2>2, <2>3, <2>4
<1>9. CASE loadNotices(p)
  <2> DEFINE found == IF HasCards THEN pg.html ELSE {}
             idle == [pg EXCEPT !.fetch = "none", !.html = {}]
             new == [idle EXCEPT !.cards = found]
             replaced == found # {} /\ pg.list
             e == IF replaced THEN updateNoticeCount(new) ELSE idle
             again == raced[p] \/ (replaced /\ found \cap removed[p] # {})
  <2>1. /\ page' = [page EXCEPT ![p] = e] /\ raced' = [raced EXCEPT ![p] = again]
        /\ removed' = [removed EXCEPT ![p] = removed[p]]
    BY <1>2, <1>9 DEF loadNotices
  <2>2. found \in SUBSET Notices /\ again \in BOOLEAN
    BY <1>2 DEF ListPages
  <2>3. /\ idle \in ListPages /\ idle.cards = pg.cards /\ idle.count = pg.count
        /\ idle.list = pg.list /\ idle.open = pg.open
    BY <1>2 DEF ListPages
  <2> HIDE DEF found, idle
  <2>4. /\ new \in ListPages /\ new.cards = found /\ new.list = pg.list /\ new.open = pg.open
    BY <2>2, <2>3 DEF ListPages
  <2> HIDE DEF new
  <2>5. CASE replaced
    <3>1. /\ e \in ListPages /\ e.cards = found /\ e.count = Cardinality(found)
          /\ e.list = pg.list /\ e.open = pg.open /\ pg.list
      BY <2>4, <2>5, CountFields
    <3>2. again <=> raced[p] \/ found \cap removed[p] # {}
      BY <2>5
    <3> HIDE DEF e, again, pg
    <3>3. Listing(e, removed[p], again)
      BY <1>2, <3>1, <3>2 DEF Listing
    <3> QED
      BY <1>2, <2>1, <2>2, <3>1, <3>3, ListingOfOne, ZenonT(120)
  <2>6. CASE ~replaced
    <3>1. e = idle /\ (again <=> raced[p])
      BY <2>6
    <3> HIDE DEF e, again, pg
    <3>2. Listing(e, removed[p], again)
      BY <1>2, <2>3, <3>1 DEF Listing
    <3> QED
      BY <1>2, <2>1, <2>2, <2>3, <3>1, <3>2, ListingOfOne, ZenonT(120)
  <2> QED
    BY <2>5, <2>6
<1>10. CASE FetchFails(p)
  <2> DEFINE e == [pg EXCEPT !.fetch = "none"]
  <2>1. /\ page' = [page EXCEPT ![p] = e]
        /\ UNCHANGED <<removed, raced>>
    BY <1>2, <1>10 DEF FetchFails, told
  <2>2. /\ e \in ListPages /\ e.cards = pg.cards /\ e.count = pg.count /\ e.list = pg.list
        /\ e.open = pg.open
    BY <1>2 DEF ListPages
  <2> HIDE DEF e
  <2>3. Listing(e, removed[p], raced[p])
    BY <1>2, <2>2 DEF Listing
  <2> QED
    BY <1>2, <1>3, <2>1, <2>2, <2>3
<1>11. CASE Drop(p) \/ Reconnect(p)
  BY <1>1, <1>11 DEF Drop, Reconnect, told
<1> QED
  BY <1>4, <1>5, <1>6, <1>7, <1>8, <1>9, <1>10, <1>11 DEF Client

-----------------------------------------------------------------------------
(* The typing of a whole state, and what it says of the lists.             *)

Typed == TypedServer /\ TypedWire /\ Listings

LEMMA InitTyped ==
  ASSUME Init
  PROVE  Typed
<1>1. table \in [Notices -> Rows \cup {None}]
  BY FormsAreRows DEF Init
<1>2. /\ born \subseteq Notices /\ tainted \subseteq Notices
      /\ \A n \in Notices : table[n] # None => n \in born
  BY DEF Init
<1>3. desk \in [Requests -> Desks] /\ \A r \in Requests : desk[r] = AtRest
  BY DeskFinished DEF Init
<1>4. TypedServer
  BY <1>1, <1>2, <1>3, DeskFinished DEF TypedServer
<1>5. <<>> \in Seq(Messages)
  OBVIOUS
<1>6. TypedWire
  BY <1>5, Bounds DEF Init, TypedWire
<1>7. /\ Blank \in ListPages /\ Blank.cards = {} /\ Blank.count = 0
  BY Bounds DEF Blank, ListPages
<1>8. Listing(Blank, {}, FALSE)
  BY <1>7, CardsAreFinite DEF Listing
<1>9. Listings
  <2>1. TypedLists
    BY <1>7 DEF Init, TypedLists
  <2>2. \A p \in Pages : page[p] = Blank /\ removed[p] = {} /\ raced[p] = FALSE
    BY DEF Init
  <2> QED
    BY <1>8, <2>1, <2>2 DEF Listings
<1> QED
  BY <1>4, <1>6, <1>9 DEF Typed

LEMMA TypedStep ==
  ASSUME Typed, [Next]_vars
  PROVE  Typed'
<1>1. TypedServer /\ TypedWire /\ Listings /\ TypedLists
  BY DEF Typed, Listings
<1> QED
  BY <1>1, TypedServerStep, WireStep, ListingsStep DEF Typed

LEMMA AlwaysTyped == Spec => []Typed
<1>1. Init => Typed
  BY InitTyped
<1>2. Typed /\ [Next]_vars => Typed'
  BY TypedStep
<1> QED
  BY <1>1, <1>2, PTL DEF Spec

\* The tables, the desks, the queues and the lists keep their types, whatever requests,
\* sockets and pages do: what is stored is made of columns of submitted forms, and what is
\* on its way to a page are messages of NoticeChannel (notices_controller.rb,
\* notice_channel.rb, notice_controller.js).
THEOREM Typing == Spec => []TypeOK
<1>1. ASSUME Typed PROVE TypeOK
  <2>1. \A r \in Requests : desk[r] \in Desks
    BY <1>1 DEF Typed, TypedServer
  <2>2. \A p \in Pages : page[p] \in ListPages
    BY <1>1 DEF Typed, Listings, TypedLists
  <2>3. \A p \in Pages : /\ page[p].cards \subseteq Notices /\ page[p].count \in Nat
                         /\ page[p].fetch \in {"none", "asked", "answered"}
    BY <2>2 DEF ListPages
  <2>4. \A r \in Requests :
           /\ desk[r].at \in {"idle", "save", "commit", "answer", "done"}
           /\ desk[r].notice \in Notices \cup {None}
           /\ desk[r].form \in Forms \cup {None}
    BY <2>1 DEF Desks
  <2> QED
    BY <1>1, <2>3, <2>4 DEF TypeOK, Typed, TypedServer, TypedWire, Listings, TypedLists
<1>2. Typed => TypeOK
  BY <1>1
<1> QED
  BY <1>2, AlwaysTyped, PTL

\* The number above an open list is that of its cards, after any messages, restored pages
\* and fetched lists, also where the controller finds no list and gives up half-way
\* (notice_controller.js:41-42, 64-69, 123-128).
THEOREM TheCountIsThatOfTheCards == Spec => []CountIsChildren
<1>1. Typed => CountIsChildren
  BY DEF Typed, Listings, Listing, CountIsChildren
<1> QED
  BY <1>1, AlwaysTyped, PTL

\* On a page that has the targets the controller is written for, no notice whose end the
\* open list was told of is in it again, unless a fetched list brought it back
\* (notice_controller.js:64-69, 130-150).
THEOREM EndedNoticesStayAway == HasTargets => (Spec => []NoGhosts)
<1>1. ASSUME HasTargets, Typed PROVE NoGhosts
  BY <1>1 DEF Typed, Listings, Listing, NoGhosts
<1>2. HasTargets /\ Typed => NoGhosts
  BY <1>1
<1> SUFFICES ASSUME HasTargets PROVE Spec => []NoGhosts
  OBVIOUS
<1>3. Typed => NoGhosts
  BY <1>2
<1> QED
  BY <1>3, AlwaysTyped, PTL

-----------------------------------------------------------------------------
(* Whom a message reaches.                                                 *)

\* Roles are singular and audiences plural, so no stream of a role but the admins' is one
\* that a notice is broadcast to.
AdminsOnly == \A p \in Pages : inbox[p] # <<>> => role[p] = "admin"

LEMMA OnlyAdminsAreReached ==
  ASSUME NEW p \in Pages, role[p] \in Users, NEW m \in Messages,
         subscribed(p) \in Streams(m.audience)
  PROVE  role[p] = "admin"
<1> SUFFICES ASSUME role[p] # "admin" PROVE FALSE
  OBVIOUS
<1>1. role[p] \in {"teacher", "parent", "student"}
  BY RolesOfUsers DEF Roles
<1>2. m.audience \in {"teachers", "parents", "students", "specific_grades", None}
  BY DEF Messages, Audiences
<1>3. subscribed(p) = <<"notice_channel", role[p]>>
  BY DEF subscribed, Suffixed
<1>4. subscribed(p) # <<"notice_channel">>
  BY <1>3
<1>5. m.audience # None /\ subscribed(p) = <<"notice_channel", m.audience>>
  BY <1>4 DEF Streams, Suffixed
<1>6. role[p] = m.audience
  BY <1>3, <1>5
<1> QED
  BY <1>1, <1>2, <1>5, <1>6

LEMMA AdminsOnlyStep ==
  ASSUME Typed, AdminsOnly, [Next]_vars
  PROVE  AdminsOnly'
<1>1. TypedServer /\ TypedWire
  BY DEF Typed
<1>2. CASE UNCHANGED <<wire, page, told>> /\ (UNCHANGED inbox \/ \E m \in Messages : Broadcast(m))
  <2>1. UNCHANGED role
    BY <1>2 DEF wire
  <2>2. CASE UNCHANGED inbox
    BY <2>1, <2>2 DEF AdminsOnly
  <2>3. CASE \E m \in Messages : Broadcast(m)
    <3>1. PICK m \in Messages : Broadcast(m)
      BY <2>3
    <3> SUFFICES ASSUME NEW p \in Pages, inbox'[p] # <<>> PROVE role[p] = "admin"
      BY <2>1 DEF AdminsOnly
    <3>2. role[p] \in Users
      BY <1>1 DEF TypedWire
    <3>3. \/ inbox'[p] = inbox[p] \/ subscribed(p) \in Streams(m.audience)
      BY <1>1, <3>1, Queued
    <3> QED
      BY <3>2, <3>3, OnlyAdminsAreReached DEF AdminsOnly
  <2> QED
    BY <1>2, <2>2, <2>3
<1>3. ASSUME NEW p \in Pages, Client(p) PROVE AdminsOnly'
  <2>1. UNCHANGED role
    BY <1>3 DEF Client, Visit, Restore, Leave, Receive, RenderList, loadNotices, FetchFails, Drop,
                Reconnect, wire
  <2>2. \/ UNCHANGED inbox
        \/ inbox[p] # <<>> /\ inbox' = [inbox EXCEPT ![p] = Tail(inbox[p])]
        \/ inbox' = [inbox EXCEPT ![p] = <<>>]
    BY <1>3 DEF Client, Visit, Restore, Leave, Receive, RenderList, loadNotices, FetchFails, Drop,
                Reconnect
  <2> QED
    BY <1>1, <2>1, <2>2 DEF AdminsOnly, TypedWire
<1> QED
  BY <1>1, <1>2, <1>3, Steps

\* No page is told of a notice its user may not list. The argument is also the reason why
\* hardly anyone is told: the streams of teachers, parents and students are not those the
\* notices are broadcast to (notice_channel.rb:2-11, 27, 43).
THEOREM ToldOnlyWhatTheyMayList == Spec => []OnlyForItsAudience
<1>1. Init => AdminsOnly
  BY DEF Init, AdminsOnly
<1>2. Typed /\ AdminsOnly /\ [Next]_vars => AdminsOnly'
  BY AdminsOnlyStep
<1>3. ASSUME AdminsOnly PROVE OnlyForItsAudience
  <2> SUFFICES ASSUME NEW p \in Pages, NEW i \in DOMAIN inbox[p]
               PROVE  for_role(role[p], inbox[p][i].audience)
    BY DEF OnlyForItsAudience
  <2>1. inbox[p] # <<>>
    OBVIOUS
  <2> QED
    BY <1>3, <2>1 DEF AdminsOnly, for_role
<1>4. AdminsOnly => OnlyForItsAudience
  BY <1>3
<1> QED
  BY <1>1, <1>2, <1>4, AlwaysTyped, PTL DEF Spec

-----------------------------------------------------------------------------
(* What is announced of a notice.                                          *)

\* What a request has to say of its notice: its form, or the end.
WordOf(d) == IF d.op = "destroy" THEN None ELSE d.form

\* What a transaction is to commit is announced; and of each row, each column is that of
\* some announced form.
Announced ==
    /\ announced \in [Notices -> SUBSET (Rows \cup {None})]
    /\ \A r \in Requests :
          desk[r].at = "commit" => WordOf(desk[r]) \in announced[desk[r].notice]

ColumnsAnnounced ==
    \A n \in Notices : table[n] # None =>
        \A c \in Columns : \E f \in announced[n] \ {None} : f[c] = table[n][c]

\* What a step of the server does to the history.
LEMMA ToldByOne ==
  ASSUME TypedServer, NEW r \in Requests, Save(r) \/ Destroy(r) \/ AnnounceAgain(r)
  PROVE  /\ desk[r].notice \in Notices /\ WordOf(desk[r]) \in Forms \cup {None}
         /\ \/ /\ announced' = [announced EXCEPT ![desk[r].notice] = @ \cup {WordOf(desk[r])}]
               /\ lastWord' = [lastWord EXCEPT ![desk[r].notice] = WordOf(desk[r])]
            \/ /\ AnnounceAgain(r) /\ desk[r].op = "destroy"
               /\ UNCHANGED <<announced, lastWord>>
<1>1. Equipped(desk[r]) /\ InHand(desk[r])
  BY DEF TypedServer, Save, Destroy, AnnounceAgain, InHand
<1>2. desk[r].notice \in Notices /\ WordOf(desk[r]) \in Forms \cup {None}
  BY <1>1 DEF Equipped, WordOf
<1> QED
  BY <1>2 DEF Save, Destroy, AnnounceAgain, Tell, WordOf

\* One request moves on; of no notice less is announced.
LEMMA AnnouncedOfOne ==
  ASSUME TypedServer, Announced, NEW r \in Requests, NEW d, NEW word \in Rows \cup {None},
         NEW n \in Notices, desk' = [desk EXCEPT ![r] = d],
         d.at = "commit" => d.notice = n /\ WordOf(d) \in announced'[n],
         \/ UNCHANGED announced
         \/ announced' = [announced EXCEPT ![n] = @ \cup {word}]
  PROVE  /\ Announced'
         /\ \A m \in Notices : announced[m] \subseteq announced'[m]
<1>1. /\ announced' \in [Notices -> SUBSET (Rows \cup {None})]
      /\ \A m \in Notices : announced[m] \subseteq announced'[m]
  BY DEF Announced
<1>2. ASSUME NEW q \in Requests, desk'[q].at = "commit"
      PROVE  WordOf(desk'[q]) \in announced'[desk'[q].notice]
  <2>1. CASE q = r
    BY <1>2, <2>1 DEF TypedServer
  <2>2. CASE q # r
    <3>1. desk'[q] = desk[q] /\ desk[q].notice \in Notices
      BY <1>2, <2>2 DEF TypedServer, Equipped, InHand
    <3> QED
      BY <1>1, <1>2, <3>1 DEF Announced
  <2> QED
    BY <2>1, <2>2
<1>3. Announced'
  BY <1>1, <1>2 DEF Announced, WordOf
<1> QED
  BY <1>1, <1>3

\* The row a commit leaves, column by column.
LEMMA RowAnnounced ==
  ASSUME TypedServer, Announced, ColumnsAnnounced, NEW r \in Requests, desk[r].at = "commit"
  PROVE  LET n == desk[r].notice
         IN  /\ n \in Notices
             /\ Row(r) = None => None \in announced[n] \/ table[n] = None
             /\ Row(r) # None =>
                    \A c \in Columns : \E f \in announced[n] \ {None} : f[c] = Row(r)[c]
<1> DEFINE d == desk[r]
           n == d.notice
           old == table[n]
           row == [c \in Columns |-> IF c \in Changed(r) THEN d.form[c] ELSE old[c]]
<1>1. /\ n \in Notices /\ d.op \in {"create", "update", "destroy"}
      /\ d.op # "destroy" => d.form \in Forms /\ d.form # None
      /\ WordOf(d) \in announced[n]
  BY NoneIsNoForm DEF TypedServer, Equipped, InHand, Announced
<1>2. CASE d.op = "destroy"
  BY <1>1, <1>2 DEF Row, WordOf
<1>3. CASE d.op = "create"
  BY <1>1, <1>3 DEF Row, WordOf
<1>4. CASE d.op = "update"
  <2>1. Row(r) = IF old = None THEN None ELSE row
    BY <1>4 DEF Row
  <2>2. d.form \in announced[n] \ {None}
    BY <1>1, <1>4 DEF WordOf
  <2>3. CASE old = None
    BY <1>1, <2>1, <2>3
  <2>4. CASE old # None
    <3>1. row # None
      <4>1. old \in Rows /\ d.form \in Forms
        BY <1>1, <1>4, <2>4 DEF TypedServer
      <4>2. row \in Rows
        BY <4>1, MixedRow
      <4> QED
        BY <4>2, NoneIsOther
    <3>2. ASSUME NEW c \in Columns PROVE \E f \in announced[n] \ {None} : f[c] = row[c]
      <4>1. CASE c \in Changed(r)
        BY <2>2, <4>1
      <4>2. CASE c \notin Changed(r)
        BY <1>1, <2>4, <4>2 DEF ColumnsAnnounced
      <4> QED
        BY <4>1, <4>2
    <3> QED
      BY <1>1, <2>1, <2>4, <3>1, <3>2
  <2> QED
    BY <2>3, <2>4
<1> QED
  BY <1>1, <1>2, <1>3, <1>4

\* What a step does to the table, the history and the desk of one request.
LEMMA AnnouncedStep ==
  ASSUME TypedServer, Announced, ColumnsAnnounced, [Next]_vars
  PROVE  Announced' /\ ColumnsAnnounced'
<1>1. CASE UNCHANGED <<table, desk, announced>>
  BY <1>1 DEF Announced, ColumnsAnnounced, WordOf
\* The table stays, and no less is announced.
<1>2. ASSUME UNCHANGED table, \A n \in Notices : announced[n] \subseteq announced'[n]
      PROVE  ColumnsAnnounced'
  BY <1>2 DEF ColumnsAnnounced
<1>3. ASSUME NEW p \in Pages, Client(p) PROVE UNCHANGED <<table, desk, announced>>
  BY <1>3 DEF Client, Visit, Restore, Leave, Receive, RenderList, loadNotices, FetchFails, Drop,
              Reconnect, server, history
<1>4. ASSUME NEW r \in Requests, NEW n \in Notices, NEW format \in Formats, Open(r, n, format)
      PROVE  Announced' /\ ColumnsAnnounced'
  <2>1. UNCHANGED <<table, announced>>
    BY <1>4 DEF Open, OpenCreate, OpenNotice, history
  <2>2. PICK d : desk' = [desk EXCEPT ![r] = d] /\ d.at = "save"
    <3>1. ASSUME NEW f, OpenCreate(r, n, f, format)
          PROVE  \E d : desk' = [desk EXCEPT ![r] = d] /\ d.at = "save"
      <4> DEFINE d == [at |-> "save", op |-> "create", notice |-> n, loaded |-> None,
                       form |-> f, format |-> format]
      <4>1. desk' = [desk EXCEPT ![r] = d] /\ d.at = "save"
        BY <3>1 DEF OpenCreate
      <4> QED
        BY <4>1
    <3>2. ASSUME NEW f, NEW op, OpenNotice(r, op, n, f, format)
          PROVE  \E d : desk' = [desk EXCEPT ![r] = d] /\ d.at = "save"
      <4> DEFINE d == [at |-> "save", op |-> op, notice |-> n, loaded |-> table[n],
                       form |-> f, format |-> format]
      <4>1. desk' = [desk EXCEPT ![r] = d] /\ d.at = "save"
        BY <3>2 DEF OpenNotice
      <4> QED
        BY <4>1
    <3> QED
      BY <1>4, <3>1, <3>2 DEF Open
  <2>3. Announced' /\ \A m \in Notices : announced[m] \subseteq announced'[m]
    BY <2>1, <2>2, AnnouncedOfOne
  <2> QED
    BY <1>2, <2>1, <2>3
<1>5. ASSUME NEW r \in Requests, Refuse(r) \/ RaiseInTemplate(r) \/ Fail(r)
      PROVE  Announced' /\ ColumnsAnnounced'
  <2>1. UNCHANGED <<table, announced>> /\ InHand(desk[r])
    BY <1>5 DEF Refuse, RaiseInTemplate, Fail, history, InHand
  <2>2. PICK d : desk' = [desk EXCEPT ![r] = d] /\ d.at \in {"answer", "done"}
    <3>1. desk[r] \in Desks
      BY DEF TypedServer
    <3>2. [desk[r] EXCEPT !.at = "answer"].at = "answer"
      BY <3>1 DEF Desks
    <3> QED
      BY <1>5, <3>2, DeskFinished DEF Refuse, RaiseInTemplate, Fail
  <2>3. desk[r].notice \in Notices
    BY <2>1 DEF TypedServer, Equipped
  <2>4. Announced' /\ \A m \in Notices : announced[m] \subseteq announced'[m]
    BY <2>1, <2>2, <2>3, AnnouncedOfOne
  <2> QED
    BY <1>2, <2>1, <2>4
<1>6. ASSUME NEW r \in Requests, Save(r) \/ Destroy(r) \/ AnnounceAgain(r)
      PROVE  Announced' /\ ColumnsAnnounced'
  <2> DEFINE n == desk[r].notice
             word == WordOf(desk[r])
  <2>1. /\ n \in Notices /\ word \in Rows \cup {None} /\ UNCHANGED table
        /\ UNCHANGED announced \/ announced' = [announced EXCEPT ![n] = @ \cup {word}]
    BY <1>6, ToldByOne, FormsAreRows DEF Save, Destroy, AnnounceAgain
  <2>2. CASE Save(r) \/ Destroy(r)
    <3> DEFINE d == [desk[r] EXCEPT !.at = "commit"]
    <3>1. desk' = [desk EXCEPT ![r] = d]
      BY <2>2 DEF Save, Destroy
    <3>2. desk[r] \in Desks
      BY DEF TypedServer
    <3>3. d.notice = n /\ WordOf(d) = word
      BY <3>2 DEF Desks, WordOf
    <3>4. word \in announced'[n]
      <4>1. ~AnnounceAgain(r)
        BY <2>2 DEF Save, Destroy, AnnounceAgain
      <4>2. announced' = [announced EXCEPT ![n] = @ \cup {word}]
        BY <2>2, <4>1, ToldByOne
      <4> HIDE DEF n, word
      <4> QED
        BY <2>1, <4>2 DEF Announced
    <3> HIDE DEF d, n, word
    <3>5. Announced' /\ \A m \in Notices : announced[m] \subseteq announced'[m]
      BY <2>1, <3>1, <3>3, <3>4, AnnouncedOfOne
    <3> QED
      BY <1>2, <2>1, <3>5
  <2>3. CASE AnnounceAgain(r)
    <3>1. desk' = [desk EXCEPT ![r] = Finished]
      BY <2>3 DEF AnnounceAgain
    <3> HIDE DEF n, word
    <3>2. Announced' /\ \A m \in Notices : announced[m] \subseteq announced'[m]
      BY <2>1, <3>1, DeskFinished, AnnouncedOfOne
    <3> QED
      BY <1>2, <2>1, <3>2
  <2> QED
    BY <1>6, <2>2, <2>3
<1>7. ASSUME NEW r \in Requests, Commit(r) PROVE Announced' /\ ColumnsAnnounced'
  <2> DEFINE n == desk[r].notice
             d == [desk[r] EXCEPT !.at = "answer"]
  <2>1. /\ desk[r].at = "commit" /\ table' = [table EXCEPT ![n] = Row(r)]
        /\ desk' = [desk EXCEPT ![r] = d] /\ UNCHANGED announced
    BY <1>7 DEF Commit, history
  <2>2. n \in Notices
    BY <2>1, RowAnnounced
  <2>3. d.at = "answer"
    BY DEF TypedServer, Desks
  <2>4. Announced'
    <3> HIDE DEF d, n
    <3> QED
      BY <2>1, <2>2, <2>3, AnnouncedOfOne
  <2>5. ColumnsAnnounced'
    <3>1. ASSUME NEW m \in Notices, table'[m] # None, NEW c \in Columns
          PROVE  \E f \in announced'[m] \ {None} : f[c] = table'[m][c]
      <4>1. CASE m = n
        <5>1. table'[m] = Row(r)
          BY <2>1, <2>2, <4>1 DEF TypedServer
        <5> QED
          BY <2>1, <3>1, <4>1, <5>1, RowAnnounced
      <4>2. CASE m # n
        <5>1. table'[m] = table[m]
          BY <2>1, <4>2 DEF TypedServer
        <5> QED
          BY <2>1, <3>1, <5>1 DEF ColumnsAnnounced
      <4> QED
        BY <4>1, <4>2
    <3> QED
      BY <3>1 DEF ColumnsAnnounced
  <2> QED
    BY <2>4, <2>5
<1> QED
  BY <1>1, <1>3, <1>4, <1>5, <1>6, <1>7 DEF Next, Proceed, Formats, vars, server, history

LEMMA InitAnnounced ==
  ASSUME Init
  PROVE  Announced /\ ColumnsAnnounced
<1>1. announced \in [Notices -> SUBSET (Rows \cup {None})]
  BY FormsAreRows DEF Init
<1>2. \A r \in Requests : desk[r].at = "idle"
  BY DeskFinished DEF Init
<1>3. ColumnsAnnounced
  BY DEF Init, ColumnsAnnounced
<1> QED
  BY <1>1, <1>2, <1>3 DEF Announced

LEMMA AlwaysAnnounced == Spec => [](Announced /\ ColumnsAnnounced)
<1>1. Init => Announced /\ ColumnsAnnounced
  BY InitAnnounced
<1>2. Typed /\ Announced /\ ColumnsAnnounced /\ [Next]_vars => (Announced /\ ColumnsAnnounced)'
  BY AnnouncedStep DEF Typed
<1> QED
  BY <1>1, <1>2, AlwaysTyped, PTL DEF Spec

\* Nothing is committed that was not broadcast before, column by column, also when two
\* updates overlap and each writes the columns it found changed, when a request is refused
\* or fails half-way, and when the row was destroyed in between (notice.rb:42-44).
THEOREM ChangesAreBroadcast == Spec => ChangesAreAnnounced
<1> DEFINE Change == \A n \in Notices :
               table'[n] # table[n] =>
                   IF table'[n] = None THEN None \in announced[n]
                   ELSE \A c \in Columns :
                            \E f \in announced[n] \ {None} : f[c] = table'[n][c]
<1>1. ASSUME TypedServer, Announced, ColumnsAnnounced, [Next]_vars PROVE [Change]_vars
  <2>1. CASE UNCHANGED table
    BY <2>1
  <2>2. ASSUME NEW r \in Requests, Commit(r) PROVE Change
    <3> SUFFICES ASSUME NEW n \in Notices, table'[n] # table[n]
                 PROVE  IF table'[n] = None THEN None \in announced[n]
                        ELSE \A c \in Columns :
                                 \E f \in announced[n] \ {None} : f[c] = table'[n][c]
      OBVIOUS
    <3>1. desk[r].at = "commit" /\ table' = [table EXCEPT ![desk[r].notice] = Row(r)]
      BY <2>2 DEF Commit
    <3>2. n = desk[r].notice /\ table'[n] = Row(r)
      BY <3>1 DEF TypedServer
    <3> QED
      BY <1>1, <3>1, <3>2, RowAnnounced
  <2>3. UNCHANGED table \/ \E r \in Requests : Commit(r)
    <3>1. ASSUME NEW p \in Pages, Client(p) PROVE UNCHANGED table
      BY <3>1 DEF Client, Visit, Restore, Leave, Receive, RenderList, loadNotices, FetchFails,
                  Drop, Reconnect, server
    <3>2. ASSUME NEW r \in Requests, NEW n \in Notices, NEW format, Open(r, n, format)
          PROVE  UNCHANGED table
      BY <3>2 DEF Open, OpenCreate, OpenNotice
    <3>3. ASSUME NEW r \in Requests, Proceed(r) \/ Fail(r) PROVE UNCHANGED table \/ Commit(r)
      BY <3>3 DEF Proceed, Refuse, Save, Destroy, RaiseInTemplate, AnnounceAgain, Fail
    <3> QED
      BY <1>1, <3>1, <3>2, <3>3 DEF Next, vars, server
  <2> QED
    BY <2>1, <2>2, <2>3
<1>2. Typed /\ Announced /\ ColumnsAnnounced /\ [Next]_vars => [Change]_vars
  BY <1>1 DEF Typed
<1> QED
  BY <1>2, AlwaysTyped, AlwaysAnnounced, PTL DEF Spec, ChangesAreAnnounced

-----------------------------------------------------------------------------
(* The last word on a notice.                                              *)

\* How far the request at a desk is with a notice it alone works on: it holds the row as
\* stored; then its word is out; then its word is stored.
Stands(d, row, last) ==
    /\ d.at \in {"save", "commit"} => d.loaded = row
    /\ d.at \in {"save", "answer"} => last = row
    /\ d.at \in {"commit", "answer"} => last = WordOf(d)

OneAtATime(n) ==
    /\ \A q, r \in Requests : desk[q].notice = n /\ desk[r].notice = n => q = r
    /\ (\A r \in Requests : desk[r].notice # n) => lastWord[n] = table[n]
    /\ \A r \in Requests : desk[r].notice = n => Stands(desk[r], table[n], lastWord[n])

LastWords ==
    /\ lastWord \in [Notices -> Rows \cup {None}]
    /\ \A n \in Notices \ tainted : OneAtATime(n)

\* One request moves: what it must leave behind at its notice.
LEMMA LastWordsOfOne ==
  ASSUME TypedServer, LastWords, NEW r \in Requests, NEW n \in Notices, NEW d,
         desk' = [desk EXCEPT ![r] = d], desk[r].notice \in {n, None}, d.notice \in {n, None},
         tainted \subseteq tainted', lastWord' \in [Notices -> Rows \cup {None}],
         \A m \in Notices : m # n => table'[m] = table[m] /\ lastWord'[m] = lastWord[m],
         n \notin tainted' =>
             /\ \A q \in Requests : desk[q].notice = n => q = r
             /\ IF d.notice = None THEN lastWord'[n] = table'[n]
                                   ELSE Stands(d, table'[n], lastWord'[n])
  PROVE  LastWords'
<1>1. desk'[r] = d /\ \A q \in Requests : q # r => desk'[q] = desk[q]
  BY DEF TypedServer
<1>2. n # None
  BY NoneIsOther
<1> SUFFICES ASSUME NEW m \in Notices, m \notin tainted' PROVE OneAtATime(m)'
  BY DEF LastWords, OneAtATime, Stands, WordOf
<1>3. CASE m = n
  <2>1. \A q \in Requests : desk'[q].notice = m => q = r
    BY <1>1, <1>3
  <2>2. CASE d.notice = None
    <3>1. \A q \in Requests : desk'[q].notice # m
      BY <1>1, <1>2, <1>3, <2>1, <2>2
    <3> QED
      BY <1>3, <2>2, <3>1 DEF OneAtATime
  <2>3. CASE d.notice = n
    <3>1. Stands(desk'[r], table'[m], lastWord'[m])
      BY <1>1, <1>2, <1>3, <2>3
    <3>2. \A q \in Requests : desk'[q].notice = m => Stands(desk'[q], table'[m], lastWord'[m])
      BY <2>1, <3>1
    <3>3. ~\A q \in Requests : desk'[q].notice # m
      BY <1>1, <1>3, <2>3
    <3> QED
      BY <2>1, <3>2, <3>3 DEF OneAtATime, Stands, WordOf
  <2> QED
    BY <2>2, <2>3
<1>4. CASE m # n
  <2>1. OneAtATime(m)
    BY DEF LastWords
  <2>2. \A q \in Requests : desk'[q].notice = m <=> desk[q].notice = m
    BY <1>1, <1>4, NoneIsOther
  <2>3. \A q \in Requests : desk'[q].notice = m => desk'[q] = desk[q]
    BY <1>1, <1>4, NoneIsOther
  <2>4. table'[m] = table[m] /\ lastWord'[m] = lastWord[m]
    BY <1>4
  <2>5. \A q \in Requests : desk'[q].notice = m => Stands(desk'[q], table'[m], lastWord'[m])
    BY <2>1, <2>2, <2>3, <2>4 DEF OneAtATime
  <2>6. (\A q \in Requests : desk'[q].notice # m) => lastWord'[m] = table'[m]
    BY <2>1, <2>2, <2>4 DEF OneAtATime
  <2>7. \A q, s \in Requests : desk'[q].notice = m /\ desk'[s].notice = m => q = s
    BY <2>1, <2>2 DEF OneAtATime
  <2> QED
    BY <2>5, <2>6, <2>7 DEF OneAtATime, Stands, WordOf
<1> QED
  BY <1>3, <1>4

\* The transaction of a request that alone works on its notice leaves its word.
LEMMA RowIsTheWord ==
  ASSUME TypedServer, NEW r \in Requests, desk[r].at = "commit",
         desk[r].loaded = table[desk[r].notice]
  PROVE  Row(r) = WordOf(desk[r])
<1> DEFINE d == desk[r]
           f == d.form
           row == [c \in Columns |-> IF c \in Changed(r) THEN f[c] ELSE d.loaded[c]]
<1>1. /\ d.op \in {"create", "update", "destroy"}
      /\ d.op # "destroy" => f \in Forms
      /\ d.op \in {"update", "destroy"} => d.loaded # None
  BY NoneIsOther DEF TypedServer, Equipped, InHand
<1>2. CASE d.op \in {"create", "destroy"}
  BY <1>2 DEF Row, WordOf
<1>3. CASE d.op = "update"
  <2>1. d.loaded # None /\ f \in Forms
    BY <1>1, <1>3
  <2>2. Row(r) = row
    BY <1>3, <2>1 DEF Row
  <2>3. Changed(r) = {c \in Columns : f[c] # d.loaded[c]}
    BY <2>1 DEF Changed
  <2>4. row = [c \in Columns |-> f[c]]
    BY <2>3
  <2>5. row = f
    BY <2>1, <2>4, FormsAreAttributes DEF Attributes
  <2> QED
    BY <1>3, <2>2, <2>5 DEF WordOf
<1>4. d.op \in {"create", "destroy"} \/ d.op = "update"
  BY <1>1
<1> QED
  BY <1>2, <1>3, <1>4

LEMMA LastWordsStep ==
  ASSUME TypedServer, LastWords, [Next]_vars
  PROVE  LastWords'
<1>1. CASE UNCHANGED <<table, desk, lastWord, tainted>>
  BY <1>1 DEF LastWords, OneAtATime, Stands, WordOf
<1>2. ASSUME NEW p \in Pages, Client(p) PROVE UNCHANGED <<table, desk, lastWord, tainted>>
  BY <1>2 DEF Client, Visit, Restore, Leave, Receive, RenderList, loadNotices, FetchFails, Drop,
              Reconnect, server, history
\* A request at hand, and how it stands.
<1>3. ASSUME NEW r \in Requests, InHand(desk[r])
      PROVE  /\ desk[r] \in Desks /\ desk[r].notice \in Notices /\ desk[r].notice # None
             /\ desk[r].notice \notin tainted =>
                  /\ \A q \in Requests : desk[q].notice = desk[r].notice => q = r
                  /\ Stands(desk[r], table[desk[r].notice], lastWord[desk[r].notice])
  <2>1. desk[r] \in Desks /\ desk[r].notice \in Notices
    BY <1>3 DEF TypedServer, Equipped
  <2>2. desk[r].notice \notin tainted => OneAtATime(desk[r].notice)
    BY <2>1 DEF LastWords
  <2> QED
    BY <2>1, <2>2, NoneIsOther DEF OneAtATime
<1>4. ASSUME NEW r \in Requests, NEW n \in Notices, NEW f \in Forms, NEW format,
             OpenCreate(r, n, f, format)
      PROVE  LastWords'
  <2> DEFINE d == [at |-> "save", op |-> "create", notice |-> n, loaded |-> None,
                   form |-> f, format |-> format]
  <2>1. /\ desk' = [desk EXCEPT ![r] = d] /\ UNCHANGED <<table, lastWord, tainted>>
        /\ desk[r].at = "idle" /\ n \notin born
    BY <1>4 DEF OpenCreate, history
  <2>2. desk[r].notice = None
    BY <2>1 DEF TypedServer, Equipped, InHand
  <2>3. table[n] = None /\ \A q \in Requests : desk[q].notice # n
    BY <2>1, NoneIsOther DEF TypedServer
  <2>4. n \notin tainted => lastWord[n] = None
    BY <2>3 DEF LastWords, OneAtATime
  <2>5. d.notice = n /\ (n \notin tainted => Stands(d, table[n], lastWord[n]))
    BY <2>3, <2>4 DEF Stands
  <2>6. n # None
    BY NoneIsOther
  <2> HIDE DEF d
  <2> QED
    BY <2>1, <2>2, <2>3, <2>5, <2>6, LastWordsOfOne DEF LastWords
<1>5. ASSUME NEW r \in Requests, NEW op, NEW n \in Notices, NEW f, NEW format,
             OpenNotice(r, op, n, f, format)
      PROVE  LastWords'
  <2> DEFINE d == [at |-> "save", op |-> op, notice |-> n, loaded |-> table[n],
                   form |-> f, format |-> format]
  <2>1. /\ desk' = [desk EXCEPT ![r] = d] /\ UNCHANGED <<table, lastWord>>
        /\ desk[r].at = "idle" /\ tainted \subseteq tainted'
        /\ n \notin tainted' => AtWork(n) = {}
    BY <1>5 DEF OpenNotice
  <2>2. desk[r].notice = None
    BY <2>1 DEF TypedServer, Equipped, InHand
  <2>3. ASSUME n \notin tainted', NEW q \in Requests PROVE desk[q].notice # n
    BY <2>1, <2>3, NoneIsOther DEF AtWork, TypedServer, Equipped, InHand
  <2>4. n \notin tainted' => lastWord[n] = table[n]
    BY <2>1, <2>3 DEF LastWords, OneAtATime
  <2>5. d.notice = n /\ (n \notin tainted' => Stands(d, table[n], lastWord[n]))
    BY <2>4 DEF Stands
  <2>6. n # None
    BY NoneIsOther
  <2> HIDE DEF d
  <2> QED
    BY <2>1, <2>2, <2>3, <2>5, <2>6, LastWordsOfOne DEF LastWords
\* What taints a notice.
<1>6. ASSUME NEW r \in Requests, Refuse(r) \/ Fail(r) PROVE LastWords'
  <2> DEFINE n == desk[r].notice
  <2>1. /\ InHand(desk[r]) /\ UNCHANGED <<table, lastWord>> /\ tainted' = tainted \cup {n}
    BY <1>6 DEF Refuse, Fail, InHand
  <2>2. n \in Notices /\ desk[r] \in Desks
    BY <1>3, <2>1
  <2>3. PICK d : desk' = [desk EXCEPT ![r] = d] /\ d.notice \in {n, None}
    <3>1. [desk[r] EXCEPT !.at = "answer"].notice = n
      BY <2>2 DEF Desks
    <3> QED
      BY <1>6, <3>1, DeskFinished DEF Refuse, Fail
  <2> HIDE DEF n
  <2>4. desk[r].notice = n
    BY DEF n
  <2> QED
    BY <2>1, <2>2, <2>3, <2>4, LastWordsOfOne DEF LastWords
\* The word goes out, in the transaction.
<1>7. ASSUME NEW r \in Requests, Save(r) \/ Destroy(r) PROVE LastWords'
  <2> DEFINE n == desk[r].notice
             d == [desk[r] EXCEPT !.at = "commit"]
  <2>1. /\ desk[r].at = "save" /\ InHand(desk[r]) /\ UNCHANGED <<table, tainted>>
        /\ desk' = [desk EXCEPT ![r] = d]
    BY <1>7 DEF Save, Destroy, InHand
  <2>2. /\ lastWord' = [lastWord EXCEPT ![n] = WordOf(desk[r])]
        /\ WordOf(desk[r]) \in Rows \cup {None} /\ n \in Notices
    <3>1. ~AnnounceAgain(r)
      BY <1>7 DEF Save, Destroy, AnnounceAgain
    <3> QED
      BY <1>7, <3>1, ToldByOne, FormsAreRows
  <2>3. /\ desk[r] \in Desks /\ n # None
        /\ n \notin tainted => /\ \A q \in Requests : desk[q].notice = n => q = r
                              /\ Stands(desk[r], table[n], lastWord[n])
    BY <1>3, <2>1
  <2>4. d.notice = n /\ d.at = "commit" /\ WordOf(d) = WordOf(desk[r]) /\ d.loaded = desk[r].loaded
    BY <2>3 DEF Desks, WordOf
  <2>5. lastWord'[n] = WordOf(desk[r]) /\ lastWord' \in [Notices -> Rows \cup {None}]
        /\ \A m \in Notices : m # n => lastWord'[m] = lastWord[m]
    BY <2>2 DEF LastWords
  <2> HIDE DEF d
  <2>6. n \notin tainted => Stands(d, table[n], lastWord'[n])
    BY <2>1, <2>3, <2>4, <2>5 DEF Stands
  <2>7. PICK m \in Notices : m = n
    BY <2>2
  <2> HIDE DEF n
  <2>8. desk[r].notice = n
    BY DEF n
  <2> QED
    BY <2>1, <2>2, <2>3, <2>4, <2>5, <2>6, <2>8, LastWordsOfOne
\* The word is stored.
<1>8. ASSUME NEW r \in Requests, Commit(r) PROVE LastWords'
  <2> DEFINE n == desk[r].notice
             d == [desk[r] EXCEPT !.at = "answer"]
  <2>1. /\ desk[r].at = "commit" /\ InHand(desk[r]) /\ UNCHANGED <<lastWord, tainted>>
        /\ desk' = [desk EXCEPT ![r] = d] /\ table' = [table EXCEPT ![n] = Row(r)]
    BY <1>8 DEF Commit, InHand, history
  <2>2. /\ desk[r] \in Desks /\ n # None /\ n \in Notices
        /\ n \notin tainted => /\ \A q \in Requests : desk[q].notice = n => q = r
                              /\ Stands(desk[r], table[n], lastWord[n])
    BY <1>3, <2>1
  <2>3. d.notice = n /\ d.at = "answer" /\ WordOf(d) = WordOf(desk[r])
    BY <2>2 DEF Desks, WordOf
  <2>4. table'[n] = Row(r) /\ \A m \in Notices : m # n => table'[m] = table[m]
    BY <2>1, <2>2 DEF TypedServer
  <2>5. n \notin tainted => /\ desk[r].loaded = table[n] /\ lastWord[n] = WordOf(desk[r])
    BY <2>1, <2>2 DEF Stands
  <2>6. n \notin tainted => table'[n] = WordOf(desk[r])
    BY <2>1, <2>4, <2>5, RowIsTheWord
  <2> HIDE DEF d
  <2>7. n \notin tainted => Stands(d, table'[n], lastWord[n])
    BY <2>3, <2>5, <2>6 DEF Stands
  <2> HIDE DEF n
  <2>8. desk[r].notice = n
    BY DEF n
  <2> QED
    BY <2>1, <2>2, <2>3, <2>4, <2>7, <2>8, LastWordsOfOne DEF LastWords
\* The request ends: it says its word again, or nothing.
<1>9. ASSUME NEW r \in Requests, RaiseInTemplate(r) \/ AnnounceAgain(r) PROVE LastWords'
  <2> DEFINE n == desk[r].notice
  <2>1. /\ desk[r].at = "answer" /\ InHand(desk[r]) /\ UNCHANGED <<table, tainted>>
        /\ desk' = [desk EXCEPT ![r] = Finished]
    BY <1>9 DEF RaiseInTemplate, AnnounceAgain, InHand, history
  <2>2. /\ desk[r] \in Desks /\ n # None /\ n \in Notices
        /\ n \notin tainted => /\ \A q \in Requests : desk[q].notice = n => q = r
                              /\ Stands(desk[r], table[n], lastWord[n])
    BY <1>3, <2>1
  <2>3. \/ UNCHANGED lastWord
        \/ /\ lastWord' = [lastWord EXCEPT ![n] = WordOf(desk[r])]
           /\ WordOf(desk[r]) \in Rows \cup {None}
    BY <1>9, ToldByOne, FormsAreRows DEF RaiseInTemplate, history
  <2>4. /\ lastWord' \in [Notices -> Rows \cup {None}]
        /\ \A m \in Notices : m # n => lastWord'[m] = lastWord[m]
        /\ lastWord'[n] \in {lastWord[n], WordOf(desk[r])}
    BY <2>2, <2>3 DEF LastWords
  <2>5. n \notin tainted => lastWord'[n] = table[n]
    BY <2>1, <2>2, <2>4 DEF Stands
  <2> HIDE DEF n
  <2>6. desk[r].notice = n
    BY DEF n
  <2> QED
    BY <2>1, <2>2, <2>4, <2>5, <2>6, DeskFinished, LastWordsOfOne
<1> QED
  BY <1>1, <1>2, <1>4, <1>5, <1>6, <1>7, <1>8, <1>9
  DEF Next, Proceed, Open, Formats, vars, server, history

LEMMA InitLastWords ==
  ASSUME Init
  PROVE  LastWords
<1>1. lastWord \in [Notices -> Rows \cup {None}]
  BY FormsAreRows DEF Init
<1>2. \A r \in Requests : desk[r].notice = None
  BY DeskFinished DEF Init
<1>3. ASSUME NEW n \in Notices PROVE OneAtATime(n)
  <2>1. n # None /\ lastWord[n] = table[n]
    BY NoneIsOther DEF Init
  <2> QED
    BY <1>2, <2>1 DEF OneAtATime
<1> QED
  BY <1>1, <1>3 DEF LastWords

\* When nobody works on a notice, what was last broadcast of it is what the table holds,
\* unless requests for it overlapped, were refused or failed: each says its word in the
\* transaction and, answered in HTML, once more after it, and alone the two are the same,
\* since an UPDATE of the row as loaded leaves the form (notice.rb:42-44,
\* notice_updates.rb:10-26).
THEOREM LastWordIsTheTable == Spec => []LastWordIsCurrent
<1>1. Init => LastWords
  BY InitLastWords
<1>2. Typed /\ LastWords /\ [Next]_vars => LastWords'
  BY LastWordsStep DEF Typed
<1>3. ASSUME Typed, LastWords PROVE LastWordIsCurrent
  <2> SUFFICES ASSUME NEW n \in Notices \ tainted, AtWork(n) = {} PROVE lastWord[n] = table[n]
    BY DEF LastWordIsCurrent
  <2>1. ASSUME NEW r \in Requests PROVE desk[r].notice # n
    BY <1>3, NoneIsOther DEF AtWork, Typed, TypedServer, Equipped, InHand
  <2> QED
    BY <1>3, <2>1 DEF LastWords, OneAtATime
<1>4. Typed /\ LastWords => LastWordIsCurrent
  BY <1>3
<1> QED
  BY <1>1, <1>2, <1>4, AlwaysTyped, PTL DEF Spec
=============================================================================
