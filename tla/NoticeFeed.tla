------------------------------ MODULE NoticeFeed ------------------------------
(***************************************************************************)
(* Notices, their broadcasts, and the pages that list them.  Staff create, *)
(* update and destroy notices.  The model broadcasts each change inside    *)
(* its transaction (after_create, after_update, after_destroy), and the    *)
(* controller broadcasts it again once it has answered.  Action Cable      *)
(* hands a message to the pages whose socket is subscribed to its stream;  *)
(* the Stimulus controller of an open list page edits the list, beside the *)
(* list it fetches when it connects.                                       *)
(***************************************************************************)
EXTENDS Integers, Sequences, FiniteSets

CONSTANTS
    Notices,    \* ids
    Requests,   \* requests of staff, one change each
    Pages,      \* browser windows with the application loaded
    Users,      \* the roles of those who may sit at one
    Forms,      \* what staff may submit: the columns of a notice
    MayFail,    \* requests whose COMMIT may fail or whose process may die
    HasTargets, \* the page carries the targets the controller names
    HasCards,   \* the cards carry the class it looks for
    MaxVisits,  \* bound: visits to the list per page
    MaxDrops,   \* bound: sockets lost per page
    None

Roles == {"admin", "teacher", "parent", "student"}
Audiences == {"teachers", "parents", "students", "specific_grades"}
Columns == {"title", "target_audience", "current"}

\* title is None when it is blank, target_audience None for everyone; current
\* says that the notice is active and has an expiry still to come.
Attributes(f) ==
    /\ f = [c \in Columns |-> f[c]]
    /\ f.target_audience \in Audiences \cup {None} /\ f.current \in BOOLEAN

\* What a row may hold: two updates that overlap leave columns of each.
Rows == {[c \in Columns |-> h[c][c]] : h \in [Columns -> Forms]}

ASSUME RolesOfUsers == Users \subseteq Roles
ASSUME FormsAreAttributes == \A f \in Forms : Attributes(f)
ASSUME Options == HasTargets \in BOOLEAN /\ HasCards \in BOOLEAN
ASSUME Bounds == MaxVisits \in Nat /\ MaxDrops \in Nat
ASSUME FailingRequests == MayFail \subseteq Requests
ASSUME FiniteNotices == IsFiniteSet(Notices)
ASSUME NoneIsOther == None \notin Rows /\ None \notin Audiences /\ None \notin Notices

VARIABLES
    role,       \* the role of the user at each page
    table,      \* committed rows
    born,       \* ids handed out
    desk,       \* the requests
    socket,     \* the page's socket is up, subscribed to the stream of its user
    inbox,      \* messages on their way to it, in order
    page,       \* the list page and its notice controller
    drops,      \* sockets lost
    announced,  \* history: what was broadcast of each notice, None its end
    lastWord,   \* history: the last broadcast of each notice
    tainted,    \* history: notices with overlapping, refused or failed requests
    removed,    \* history: ends the open list has been told of
    raced,      \* history: a fetched list brought one of those back
    blind       \* history: the list may have missed a message

server == <<table, born, desk>>
wire == <<role, socket, drops>>
told == <<removed, raced, blind>>
history == <<announced, lastWord, tainted>>
clients == <<wire, inbox, page, told>>
vars == <<server, history, clients>>

\* A broadcast: to the streams of NoticeChannel, with attributes or an id.
Messages == [action : {"create", "update", "destroy"}, id : Notices \cup {None},
             audience : Audiences \cup {None}]

TypeOK ==
    /\ table \in [Notices -> Rows \cup {None}]
    /\ born \subseteq Notices
    /\ \A r \in Requests :
           /\ desk[r].at \in {"idle", "save", "commit", "answer", "done"}
           /\ desk[r].notice \in Notices \cup {None}
           /\ desk[r].form \in Forms \cup {None}
    /\ role \in [Pages -> Users] /\ socket \in [Pages -> BOOLEAN]
    /\ inbox \in [Pages -> Seq(Messages)]
    /\ \A p \in Pages :
           /\ page[p].cards \subseteq Notices /\ page[p].count \in Nat
           /\ page[p].fetch \in {"none", "asked", "answered"}
    /\ drops \in [Pages -> 0 .. MaxDrops]
    /\ tainted \subseteq Notices /\ removed \in [Pages -> SUBSET Notices]
    /\ raced \in [Pages -> BOOLEAN] /\ blind \in [Pages -> BOOLEAN]

AtRest == [at |-> "idle", op |-> None, notice |-> None, loaded |-> None,
           form |-> None, format |-> None]
Blank == [open |-> FALSE, cards |-> {}, count |-> 0, list |-> FALSE,
          fetch |-> "none", html |-> {}, visits |-> 0]

Init ==
    /\ table \in [Notices -> {f \in Forms : f.title # None} \cup {None}]
    /\ born = {n \in Notices : table[n] # None}
    /\ desk = [r \in Requests |-> AtRest]
    /\ role \in [Pages -> Users] /\ socket = [p \in Pages |-> TRUE] 
    /\ inbox = [p \in Pages |-> <<>>]
    /\ page = [p \in Pages |-> Blank] /\ drops = [p \in Pages |-> 0]
    /\ announced = [n \in Notices |-> {table[n]}] /\ lastWord = table
    /\ tainted = {} /\ removed = [p \in Pages |-> {}]
    /\ raced = [p \in Pages |-> FALSE] /\ blind = [p \in Pages |-> FALSE]

-----------------------------------------------------------------------------
(* NoticeChannel.                                                          *)

Suffixed(suffix) == <<"notice_channel", suffix>>

\* The subscriptions to NoticeChannel in a window: the one notice_channel.js
\* makes when the application loads and, on the open list, the controller's.
\* They have one identifier, and the server streams to it while any is left.
Subscriptions(p) ==
    {"notice_channel.js"} \cup (IF page[p].open THEN {"notice_controller.js"} ELSE {})

\* Mutant: stream_from "notice_channel" for everyone.
SubscribedToAll(p) == <<"notice_channel">>

\* The stream of a subscriber.
subscribed(p) ==
    IF role[p] = "admin" THEN <<"notice_channel">> ELSE Suffixed(role[p])

\* The streams a notice is broadcast to.
Streams(audience) ==
    {<<"notice_channel">>} \cup (IF audience = None THEN {} ELSE {Suffixed(audience)})

\* ActionCable.server.broadcast reaches the sockets that are up.
Broadcast(m) ==
    inbox' = [p \in Pages |->
                 IF /\ socket[p] /\ Subscriptions(p) # {}
                    /\ subscribed(p) \in Streams(m.audience)
                 THEN Append(inbox[p], m) ELSE inbox[p]]

\* The roles a notice is meant for (scope for_role).
for_role(who, audience) ==
    \/ who = "admin" \/ audience = None
    \/ <<who, audience>> \in {<<"teacher", "teachers">>, <<"parent", "parents">>,
                               <<"student", "students">>}

Tell(r, action) ==
    LET n == desk[r].notice
        f == desk[r].form
    IN  /\ Broadcast([action |-> action, id |-> n, audience |-> f.target_audience])
        /\ announced' = [announced EXCEPT ![n] = @ \cup {f}]
        /\ lastWord' = [lastWord EXCEPT ![n] = f]

-----------------------------------------------------------------------------
(* Requests of staff.                                                      *)

Finished == [AtRest EXCEPT !.at = "done"]

AtWork(n) ==
    {r \in Requests : desk[r].notice = n /\ desk[r].at # "done"}

\* NoticesController#create, up to the save.  The id stands for the one the
\* INSERT will be given.
OpenCreate(r, n, f, format) ==
    /\ desk[r].at = "idle" /\ n \notin born
    /\ born' = born \cup {n}
    /\ desk' = [desk EXCEPT ![r] = [at |-> "save", op |-> "create", notice |-> n,
                                    loaded |-> None, form |-> f, format |-> format]]
    /\ UNCHANGED <<table, history, clients>>

\* set_notice, then the form (a DELETE has none).
OpenNotice(r, op, n, f, format) ==
    /\ desk[r].at = "idle" /\ table[n] # None
    /\ desk' = [desk EXCEPT ![r] = [at |-> "save", op |-> op, notice |-> n,
                                    loaded |-> table[n], form |-> f, format |-> format]]
    /\ tainted' = IF AtWork(n) = {} THEN tainted ELSE tainted \cup {n}
    /\ UNCHANGED <<table, born, announced, lastWord, clients>>

\* The columns an UPDATE writes: those that differ from the row as loaded.
Changed(r) == IF desk[r].loaded = None THEN Columns
              ELSE {c \in Columns : desk[r].form[c] # desk[r].loaded[c]}

Writes(r) == desk[r].op = "destroy" \/ Changed(r) # {}

\* The rows that open transactions have written.
Locked == {desk[r].notice : r \in {q \in Requests : desk[q].at = "commit" /\ Writes(q)}}

\* save is false: nothing is stored.  A new record is not announced; the record
\* of a refused update is persisted, and goes on to the controller's broadcast
\* unless the answer is a Turbo stream, whose template does not exist.
Refuse(r) ==
    /\ desk[r].at = "save" /\ desk[r].op # "destroy" /\ desk[r].form.title = None
    /\ LET announces == desk[r].op = "update" /\ desk[r].format = "html"
       IN  desk' = [desk EXCEPT ![r] = IF announces THEN [@ EXCEPT !.at = "answer"]
                                       ELSE Finished]
    /\ tainted' = tainted \cup {desk[r].notice}
    /\ UNCHANGED <<table, born, announced, lastWord, clients>>

\* Mutant: the model no longer broadcasts; the controller does, later.
SaveSilently(r) ==
    /\ desk[r].at = "save" /\ desk[r].op # "destroy" /\ desk[r].form.title # None
    /\ Writes(r) => desk[r].notice \notin Locked
    /\ desk' = [desk EXCEPT ![r].at = "commit"]
    /\ UNCHANGED <<table, born, history, clients>>

\* INSERT or UPDATE, then after_create or after_update, in the transaction.
Save(r) ==
    /\ desk[r].at = "save" /\ desk[r].op # "destroy" /\ desk[r].form.title # None
    /\ Writes(r) => desk[r].notice \notin Locked
    /\ Tell(r, desk[r].op)
    /\ desk' = [desk EXCEPT ![r].at = "commit"]
    /\ UNCHANGED <<table, born, tainted, wire, page, told>>

\* DELETE, then after_destroy, in the transaction: only the admins' stream.
Destroy(r) ==
    /\ desk[r].at = "save" /\ desk[r].op = "destroy"
    /\ desk[r].notice \notin Locked
    /\ LET n == desk[r].notice
       IN  /\ Broadcast([action |-> "destroy", id |-> n, audience |-> None])
           /\ announced' = [announced EXCEPT ![n] = @ \cup {None}]
           /\ lastWord' = [lastWord EXCEPT ![n] = None]
    /\ desk' = [desk EXCEPT ![r].at = "commit"]
    /\ UNCHANGED <<table, born, tainted, wire, page, told>>

\* The row once the transaction of r commits: an UPDATE writes the changed
\* columns, and nothing if the row is gone.
Row(r) ==
    LET old == table[desk[r].notice]
    IN  CASE desk[r].op = "destroy" -> None
          [] desk[r].op = "create" -> desk[r].form
          [] desk[r].op = "update" ->
                 IF old = None THEN None
                 ELSE [c \in Columns |-> IF c \in Changed(r) THEN desk[r].form[c]
                                         ELSE old[c]]

Commit(r) ==
    /\ desk[r].at = "commit"
    /\ table' = [table EXCEPT ![desk[r].notice] = Row(r)]
    /\ desk' = [desk EXCEPT ![r].at = "answer"]
    /\ UNCHANGED <<born, history, clients>>

\* COMMIT fails, or the process dies; what was broadcast stays broadcast.
Fail(r) ==
    /\ r \in MayFail /\ desk[r].at \in {"save", "commit", "answer"}
    /\ desk' = [desk EXCEPT ![r] = Finished]
    /\ tainted' = tainted \cup {desk[r].notice}
    /\ UNCHANGED <<table, born, announced, lastWord, clients>>

\* The Turbo stream templates raise (@notices is nil, shared/_flash does not
\* exist), and no after_action runs.
RaiseInTemplate(r) ==
    /\ desk[r].at = "answer" /\ desk[r].format = "turbo_stream"
    /\ desk' = [desk EXCEPT ![r] = Finished]
    /\ UNCHANGED <<table, born, history, clients>>

\* Mutant: the second broadcast carries the record as it was loaded.
AnnounceLoaded(r) ==
    /\ desk[r].at = "answer" /\ desk[r].format = "html"
    /\ lastWord' = [lastWord EXCEPT ![desk[r].notice] = desk[r].loaded]
    /\ desk' = [desk EXCEPT ![r] = Finished]
    /\ UNCHANGED <<table, born, announced, tainted, clients>>

\* broadcast_notice_update: the end of a notice is told to the admins' stream
\* without the notice_id the page reads.
AnnounceAgain(r) ==
    /\ desk[r].at = "answer" /\ desk[r].format = "html"
    /\ \/ desk[r].op # "destroy" /\ Tell(r, desk[r].op)
       \/ /\ desk[r].op = "destroy"
          /\ Broadcast([action |-> "destroy", id |-> None, audience |-> None])
          /\ UNCHANGED <<announced, lastWord>>
    /\ desk' = [desk EXCEPT ![r] = Finished]
    /\ UNCHANGED <<table, born, tainted, wire, page, told>>

-----------------------------------------------------------------------------
(* The list page.                                                          *)

\* filtered_notices, as a user of that role sees it.
filtered_notices(who) ==
    {n \in Notices : /\ table[n] # None /\ table[n].current
                     /\ for_role(who, table[n].target_audience)}

\* A broadcast of the end of a shown notice is out, and its commit is not.
Ending(cards) == \E r \in Requests : /\ desk[r].notice \in cards
                                     /\ desk[r].op = "destroy" /\ desk[r].at = "commit"

\* The controller subscribes and fetches the list.
connect(pg) == [pg EXCEPT !.open = TRUE, !.fetch = "asked", !.visits = @ + 1]

\* index renders the list, and its controller connects.  An empty list has no
\* element to be the target.
Visit(p) ==
    /\ ~page[p].open /\ page[p].visits < MaxVisits
    /\ LET cards == filtered_notices(role[p])
       IN  /\ page' = [page EXCEPT ![p] =
                  connect([@ EXCEPT !.cards = cards, !.count = Cardinality(cards),
                                    !.list = HasTargets /\ cards # {}])]
           /\ blind' = [blind EXCEPT ![p] = ~socket[p] \/ Ending(cards)]
    /\ UNCHANGED <<server, history, wire, inbox, removed, raced>>

\* Turbo restores the page from its cache, as it was left.
Restore(p) ==
    /\ ~page[p].open /\ page[p].visits \in 1 .. MaxVisits - 1
    /\ page' = [page EXCEPT ![p] = connect(@)]
    /\ blind' = [blind EXCEPT ![p] = TRUE]
    /\ UNCHANGED <<server, history, wire, inbox, removed, raced>>

\* The controller's subscription is removed.  An answer still to come edits a
\* list that is no longer shown.
disconnect(pg) == [pg EXCEPT !.open = FALSE, !.fetch = "none", !.html = {}]

Leave(p) ==
    /\ page[p].open
    /\ page' = [page EXCEPT ![p] = disconnect(@)]
    /\ removed' = [removed EXCEPT ![p] = {}] /\ raced' = [raced EXCEPT ![p] = FALSE]
    /\ blind' = [blind EXCEPT ![p] = FALSE]
    /\ UNCHANGED <<server, history, wire, inbox>>

updateNoticeCount(pg) == [pg EXCEPT !.count = Cardinality(pg.cards)]

\* Mutant: an element, built from the template.
ElementOfTemplate(m) == [element |-> TRUE, id |-> m.id]

\* The card of a notice is a template string, not an element.
createNoticeElement(m) == [element |-> FALSE, id |-> m.id]

\* prepend() inserts a string as text, and the access to its classList raises
\* before the count is updated.
prependNotice(pg, m) ==
    IF createNoticeElement(m).element
    THEN updateNoticeCount([pg EXCEPT !.cards = @ \cup {m.id}]) ELSE pg

\* The outerHTML of a string is undefined: the card gives way to that word.
updateNotice(pg, m) ==
    IF createNoticeElement(m).element THEN pg ELSE [pg EXCEPT !.cards = @ \ {m.id}]

\* Mutant: the id is looked for where the controller's broadcast has it.
KeepNotice(pg, m) == pg

removeNotice(pg, m) == [pg EXCEPT !.cards = @ \ {m.id}]

\* Mutant: the end of a notice takes one off the count, whether or not its card is
\* in the list.
CountedDown(pg, m) ==
    CASE ~pg.list \/ m.action = "create" -> pg
      [] pg.list /\ m.action = "update" -> updateNoticeCount(updateNotice(pg, m))
      [] pg.list /\ m.action = "destroy" ->
             [removeNotice(pg, m) EXCEPT !.count = @ - 1]

\* Mutant: a removal does not update the count.
CountForgotten(pg, m) ==
    CASE ~pg.list \/ m.action = "create" -> pg
      [] pg.list /\ m.action = "update" -> updateNotice(pg, m)
      [] pg.list /\ m.action = "destroy" -> removeNotice(pg, m)

\* Without the list target each of them raises before it changes anything.
handleNoticeUpdate(pg, m) ==
    CASE ~pg.list -> pg
      [] pg.list /\ m.action = "create" -> prependNotice(pg, m)
      [] pg.list /\ m.action = "update" -> updateNoticeCount(updateNotice(pg, m))
      [] pg.list /\ m.action = "destroy" -> updateNoticeCount(removeNotice(pg, m))

\* A message arrives: received() of the controller while it is subscribed; that
\* of notice_channel.js does nothing.
Receive(p) ==
    /\ inbox[p] # <<>>
    /\ LET m == Head(inbox[p])
       IN  IF "notice_controller.js" \in Subscriptions(p)
           THEN /\ page' = [page EXCEPT ![p] = handleNoticeUpdate(@, m)]
                /\ removed' = [removed EXCEPT ![p] =
                       IF m.action = "destroy" THEN @ \cup ({m.id} \ {None}) ELSE @]
           ELSE UNCHANGED <<page, removed>>
    /\ inbox' = [inbox EXCEPT ![p] = Tail(@)]
    /\ UNCHANGED <<server, history, wire, raced, blind>>

\* The server renders the list that loadNotices asked for ...
RenderList(p) ==
    /\ page[p].fetch = "asked"
    /\ page' = [page EXCEPT ![p].fetch = "answered",
                            ![p].html = filtered_notices(role[p])]
    /\ UNCHANGED <<server, history, wire, inbox, told>>

\* ... and its cards replace the list, unless there are none.
loadNotices(p) ==
    /\ page[p].fetch = "answered"
    /\ LET found == IF HasCards THEN page[p].html ELSE {}
           pg == [page[p] EXCEPT !.fetch = "none", !.html = {}]
           replaced == found # {} /\ page[p].list
       IN  /\ page' = [page EXCEPT ![p] =
                  IF replaced THEN updateNoticeCount([pg EXCEPT !.cards = found]) ELSE pg]
           /\ raced' = [raced EXCEPT ![p] = @ \/ (replaced /\ found \cap removed[p] # {})]
           /\ blind' = [blind EXCEPT ![p] = @ \/ (replaced /\ Ending(found))]
    /\ UNCHANGED <<server, history, wire, inbox, removed>>

\* The fetch fails, and the error is logged.
FetchFails(p) ==
    /\ page[p].fetch = "asked"
    /\ page' = [page EXCEPT ![p].fetch = "none"]
    /\ UNCHANGED <<server, history, wire, inbox, told>>

\* The socket is lost, with what was on its way; nothing is sent again.
Drop(p) ==
    /\ socket[p] /\ drops[p] < MaxDrops
    /\ socket' = [socket EXCEPT ![p] = FALSE] /\ inbox' = [inbox EXCEPT ![p] = <<>>]
    /\ drops' = [drops EXCEPT ![p] = @ + 1] /\ blind' = [blind EXCEPT ![p] = page[p].open]
    /\ UNCHANGED <<server, history, role, page, removed, raced>>

Reconnect(p) ==
    /\ ~socket[p]
    /\ socket' = [socket EXCEPT ![p] = TRUE]
    /\ UNCHANGED <<server, history, role, drops, inbox, page, told>>

-----------------------------------------------------------------------------
Proceed(r) ==
    \/ Refuse(r) \/ Save(r) \/ Destroy(r) \/ Commit(r)
    \/ RaiseInTemplate(r) \/ AnnounceAgain(r)

Open(r, n, format) ==
    \/ \E f \in Forms : \/ OpenCreate(r, n, f, format)
                         \/ OpenNotice(r, "update", n, f, format)
    \/ OpenNotice(r, "destroy", n, None, format)

Client(p) ==
    \/ Visit(p) \/ Restore(p) \/ Leave(p) \/ Receive(p)
    \/ RenderList(p) \/ loadNotices(p) \/ FetchFails(p) \/ Drop(p) \/ Reconnect(p)

Next ==
    \/ \E r \in Requests :
           \/ \E n \in Notices, format \in {"html", "turbo_stream"} : Open(r, n, format)
           \/ Proceed(r) \/ Fail(r)
    \/ \E p \in Pages : Client(p)

Spec == Init /\ [][Next]_vars

\* Threads of the server go on with what they began, and a socket that stays up
\* delivers what it was given.
FairSpec ==
    /\ Spec
    /\ \A r \in Requests : WF_vars(Proceed(r))
    /\ \A p \in Pages : WF_vars(Receive(p))
-----------------------------------------------------------------------------
(* Properties.                                                             *)

\* Whatever a commit changes in the table has been broadcast before: a value of
\* a column with the attributes of some message, the end of a notice with its
\* id.  A process that dies right after the COMMIT leaves no silent change
\* (notice.rb:42-44).
ChangesAreAnnounced ==
    [][\A n \in Notices :
           table'[n] # table[n] =>
               IF table'[n] = None THEN None \in announced[n]
               ELSE \A c \in Columns :
                        \E f \in announced[n] \ {None} : f[c] = table'[n][c]]_vars

\* When nobody works on a notice, the last that was broadcast of it is what the
\* table holds, though every change is broadcast twice and the second time after
\* the commit; unless requests for it overlapped, failed or were refused
\* (notice.rb:42-44, notice_updates.rb:10-26).
LastWordIsCurrent ==
    \A n \in Notices \ tainted : AtWork(n) = {} => lastWord[n] = table[n]

\* A page is only told of notices that its user's role may list
\* (notice_channel.rb:2-11, 27, 43; notice.rb:20-34).
OnlyForItsAudience ==
    \A p \in Pages : \A i \in DOMAIN inbox[p] :
        inbox[p][i].action # "destroy" => for_role(role[p], inbox[p][i].audience)

\* The number above an open list is the number of its cards, whichever of the
\* handlers and the fetch has edited it (notice_controller.js:41-42, 123-128).
CountIsChildren ==
    \A p \in Pages : page[p].open => page[p].count = Cardinality(page[p].cards)

\* A notice the open list was told the end of is not in it again, also when its
\* creation is broadcast late, unless a list fetched before the end brings it
\* back (notice_controller.js:64-69, 130-150; notice_updates.rb:14-17).
NoGhosts ==
    \A p \in Pages :
        page[p].open /\ page[p].cards \cap removed[p] # {} => raced[p]

\* The card of a destroyed notice leaves an admin's open list, unless the socket
\* was lost, the list was rendered between the broadcast and the commit, or the
\* fetched list brought the card back (notice.rb:44, notice_controller.js:36-38).
DestroyedLeavesPages ==
    \A p \in Pages, n \in Notices :
        (role[p] = "admin" /\ page[p].open /\ n \in page[p].cards /\ table[n] = None)
            ~> (n \notin page[p].cards \/ ~page[p].open \/ blind[p] \/ raced[p])
=============================================================================
