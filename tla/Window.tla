-------------------------------- MODULE Window --------------------------------
(***************************************************************************)
(* One browser window: the Stimulus controllers of its page over the visits*)
(* Turbo makes.  A page is data (dom); the controllers add to it listeners *)
(* on the document and timers, which they have to take away when Turbo     *)
(* replaces the page.  Turbo keeps a copy of a page it leaves, with no     *)
(* controllers, and puts it back when the user goes through the history.   *)
(* Two places: a list (search field, menus) and a marking sheet; messages  *)
(* flash on either.  There is no clock: a timer goes off some time after it*)
(* was set.  Turbo is external.                                            *)
(***************************************************************************)
EXTENDS Integers

CONSTANTS
    Messages,   \* what flash may carry, each once
    Menus,      \* the drop-downs of the list
    Texts,      \* what the search field may hold
    Students,   \* rows of the marking sheet
    Threads,    \* bound: sheets the server saves at a time
    Markups,    \* which of "search" and "dropdown" the view wires up
    MaxPages,   \* bound: pages shown after the first
    None

ASSUME EmptyText == "" \in Texts
ASSUME PagesBound == MaxPages \in Nat

Places == {"list", "mark"}
Statuses == {"present", "absent"}
Sheets == [Students -> Statuses]

VARIABLES
    place,      \* the location shown
    dom,        \* the page there
    cache,      \* Turbo's copies: a page or None for each place
    page,       \* how many pages have been shown
    past,       \* the places in the history
    visit,      \* the visit under way, or None
    timers,     \* timers that run, tagged with the page that set them
    listeners,  \* on the document, tagged likewise
    wired,      \* the markup of this deployment
    register,   \* the attendance rows on the server
    patches,    \* the sheet each thread of the server is saving, or None
    saving,     \* the save the page waits for, or None
    used,       \* messages flash has carried
    left        \* history: messages that were on a page left by a visit

pageVars == <<dom, timers, listeners>>
turboVars == <<place, cache, page, past, visit>>
serverVars == <<register, patches, saving>>
vars == <<pageVars, turboVars, serverVars, wired, used, left>>

\* String#trim, as far as the texts go.
Trim(t) == IF t = "blank" THEN "" ELSE t

\* A page as the server renders it; `_mark_form_content` preselects "present".
Rendered(p, msgs) ==
    [ flash  |-> [m \in msgs |-> "shown"],
      box    |-> msgs # {},
      query  |-> "",
      open   |-> {},
      sheet  |-> IF p = "mark" THEN register ELSE None,
      saved  |-> FALSE ]  \* it says Saved, of a sheet sent alone and not edited since

timer(kind, arg) == [kind |-> kind, arg |-> arg, page |-> page]
listener(event, of) == [on |-> event, of |-> of, page |-> page]

-----------------------------------------------------------------------------
\* flash_controller.js

\* Mutant: no timer for a page whose messages are all out of sight already.
FlashTimersForShown(d, n) ==
    IF \E m \in DOMAIN d.flash : d.flash[m] = "shown"
    THEN {[kind |-> "auto", arg |-> None, page |-> n]} ELSE {}
\* connect, with page n: five seconds from now, and on leaving.
FlashTimers(d, n) == IF d.box THEN {[kind |-> "auto", arg |-> None, page |-> n]} ELSE {}
FlashListens(d, n) ==
    IF d.box THEN {[on |-> "turbo:before-visit", of |-> "flash", page |-> n]} ELSE {}

\* disconnect: the page is replaced, or the container is gone.
FlashTimersOff(ts) == ts \ {timer("auto", None)}
\* Mutant: the function removed is not the one that was added.
FlashListensOffUnbound(ls) == ls
FlashListensOff(ls) == ls \ {listener("turbo:before-visit", "flash")}

\* animateOut: out of sight at once, out of the page by a timer nobody clears.
FadeOut(d, msgs) ==
    [d EXCEPT !.flash = [m \in DOMAIN @ |-> IF m \in msgs THEN "faded" ELSE @[m]]]
Removals(msgs) == {timer("remove", m) : m \in msgs}

\* Mutant: messageTarget for messageTargets.
DismissFirst(d) ==
    IF DOMAIN d.flash = {} THEN {} ELSE {CHOOSE m \in DOMAIN d.flash : TRUE}
\* dismissAll: every message the page has.
DismissAll(d) == DOMAIN d.flash

\* A click no handler stops reaches the document: each drop-down closes unless
\* the click was in it (handleClickOutside, close).
ClickOn(d, menu) ==
    LET hears == {l.of : l \in {k \in listeners : k.on = "click"}} \ {menu}
    IN  IF "dropdown" \in wired THEN [d EXCEPT !.open = @ \ hears] ELSE d

\* dismiss: the cross of one message.
Dismiss(m) ==
    /\ m \in DOMAIN dom.flash
    /\ dom.flash[m] = "shown"
    /\ dom' = FadeOut(ClickOn(dom, None), {m})
    /\ timers' = timers \cup Removals({m})
    /\ UNCHANGED <<listeners, turboVars, serverVars, wired, used, left>>

\* The five seconds are over.
AutoDismiss ==
    /\ timer("auto", None) \in timers
    /\ dom' = FadeOut(dom, DismissAll(dom))
    /\ timers' = (timers \ {timer("auto", None)}) \cup Removals(DismissAll(dom))
    /\ UNCHANGED <<listeners, turboVars, serverVars, wired, used, left>>

\* Mutant: the message is counted before it is out.
EmptyTooEarly(d) == \E m \in DOMAIN d.flash : DOMAIN d.flash = {m}
\* messageTargets.length === 0, once the message is out.
Empty(d) == DOMAIN d.flash = {}

\* animateOut's callback: the message, then the container when it was the last.
Remove(m) ==
    LET flash == [x \in DOMAIN dom.flash \ {m} |-> dom.flash[x]]
        rest  == [dom EXCEPT !.flash = flash]
        gone  == dom.box /\ Empty(rest)
        others == timers \ {timer("remove", m)}
    IN  /\ timer("remove", m) \in timers
        /\ dom' = [rest EXCEPT !.box = @ /\ ~gone]
        /\ timers' = IF gone THEN FlashTimersOff(others) ELSE others
        /\ listeners' = IF gone THEN FlashListensOff(listeners) ELSE listeners
        /\ UNCHANGED <<turboVars, serverVars, wired, used, left>>

-----------------------------------------------------------------------------
\* search_controller.js: the field of the list.

SearchTimers == {t \in timers : t.kind = "search" /\ t.page = page}

\* disconnect
SearchTimersOff(ts) == ts \ SearchTimers

\* Mutant: the previous timeout goes on.
SetSearchTimerToo(q) == timers \cup {timer("search", q)}
\* handleInput: the previous timeout is cleared, the query is kept in the next.
SetSearchTimer(q) == (timers \ SearchTimers) \cup {timer("search", q)}

Type(text) ==
    /\ place = "list"
    /\ dom.query # text
    /\ dom' = [dom EXCEPT !.query = text]
    /\ timers' = IF "search" \in wired THEN SetSearchTimer(Trim(text)) ELSE timers
    /\ UNCHANGED <<listeners, turboVars, serverVars, wired, used, left>>

\* performSearch with what the timeout holds, or clearResults when that is nothing:
\* so far the first only logs and no view has results to clear.
Search ==
    /\ \E t \in timers :
        /\ t.kind = "search"
        /\ timers' = timers \ {t}
    /\ UNCHANGED <<dom, listeners, turboVars, serverVars, wired, used, left>>

-----------------------------------------------------------------------------
\* dropdown_controller.js: the menus of the list.

\* connect
MenuListens(p, n) ==
    IF p = "list" THEN {[on |-> "click", of |-> m, page |-> n] : m \in Menus} ELSE {}

\* disconnect
MenuListensOff(ls) == ls \ {listener("click", m) : m \in Menus}

\* toggle stops the click: no other menu hears of it.  Without the menu target it
\* throws after that.
Toggle(m) ==
    /\ place = "list"
    /\ "dropdown" \in wired
    /\ dom' = [dom EXCEPT !.open = IF m \in @ THEN @ \ {m} ELSE @ \cup {m}]
    /\ UNCHANGED <<timers, listeners, turboVars, serverVars, wired, used, left>>

\* A click in an open menu, or anywhere else.
Click(menu) ==
    /\ menu \in dom.open \cup {None}
    /\ dom.open # {}
    /\ dom' = ClickOn(dom, menu)
    /\ UNCHANGED <<timers, listeners, turboVars, serverVars, wired, used, left>>

-----------------------------------------------------------------------------
\* Visits.  Whatever visit starts aborts the request of a form (external).

\* The server is not told, and goes on saving what it was sent.
AbortSave == saving' = None /\ UNCHANGED patches

\* turbo:before-visit, to whoever listens: dismissAll.
FlashHears == \E l \in listeners : l.on = "turbo:before-visit"
BeforeVisit(d) == IF FlashHears THEN FadeOut(d, DismissAll(d)) ELSE d
BeforeVisitTimers(d) == IF FlashHears THEN Removals(DismissAll(d)) ELSE {}

\* A link, or the redirect a form ends with: the latter brings messages, and Turbo
\* forgets its copies and does not copy the page.
StartVisit(p, msgs, form) ==
    /\ page < MaxPages
    /\ visit' = [to |-> p, msgs |-> msgs, copies |-> ~form]
    /\ dom' = BeforeVisit(ClickOn(dom, None))
    /\ timers' = timers \cup BeforeVisitTimers(dom)
    /\ cache' = IF form THEN [q \in Places |-> None] ELSE cache
    /\ left' = left \cup DOMAIN dom.flash
    /\ UNCHANGED <<place, page, past, listeners, wired, register>>

FollowLink(p) ==
    /\ StartVisit(p, {}, FALSE)
    /\ AbortSave
    /\ UNCHANGED used

\* Some form of the application; its answer flashes one message or more.
SubmitForm(p, msgs) ==
    /\ msgs \in SUBSET (Messages \ used) \ {{}}
    /\ StartVisit(p, msgs, TRUE)
    /\ AbortSave
    /\ used' = used \cup msgs

\* Turbo puts page d in place of the present one: every controller disconnects, and
\* those of d connect.  The nodes of the old page keep no timer that matters.
Show(d, p) ==
    LET n    == page + 1
        kept == {t \in FlashTimersOff(SearchTimersOff(timers)) : t.kind # "remove"}
    IN  /\ dom' = d
        /\ place' = p
        /\ page' = n
        /\ past' = past \cup {p}
        /\ timers' = kept \cup FlashTimers(d, n)
        /\ listeners' = FlashListensOff(MenuListensOff(listeners))
                            \cup FlashListens(d, n) \cup MenuListens(p, n)

\* The answer to a visit is rendered.
Render ==
    /\ visit # None
    /\ Show(Rendered(visit.to, visit.msgs), visit.to)
    /\ cache' = IF visit.copies THEN [cache EXCEPT ![place] = dom] ELSE cache
    /\ visit' = None
    /\ UNCHANGED <<serverVars, wired, used, left>>

\* The history: no before-visit; Turbo's copy if it has one, the server's page if not.
GoBack(p) ==
    /\ page < MaxPages
    /\ p \in past \ {place}
    /\ Show(IF cache[p] # None THEN cache[p] ELSE Rendered(p, {}), p)
    /\ cache' = [cache EXCEPT ![place] = dom]
    /\ visit' = None
    /\ AbortSave
    /\ UNCHANGED <<register, wired, used, left>>

-----------------------------------------------------------------------------
\* attendance_mark_controller.js: the marking sheet, and the save that answers it.

\* setAllStatus
SetAllStatus(sheet, status) == [s \in DOMAIN sheet |-> status]

MarkAll(status) ==
    /\ place = "mark"
    /\ dom' = [ClickOn(dom, None) EXCEPT !.sheet = SetAllStatus(@, status),
                                         !.saved = FALSE]
    /\ UNCHANGED <<timers, listeners, turboVars, serverVars, wired, used, left>>

\* One row by hand.
Mark(student, status) ==
    /\ place = "mark"
    /\ dom.sheet[student] # status
    /\ dom' = [dom EXCEPT !.sheet[student] = status, !.saved = FALSE]
    /\ UNCHANGED <<timers, listeners, turboVars, serverVars, wired, used, left>>

\* Save attendance: a PATCH by Turbo, which stops the visit under way.  The button is
\* disabled until the answer, or until a visit aborts this; a page visited again has a
\* button of its own, whatever the server is still saving.
Save(t) ==
    /\ place = "mark"
    /\ saving = None
    /\ patches[t] = None
    /\ patches' = [patches EXCEPT ![t] = dom.sheet]
    /\ saving' = [by |-> t, rival |-> \E u \in Threads : patches[u] # None]
    /\ visit' = None
    /\ UNCHANGED <<pageVars, place, cache, page, past, register, wired, used, left>>

\* AttendancesController#update: everyone on the page.  In one step: Attendance has the
\* statements, and here only sheets saved side by side could tell them apart.
Store(t) ==
    /\ patches[t] # None
    /\ register' = patches[t]
    /\ patches' = [patches EXCEPT ![t] = None]
    /\ UNCHANGED <<pageVars, turboVars, saving, wired, used, left>>

\* The page shown waits for this thread.
Awaited(t) == saving # None /\ saving.by = t

\* The service refuses the sheet: a redirect to the marking page, with an alert.
Refuse(t) ==
    /\ patches[t] # None
    /\ patches' = [patches EXCEPT ![t] = None]
    /\ IF Awaited(t)
       THEN /\ saving' = None
            /\ \E m \in Messages \ used :
                   /\ StartVisit("mark", {m}, TRUE)
                   /\ used' = used \cup {m}
       ELSE UNCHANGED <<pageVars, turboVars, register, saving, wired, used, left>>

\* Mutant: update.turbo_stream updates the summary and leaves the rows.
SummaryOnly(d) == [d EXCEPT !.saved = ~saving.rival]
\* update.turbo_stream: the summary, and the rows as they are read again.
SavedPage(d) == [d EXCEPT !.sheet = register, !.saved = ~saving.rival]

Answer ==
    /\ saving # None
    /\ patches[saving.by] = None
    /\ dom' = SavedPage(dom)
    /\ saving' = None
    /\ UNCHANGED <<timers, listeners, turboVars, register, patches, wired, used, left>>

-----------------------------------------------------------------------------
Init ==
    /\ place \in Places
    /\ register = [s \in Students |-> "present"]
    /\ wired \in Markups
    /\ page = 0
    /\ past = {place}
    /\ used \in SUBSET Messages
    /\ dom = Rendered(place, used)
    /\ cache = [p \in Places |-> None]
    /\ visit = None
    /\ timers = FlashTimers(dom, 0)
    /\ listeners = FlashListens(dom, 0) \cup MenuListens(place, 0)
    /\ patches = [t \in Threads |-> None]
    /\ saving = None
    /\ left = {}

Next ==
    \/ \E m \in Messages : Dismiss(m) \/ Remove(m)
    \/ AutoDismiss
    \/ \E t \in Texts : Type(t)
    \/ Search
    \/ \E m \in Menus : Toggle(m)
    \/ \E m \in Menus \cup {None} : Click(m)
    \/ \E p \in Places : FollowLink(p) \/ GoBack(p)
    \/ \E p \in Places, msgs \in SUBSET Messages : SubmitForm(p, msgs)
    \/ Render
    \/ \E s \in Statuses : MarkAll(s) \/ \E student \in Students : Mark(student, s)
    \/ \E t \in Threads : Save(t) \/ Store(t) \/ Refuse(t)
    \/ Answer

Spec == Init /\ [][Next]_vars

\* Timers go off: setTimeout promises no more.  No server need answer.
Fairness ==
    /\ WF_vars(AutoDismiss)
    /\ \A m \in Messages : WF_vars(Remove(m))
FairSpec == Spec /\ Fairness

-----------------------------------------------------------------------------
\* A page as the types have it, at place p.
IsPage(d, p) ==
    /\ d.flash \in UNION {[M -> {"shown", "faded"}] : M \in SUBSET Messages}
    /\ d.box = (DOMAIN d.flash # {})
    /\ d.query \in Texts /\ d.open \subseteq Menus
    /\ IF p = "mark" THEN d.sheet \in Sheets ELSE d.sheet = None

\* The types; the container of the messages is there exactly as long as they are.
TypeOK ==
    /\ IsPage(dom, place)
    /\ \A p \in Places : cache[p] = None \/ IsPage(cache[p], p)
    /\ register \in Sheets /\ patches \in [Threads -> Sheets \cup {None}]
    /\ page \in 0 .. MaxPages /\ \A t \in timers : t.page <= page

\* A message that was on a page the user left by a link or a form is never in sight
\* again, not even when the history brings that page back ("Dismiss all messages when
\* navigating away", flash_controller.js:61).
LeftStaysGone == \A m \in left \cap DOMAIN dom.flash : dom.flash[m] = "faded"

\* What listens on the document are the controllers of the page shown, each once.
NoListenerLeaks ==
    listeners = FlashListens(dom, page) \cup MenuListens(place, page)

\* A page that says its sheet is saved, and was not edited since, shows the register,
\* whatever visits, copies, refusals and sheets left behind come between; unless that
\* sheet was sent while the server still had one that the user had left, which may be
\* stored after it (update.turbo_stream.erb:8-16, mark.html.erb:45).
SavedMeansSaved ==
    place = "mark" /\ dom.saved => dom.sheet = register

\* A search asks for what stands in the field now, never for an earlier text or for
\* the text of a page that is gone.
SearchesLatest ==
    [][Search => /\ place = "list"
                 /\ \A t \in timers \ timers' : t.arg = Trim(dom.query)]_vars

\* Messages go away by themselves, and their container with them.
FlashGoesAway == []<>(~dom.box)
===============================================================================
