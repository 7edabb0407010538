----------------------------- MODULE WindowProofs -----------------------------
(* Proofs about Window: typing, listeners, messages that were left, the      *)
(* marking sheet and the search.                                             *)
EXTENDS Window, TLAPS

-----------------------------------------------------------------------------
(* Typing.                                                                 *)

Flashes == UNION {[M -> {"shown", "faded"}] : M \in SUBSET Messages}

Page == [flash : Flashes, box : BOOLEAN, query : Texts, open : SUBSET Menus,
         sheet : Sheets \cup {None}, saved : BOOLEAN]

\* A page at p: the container is there as long as a message is, and the sheet is
\* that of a marking page.
Sound(d, p) ==
    /\ d.box = (DOMAIN d.flash # {})
    /\ IF p = "mark" THEN d.sheet \in Sheets ELSE d.sheet = None

Visits == [to : Places, msgs : SUBSET Messages, copies : BOOLEAN]
Savings == [by : Threads, rival : BOOLEAN]

TypedPages ==
    /\ dom \in Page /\ Sound(dom, place)
    /\ \A p \in Places : cache[p] # None => cache[p] \in Page /\ Sound(cache[p], p)
    /\ cache = [p \in Places |-> cache[p]]

TypedRest ==
    /\ place \in Places
    /\ visit # None => visit \in Visits /\ page < MaxPages
    /\ saving # None => saving \in Savings
    /\ patches \in [Threads -> Sheets \cup {None}]
    /\ register \in Sheets
    /\ used \subseteq Messages
    /\ page \in 0 .. MaxPages

TypedTimers == \A t \in timers : t.page \in Nat /\ t.page <= page

\* A save the page waits for was sent from it, and nobody is leaving.
Heard == saving # None => place = "mark" /\ visit = None

Typed == TypedPages /\ TypedRest /\ TypedTimers /\ Heard

LEMMA FlashesAre ==
  ASSUME NEW f
  PROVE  f \in Flashes <=> /\ f = [m \in DOMAIN f |-> f[m]]
                           /\ DOMAIN f \subseteq Messages
                           /\ \A m \in DOMAIN f : f[m] \in {"shown", "faded"}
<1>1. ASSUME f \in Flashes
      PROVE  /\ f = [m \in DOMAIN f |-> f[m]] /\ DOMAIN f \subseteq Messages
             /\ \A m \in DOMAIN f : f[m] \in {"shown", "faded"}
  <2>1. PICK M \in SUBSET Messages : f \in [M -> {"shown", "faded"}]
    BY <1>1 DEF Flashes
  <2> QED
    BY <2>1
<1>2. ASSUME f = [m \in DOMAIN f |-> f[m]], DOMAIN f \subseteq Messages,
             \A m \in DOMAIN f : f[m] \in {"shown", "faded"}
      PROVE  f \in Flashes
  <2>1. f \in [DOMAIN f -> {"shown", "faded"}]
    BY <1>2
  <2> QED
    BY <1>2, <2>1 DEF Flashes
<1> QED
  BY <1>1, <1>2

\* What fading changes: the messages, which stay.
LEMMA FadeOutFields ==
  ASSUME NEW d \in Page, NEW msgs
  PROVE  LET e == FadeOut(d, msgs)
         IN  /\ e \in Page
             /\ e.flash = [m \in DOMAIN d.flash |->
                              IF m \in msgs THEN "faded" ELSE d.flash[m]]
             /\ e.box = d.box /\ e.query = d.query /\ e.open = d.open
             /\ e.sheet = d.sheet /\ e.saved = d.saved
<1> DEFINE f == [m \in DOMAIN d.flash |-> IF m \in msgs THEN "faded" ELSE d.flash[m]]
<1>1. d.flash \in Flashes
  BY DEF Page
<1>2. f \in Flashes
  BY <1>1, FlashesAre
<1>3. FadeOut(d, msgs) = [d EXCEPT !.flash = f]
  BY DEF FadeOut
<1> HIDE DEF f
<1>4. /\ [d EXCEPT !.flash = f] \in Page /\ [d EXCEPT !.flash = f].flash = f
      /\ [d EXCEPT !.flash = f].box = d.box /\ [d EXCEPT !.flash = f].query = d.query
      /\ [d EXCEPT !.flash = f].open = d.open /\ [d EXCEPT !.flash = f].sheet = d.sheet
      /\ [d EXCEPT !.flash = f].saved = d.saved
  BY <1>2 DEF Page
<1> QED
  BY <1>3, <1>4 DEF f

\* A click closes menus and does nothing else.
LEMMA ClickOnFields ==
  ASSUME NEW d \in Page, NEW menu
  PROVE  LET e == ClickOn(d, menu)
         IN  /\ e \in Page /\ e.flash = d.flash /\ e.box = d.box /\ e.query = d.query
             /\ e.sheet = d.sheet /\ e.saved = d.saved
<1> DEFINE rest == d.open \ ({l.of : l \in {k \in listeners : k.on = "click"}} \ {menu})
<1>1. rest \in SUBSET Menus
  BY DEF Page
<1>2. ClickOn(d, menu) = [d EXCEPT !.open = rest] \/ ClickOn(d, menu) = d
  BY DEF ClickOn
<1> HIDE DEF rest
<1> QED
  BY <1>1, <1>2 DEF Page

LEMMA RenderedFields ==
  ASSUME TypedRest, NEW p \in Places, NEW msgs \in SUBSET Messages
  PROVE  LET d == Rendered(p, msgs)
         IN  /\ d \in Page /\ Sound(d, p) /\ DOMAIN d.flash = msgs
             /\ d.saved = FALSE /\ d.query = ""
<1> DEFINE f == [m \in msgs |-> "shown"]
           b == msgs # {}
           sheet == IF p = "mark" THEN register ELSE None
           d == Rendered(p, msgs)
<1>1. f \in Flashes /\ DOMAIN f = msgs
  BY FlashesAre
<1>2. sheet \in Sheets \cup {None} /\ b \in BOOLEAN
  BY DEF TypedRest
<1>3. d = [flash |-> f, box |-> b, query |-> "", open |-> {}, sheet |-> sheet,
           saved |-> FALSE]
  BY DEF Rendered
<1>4. b = (msgs # {})
  OBVIOUS
<1>5. IF p = "mark" THEN sheet \in Sheets ELSE sheet = None
  BY DEF TypedRest
<1> HIDE DEF f, b, sheet, d
<1>6. d \in Page
  BY <1>1, <1>2, <1>3, EmptyText DEF Page
<1>7. d.flash = f /\ d.box = b /\ d.saved = FALSE /\ d.query = "" /\ d.sheet = sheet
  BY <1>3
<1> QED
  BY <1>1, <1>4, <1>5, <1>6, <1>7 DEF Sound, d

-----------------------------------------------------------------------------
(* Steps within a page, and between pages.                                 *)

\* A step that stays on the page: messages only fade or go, and what the page says of
\* its sheet stays, unless it is edited.
StaysOn(d) ==
    /\ dom' \in Page
    /\ Sound(dom', place)
    /\ DOMAIN dom'.flash \subseteq DOMAIN d.flash
    /\ \A m \in DOMAIN dom'.flash : d.flash[m] = "faded" => dom'.flash[m] = "faded"
    /\ dom'.saved => d.saved /\ dom'.sheet = d.sheet

OnPage ==
    \/ \E m \in Messages : Dismiss(m) \/ Remove(m)
    \/ AutoDismiss
    \/ \E t \in Texts : Type(t)
    \/ Search
    \/ \E m \in Menus : Toggle(m)
    \/ \E m \in Menus \cup {None} : Click(m)
    \/ \E s \in Statuses : MarkAll(s) \/ \E student \in Students : Mark(student, s)

LEMMA DismissStays ==
  ASSUME TypedPages, NEW m, Dismiss(m)
  PROVE  StaysOn(dom) /\ dom'.query = dom.query /\ dom'.box = dom.box
<1>1. dom \in Page /\ Sound(dom, place) /\ dom' = FadeOut(ClickOn(dom, None), {m})
  BY DEF TypedPages, Dismiss
<1>2. /\ ClickOn(dom, None) \in Page /\ ClickOn(dom, None).flash = dom.flash
      /\ ClickOn(dom, None).query = dom.query
      /\ ClickOn(dom, None).box = dom.box /\ ClickOn(dom, None).sheet = dom.sheet
      /\ ClickOn(dom, None).saved = dom.saved
  BY <1>1, ClickOnFields
<1>3. /\ dom' \in Page
      /\ dom'.flash = [x \in DOMAIN dom.flash |->
                          IF x \in {m} THEN "faded" ELSE dom.flash[x]]
      /\ dom'.query = dom.query
      /\ dom'.box = dom.box /\ dom'.sheet = dom.sheet /\ dom'.saved = dom.saved
  BY <1>1, <1>2, FadeOutFields
<1> QED
  BY <1>1, <1>3 DEF StaysOn, Sound

LEMMA AutoDismissStays ==
  ASSUME TypedPages, AutoDismiss
  PROVE  StaysOn(dom) /\ dom'.query = dom.query /\ dom'.box = dom.box
<1>1. dom \in Page /\ Sound(dom, place) /\ dom' = FadeOut(dom, DismissAll(dom))
  BY DEF TypedPages, AutoDismiss
<1>2. /\ dom' \in Page
      /\ dom'.flash = [x \in DOMAIN dom.flash |->
                          IF x \in DismissAll(dom) THEN "faded" ELSE dom.flash[x]]
      /\ dom'.query = dom.query
      /\ dom'.box = dom.box /\ dom'.sheet = dom.sheet /\ dom'.saved = dom.saved
  BY <1>1, FadeOutFields
<1> QED
  BY <1>1, <1>2 DEF StaysOn, Sound

\* A message goes, and the container when it was the last.
LEMMA RemoveStays ==
  ASSUME TypedPages, NEW m, Remove(m)
  PROVE  /\ StaysOn(dom) /\ dom'.query = dom.query
         /\ dom'.box => dom.box
         /\ listeners' = IF dom.box /\ ~dom'.box THEN FlashListensOff(listeners)
                                              ELSE listeners
<1> DEFINE flash == [x \in DOMAIN dom.flash \ {m} |-> dom.flash[x]]
           rest  == [dom EXCEPT !.flash = flash]
           gone  == dom.box /\ Empty(rest)
<1>1. dom \in Page /\ Sound(dom, place) /\ dom' = [rest EXCEPT !.box = @ /\ ~gone]
  BY DEF TypedPages, Remove
<1>2. flash \in Flashes
  <2>1. dom.flash \in Flashes
    BY <1>1 DEF Page
  <2> QED
    BY <2>1, FlashesAre
<1>3. /\ DOMAIN flash = DOMAIN dom.flash \ {m}
      /\ \A x \in DOMAIN flash : flash[x] = dom.flash[x]
  OBVIOUS
<1> HIDE DEF flash
<1>4. /\ rest \in Page /\ rest.flash = flash /\ rest.box = dom.box
      /\ rest.query = dom.query /\ rest.sheet = dom.sheet /\ rest.saved = dom.saved
  BY <1>1, <1>2 DEF Page
<1> HIDE DEF rest
<1>5. gone \in BOOLEAN /\ dom.box \in BOOLEAN
  BY <1>1 DEF Page, Empty
<1>6. /\ dom' \in Page /\ dom'.flash = flash /\ dom'.box = (dom.box /\ ~gone)
      /\ dom'.query = dom.query /\ dom'.sheet = dom.sheet /\ dom'.saved = dom.saved
  <2> HIDE DEF gone
  <2> QED
    BY <1>1, <1>4, <1>5 DEF Page
<1>7. dom'.box = (DOMAIN flash # {})
  <2>1. gone <=> dom.box /\ DOMAIN flash = {}
    BY <1>4 DEF Empty
  <2>2. dom.box <=> DOMAIN dom.flash # {}
    BY <1>1 DEF Sound
  <2>3. (dom.box /\ ~gone) <=> DOMAIN flash # {}
    BY <1>3, <2>1, <2>2
  <2> QED
    BY <1>5, <1>6, <2>3
<1>8. StaysOn(dom)
  BY <1>1, <1>3, <1>6, <1>7 DEF StaysOn, Sound
<1>9. listeners' = IF gone THEN FlashListensOff(listeners) ELSE listeners
  BY DEF Remove, rest, flash
<1>10. (dom'.box => dom.box) /\ (dom.box /\ ~dom'.box <=> gone)
  BY <1>6
<1> HIDE DEF gone
<1> QED
  BY <1>6, <1>8, <1>9, <1>10

LEMMA MarkStays ==
  ASSUME TypedPages, NEW s \in Statuses,
         MarkAll(s) \/ \E student \in Students : Mark(student, s)
  PROVE  StaysOn(dom) /\ dom'.query = dom.query /\ dom'.box = dom.box
<1>0. place = "mark" /\ dom \in Page /\ dom.sheet \in Sheets /\ dom.box = (DOMAIN dom.flash # {})
  BY DEF TypedPages, Sound, MarkAll, Mark
<1>1. CASE MarkAll(s)
  <2> DEFINE d == ClickOn(dom, None)
             sheet == SetAllStatus(d.sheet, s)
  <2>1. /\ d \in Page /\ d.flash = dom.flash /\ d.box = dom.box /\ d.query = dom.query
        /\ d.sheet = dom.sheet
    BY <1>0, ClickOnFields
  <2>2. sheet \in Sheets /\ dom' = [d EXCEPT !.sheet = sheet, !.saved = FALSE]
    BY <1>0, <1>1, <2>1 DEF MarkAll, SetAllStatus, Sheets
  <2> HIDE DEF d, sheet
  <2>3. /\ dom' \in Page /\ dom'.flash = d.flash /\ dom'.box = d.box
        /\ dom'.query = d.query /\ dom'.sheet = sheet /\ ~dom'.saved
    BY <2>1, <2>2 DEF Page
  <2> QED
    BY <1>0, <2>1, <2>2, <2>3 DEF StaysOn, Sound
<1>2. ASSUME NEW student \in Students, Mark(student, s)
      PROVE  StaysOn(dom) /\ dom'.query = dom.query /\ dom'.box = dom.box
  <2> DEFINE sheet == [dom.sheet EXCEPT ![student] = s]
  <2>1. sheet \in Sheets /\ dom' = [dom EXCEPT !.sheet = sheet, !.saved = FALSE]
    BY <1>0, <1>2 DEF Mark, Sheets
  <2> HIDE DEF sheet
  <2>2. /\ dom' \in Page /\ dom'.flash = dom.flash /\ dom'.box = dom.box
        /\ dom'.query = dom.query /\ dom'.sheet = sheet /\ ~dom'.saved
    BY <1>0, <2>1 DEF Page
  <2> QED
    BY <1>0, <2>1, <2>2 DEF StaysOn, Sound
<1> QED
  BY <1>1, <1>2

LEMMA OnPageStays ==
  ASSUME TypedPages, OnPage
  PROVE  /\ StaysOn(dom)
         /\ dom'.query = dom.query \/ \E t \in Texts : Type(t)
         /\ dom'.box = dom.box \/ \E m : Remove(m)
<1>0. dom \in Page /\ Sound(dom, place)
  BY DEF TypedPages
<1>1. ASSUME NEW t \in Texts, Type(t) PROVE StaysOn(dom) /\ dom'.box = dom.box
  BY <1>0, <1>1 DEF Type, StaysOn, Sound, Page
<1>2. ASSUME Search
      PROVE  StaysOn(dom) /\ dom'.query = dom.query /\ dom'.box = dom.box
  BY <1>0, <1>2 DEF Search, StaysOn
<1>3. ASSUME NEW m \in Menus, Toggle(m)
      PROVE  StaysOn(dom) /\ dom'.query = dom.query /\ dom'.box = dom.box
  <2> DEFINE open == IF m \in dom.open THEN dom.open \ {m} ELSE dom.open \cup {m}
  <2>1. open \in SUBSET Menus /\ dom' = [dom EXCEPT !.open = open]
    BY <1>0, <1>3 DEF Toggle, Page
  <2> HIDE DEF open
  <2> QED
    BY <1>0, <2>1 DEF StaysOn, Sound, Page
<1>4. ASSUME NEW m \in Menus \cup {None}, Click(m)
      PROVE  StaysOn(dom) /\ dom'.query = dom.query /\ dom'.box = dom.box
  BY <1>0, <1>4, ClickOnFields DEF Click, StaysOn, Sound
<1> QED
  BY <1>1, <1>2, <1>3, <1>4, DismissStays, AutoDismissStays, RemoveStays, MarkStays
     DEF OnPage

\* A visit starts: messages fade if anybody hears of it, nothing else changes on the page.
LEMMA StartVisitLeaves ==
  ASSUME TypedPages, NEW p \in Places, NEW msgs \in SUBSET Messages, NEW form \in BOOLEAN,
         StartVisit(p, msgs, form)
  PROVE  /\ dom' \in Page /\ Sound(dom', place) /\ DOMAIN dom'.flash = DOMAIN dom.flash
         /\ \A m \in DOMAIN dom.flash :
                FlashHears \/ dom.flash[m] = "faded" => dom'.flash[m] = "faded"
         /\ dom'.sheet = dom.sheet /\ dom'.saved = dom.saved
         /\ dom'.query = dom.query /\ dom'.box = dom.box
<1> DEFINE d == ClickOn(dom, None)
<1>1. /\ d \in Page /\ d.flash = dom.flash /\ d.box = dom.box /\ d.query = dom.query
      /\ d.sheet = dom.sheet /\ d.saved = dom.saved
  BY ClickOnFields DEF TypedPages
<1>2. dom' = IF FlashHears THEN FadeOut(d, DismissAll(d)) ELSE d
  BY DEF StartVisit, BeforeVisit
<1>3. Sound(dom, place)
  BY DEF TypedPages
<1> HIDE DEF d
<1>4. CASE FlashHears
  <2>1. /\ dom' \in Page
        /\ dom'.flash = [x \in DOMAIN d.flash |->
                            IF x \in DismissAll(d) THEN "faded" ELSE d.flash[x]]
        /\ dom'.box = d.box /\ dom'.query = d.query /\ dom'.sheet = d.sheet
        /\ dom'.saved = d.saved
    BY <1>1, <1>2, <1>4, FadeOutFields
  <2> QED
    BY <1>1, <1>3, <2>1 DEF DismissAll, Sound
<1>5. CASE ~FlashHears
  BY <1>1, <1>2, <1>3, <1>5 DEF Sound
<1> QED
  BY <1>4, <1>5

\* The steps that start a visit, as one.
Leaves(p, msgs, form) ==
    /\ StartVisit(p, msgs, form)
    /\ msgs # {} => form /\ msgs \cap used = {}
    /\ used' = used \cup msgs
    /\ saving' = None
    /\ \A t \in Threads : patches'[t] \in {None, patches[t]}
    /\ patches' \in [Threads -> Sheets \cup {None}]

\* What a form or a link starts.
LEMMA VisitsLeave ==
  ASSUME TypedRest
  PROVE  /\ \A p \in Places : FollowLink(p) => Leaves(p, {}, FALSE)
         /\ \A p \in Places, msgs \in SUBSET Messages :
                SubmitForm(p, msgs) => Leaves(p, msgs, TRUE)
         /\ \A t \in Threads :
                Refuse(t) /\ Awaited(t) => \E m \in Messages : Leaves("mark", {m}, TRUE)
<1>1. ASSUME NEW p \in Places, FollowLink(p) PROVE Leaves(p, {}, FALSE)
  BY <1>1 DEF FollowLink, Leaves, AbortSave, TypedRest
<1>2. ASSUME NEW p \in Places, NEW msgs \in SUBSET Messages, SubmitForm(p, msgs)
      PROVE  Leaves(p, msgs, TRUE)
  BY <1>2 DEF SubmitForm, Leaves, AbortSave, TypedRest
<1>3. ASSUME NEW t \in Threads, Refuse(t), Awaited(t)
      PROVE  \E m \in Messages : Leaves("mark", {m}, TRUE)
  BY <1>3 DEF Refuse, Leaves, TypedRest
<1> QED
  BY <1>1, <1>2, <1>3

\* The present page is replaced by d, at p; what the copies become, and from what.
Turns(d, p) ==
    /\ Show(d, p) /\ p \in Places /\ page < MaxPages
    /\ visit' = None
    /\ \/ /\ visit # None /\ visit.to = p /\ d = Rendered(p, visit.msgs)
          /\ cache' = IF visit.copies THEN [cache EXCEPT ![place] = dom] ELSE cache
          /\ UNCHANGED <<saving, patches>>
       \/ /\ p # place
          /\ d = IF cache[p] # None THEN cache[p] ELSE Rendered(p, {})
          /\ cache' = [cache EXCEPT ![place] = dom]
          /\ AbortSave
    /\ UNCHANGED <<register, wired, used, left>>

\* The server is done with a sheet, and the page shown does not hear of it by that.
Served == \E t \in Threads : Store(t) \/ (Refuse(t) /\ ~Awaited(t))

LEMMA ServedFields ==
  ASSUME TypedRest, Served
  PROVE  /\ UNCHANGED <<pageVars, turboVars, saving, wired, used, left>>
         /\ patches' \in [Threads -> Sheets \cup {None}]
         /\ \A t \in Threads : patches'[t] \in {None, patches[t]}
         /\ register' = register \/ \E t \in Threads : patches[t] # None /\ register' = patches[t]
<1> PICK t \in Threads : Store(t) \/ (Refuse(t) /\ ~Awaited(t))
  BY DEF Served
<1> QED
  BY DEF Store, Refuse, TypedRest

\* A sheet is sent from the page shown.
LEMMA SaveFields ==
  ASSUME TypedPages, TypedRest, NEW t \in Threads, Save(t)
  PROVE  /\ place = "mark" /\ dom.sheet \in Sheets /\ patches[t] = None
         /\ UNCHANGED <<pageVars, place, cache, page, past, register, wired, used, left>>
         /\ visit' = None /\ saving' \in Savings
         /\ patches' = [patches EXCEPT ![t] = dom.sheet]
         /\ patches' \in [Threads -> Sheets \cup {None}]
         /\ saving'.by = t
         /\ ~saving'.rival => \A u \in Threads : patches[u] = None
  BY DEF Save, TypedPages, TypedRest, Sound, Savings

\* Whatever the user or the server does is one of these.
LEMMA Steps ==
  ASSUME TypedRest, Next
  PROVE  \/ OnPage
         \/ \E p \in Places, msgs \in SUBSET Messages, form \in BOOLEAN :
                Leaves(p, msgs, form)
         \/ \E d, p : Turns(d, p)
         \/ Served \/ Answer
         \/ \E t \in Threads : Save(t)
<1>1. CASE \E p \in Places : FollowLink(p)
  BY <1>1, VisitsLeave
<1>2. CASE \E p \in Places, msgs \in SUBSET Messages : SubmitForm(p, msgs)
  BY <1>2, VisitsLeave
<1>3. ASSUME NEW t \in Threads, Refuse(t), Awaited(t)
      PROVE  \E m \in Messages : Leaves("mark", {m}, TRUE)
  <2>1. "mark" \in Places /\ \A m \in Messages : {m} \in SUBSET Messages
    BY DEF Places
  <2> QED
    BY <1>3, <2>1, VisitsLeave
<1>4. CASE Render
  <2>1. visit \in Visits /\ page < MaxPages
    BY <1>4 DEF Render, TypedRest
  <2>2. Turns(Rendered(visit.to, visit.msgs), visit.to)
    BY <1>4, <2>1 DEF Render, Turns, Visits, serverVars
  <2> QED
    BY <2>2
<1>5. ASSUME NEW p \in Places, GoBack(p) PROVE \E d, q : Turns(d, q)
  <2>1. Turns(IF cache[p] # None THEN cache[p] ELSE Rendered(p, {}), p)
    BY <1>5 DEF GoBack, Turns
  <2> QED
    BY <2>1
<1>6. ASSUME NEW m \in Messages, Leaves("mark", {m}, TRUE)
      PROVE  \E p \in Places, msgs \in SUBSET Messages, form \in BOOLEAN :
                 Leaves(p, msgs, form)
  BY <1>6 DEF Places
<1> QED
  BY <1>1, <1>2, <1>3, <1>4, <1>5, <1>6 DEF Next, OnPage, Served

\* The page that is shown next is a page of its place.
LEMMA TurnedPage ==
  ASSUME TypedPages, TypedRest, NEW d, NEW p, Turns(d, p)
  PROVE  /\ d \in Page /\ Sound(d, p) /\ dom' = d /\ place' = p /\ page' = page + 1
         /\ p \in Places
         /\ visit # None => visit.msgs \in SUBSET Messages
<1>1. p \in Places /\ dom' = d /\ place' = p /\ page' = page + 1
  BY DEF Turns, Show
<1>2. {} \in SUBSET Messages /\ (visit # None => visit.msgs \in SUBSET Messages)
  BY DEF TypedRest, Visits
<1>3. d \in Page /\ Sound(d, p)
  <2>1. CASE visit # None /\ d = Rendered(p, visit.msgs)
    BY <1>1, <1>2, <2>1, RenderedFields
  <2>2. CASE d = IF cache[p] # None THEN cache[p] ELSE Rendered(p, {})
    <3>1. CASE cache[p] # None
      BY <1>1, <2>2, <3>1 DEF TypedPages
    <3>2. CASE cache[p] = None
      BY <1>1, <1>2, <2>2, <3>2, RenderedFields
    <3> QED
      BY <3>1, <3>2
  <2> QED
    BY <2>1, <2>2 DEF Turns
<1> QED
  BY <1>1, <1>2, <1>3

\* A page the user leaves by a link or a form: what is on it, and the visit.
LEMMA LeavesFields ==
  ASSUME TypedPages, TypedRest, NEW p \in Places, NEW msgs \in SUBSET Messages,
         NEW form \in BOOLEAN, Leaves(p, msgs, form)
  PROVE  /\ visit' \in Visits /\ page < MaxPages
         /\ visit'.to = p /\ visit'.msgs = msgs /\ visit'.copies = ~form
         /\ page' = page /\ place' = place /\ register' = register
         /\ used' = used \cup msgs /\ left' = left \cup DOMAIN dom.flash
         /\ cache' = IF form THEN [q \in Places |-> None] ELSE cache
  BY DEF Leaves, StartVisit, Visits, TypedRest

LEMMA OnPageFrame ==
  ASSUME OnPage
  PROVE  UNCHANGED <<turboVars, serverVars, wired, used, left>>
  BY DEF OnPage, Dismiss, Remove, AutoDismiss, Type, Search, Toggle, Click, MarkAll, Mark

LEMMA InitTyped == Init => Typed
<1> SUFFICES ASSUME Init PROVE Typed
  OBVIOUS
<1>1. TypedRest
  BY PagesBound DEF Init, TypedRest, Sheets, Statuses
<1>2. TypedPages
  <2>1. used \in SUBSET Messages /\ place \in Places
    BY DEF Init
  <2>2. dom \in Page /\ Sound(dom, place)
    BY <1>1, <2>1, RenderedFields DEF Init
  <2> QED
    BY <2>2 DEF Init, TypedPages
<1>3. TypedTimers
  BY DEF Init, TypedTimers, FlashTimers
<1>4. Heard
  BY DEF Init, Heard
<1> QED
  BY <1>1, <1>2, <1>3, <1>4 DEF Typed

LEMMA TypedPagesStep ==
  ASSUME TypedPages, TypedRest, Heard, [Next]_vars
  PROVE  TypedPages'
<1>1. CASE OnPage
  BY <1>1, OnPageStays, OnPageFrame DEF StaysOn, TypedPages, turboVars
<1>2. ASSUME NEW p \in Places, NEW msgs \in SUBSET Messages, NEW form \in BOOLEAN,
             Leaves(p, msgs, form)
      PROVE  TypedPages'
  <2>1. dom' \in Page /\ Sound(dom', place')
    <3>1. StartVisit(p, msgs, form) /\ place' = place
      BY <1>2, LeavesFields DEF Leaves
    <3>2. dom' \in Page /\ Sound(dom', place)
      BY <3>1, StartVisitLeaves
    <3> QED
      BY <3>1, <3>2
  <2>2. cache' = cache \/ cache' = [q \in Places |-> None]
    BY <1>2, LeavesFields
  <2> QED
    BY <2>1, <2>2 DEF TypedPages
<1>3. ASSUME NEW d, NEW p, Turns(d, p) PROVE TypedPages'
  <2>1. dom' \in Page /\ Sound(dom', place')
    BY <1>3, TurnedPage
  <2>2. cache' = cache \/ cache' = [cache EXCEPT ![place] = dom]
    BY <1>3 DEF Turns
  <2> QED
    BY <2>1, <2>2 DEF TypedPages
<1>4. CASE Answer
  <2>1. dom \in Page /\ Sound(dom, place) /\ register \in Sheets
    BY DEF TypedPages, TypedRest
  <2>2. place = "mark"
    BY <1>4 DEF Answer, Heard
  <2> QED
    BY <1>4, <2>1, <2>2 DEF Answer, SavedPage, TypedPages, Sound, Page, turboVars
<1>5. CASE Served \/ (\E t \in Threads : Save(t)) \/ UNCHANGED vars
  <2>1. UNCHANGED <<dom, place, cache>>
    BY <1>5, ServedFields, SaveFields DEF vars, pageVars, turboVars
  <2> QED
    BY <2>1 DEF TypedPages
<1> QED
  BY <1>1, <1>2, <1>3, <1>4, <1>5, Steps

LEMMA TypedRestStep ==
  ASSUME TypedPages, TypedRest, Heard, [Next]_vars
  PROVE  TypedRest'
<1>1. CASE OnPage
  BY <1>1, OnPageFrame DEF TypedRest, turboVars, serverVars
<1>2. ASSUME NEW p \in Places, NEW msgs \in SUBSET Messages, NEW form \in BOOLEAN,
             Leaves(p, msgs, form)
      PROVE  TypedRest'
  <2>1. saving' = None /\ patches' \in [Threads -> Sheets \cup {None}]
    BY <1>2 DEF Leaves
  <2>2. /\ visit' \in Visits /\ page < MaxPages /\ place' = place /\ page' = page
        /\ register' = register /\ used' = used \cup msgs
    BY <1>2, LeavesFields
  <2> QED
    BY <2>1, <2>2 DEF TypedRest
<1>3. ASSUME NEW d, NEW p, Turns(d, p) PROVE TypedRest'
  <2>1. p \in Places /\ place' = p /\ page' = page + 1
    BY <1>3, TurnedPage
  <2>2. (saving' = None \/ saving' = saving) /\ patches' = patches
    BY <1>3 DEF Turns, AbortSave
  <2>3. page < MaxPages /\ visit' = None /\ UNCHANGED <<register, used>>
    BY <1>3 DEF Turns
  <2> QED
    BY <2>1, <2>2, <2>3, PagesBound DEF TypedRest
<1>4. CASE Answer
  BY <1>4 DEF Answer, TypedRest, turboVars
<1>5. ASSUME NEW t \in Threads, Save(t) PROVE TypedRest'
  BY <1>5, SaveFields DEF TypedRest
<1>6. CASE Served
  <2>1. register' \in Sheets
    BY <1>6, ServedFields DEF TypedRest
  <2> QED
    BY <1>6, <2>1, ServedFields DEF TypedRest, turboVars
<1>7. CASE UNCHANGED vars
  BY <1>7 DEF vars, turboVars, serverVars, TypedRest
<1> QED
  BY <1>1, <1>2, <1>3, <1>4, <1>5, <1>6, <1>7, Steps

LEMMA HeardStep ==
  ASSUME TypedPages, TypedRest, Heard, [Next]_vars
  PROVE  Heard'
<1>1. CASE OnPage
  BY <1>1, OnPageFrame DEF Heard, turboVars, serverVars
<1>2. ASSUME NEW p \in Places, NEW msgs \in SUBSET Messages, NEW form \in BOOLEAN,
             Leaves(p, msgs, form)
      PROVE  Heard'
  BY <1>2 DEF Leaves, Heard
<1>3. ASSUME NEW d, NEW p, Turns(d, p) PROVE Heard'
  BY <1>3 DEF Turns, AbortSave, Heard
<1>4. CASE Answer
  BY <1>4 DEF Answer, Heard
<1>5. ASSUME NEW t \in Threads, Save(t) PROVE Heard'
  BY <1>5, SaveFields DEF Heard
<1>6. CASE Served
  BY <1>6, ServedFields DEF Heard, turboVars
<1>7. CASE UNCHANGED vars
  BY <1>7 DEF vars, turboVars, serverVars, Heard
<1> QED
  BY <1>1, <1>2, <1>3, <1>4, <1>5, <1>6, <1>7, Steps

\* Timers are set by the page shown.
LEMMA TimersStay ==
  ASSUME OnPage
  PROVE  \A t \in timers' \ timers : t.page = page
<1> DEFINE New == \A t \in timers' \ timers : t.page = page
<1>1. \A kind, arg : timer(kind, arg).page = page
  BY DEF timer
<1>2. ASSUME NEW m, Dismiss(m) PROVE New
  BY <1>1, <1>2 DEF Dismiss, Removals
<1>3. ASSUME NEW m, Remove(m) PROVE New
  BY <1>3 DEF Remove, FlashTimersOff
<1>4. ASSUME AutoDismiss PROVE New
  BY <1>1, <1>4 DEF AutoDismiss, Removals
<1>5. ASSUME NEW t, Type(t) PROVE New
  BY <1>1, <1>5 DEF Type, SetSearchTimer
<1>6. ASSUME Search \/ (\E m : Toggle(m) \/ Click(m) \/ MarkAll(m) \/ \E s : Mark(s, m))
      PROVE  New
  BY <1>6 DEF Search, Toggle, Click, MarkAll, Mark
<1> QED
  BY <1>2, <1>3, <1>4, <1>5, <1>6 DEF OnPage

LEMMA TypedTimersStep ==
  ASSUME TypedTimers, TypedPages, TypedRest, [Next]_vars
  PROVE  TypedTimers'
<1>0. page \in Nat
  BY PagesBound DEF TypedRest
<1>1. CASE OnPage
  <2>1. page' = page
    BY <1>1, OnPageFrame DEF turboVars
  <2> QED
    BY <1>0, <1>1, <2>1, TimersStay DEF TypedTimers
<1>2. ASSUME NEW p \in Places, NEW msgs \in SUBSET Messages, NEW form \in BOOLEAN,
             Leaves(p, msgs, form)
      PROVE  TypedTimers'
  BY <1>0, <1>2 DEF Leaves, StartVisit, BeforeVisitTimers, Removals, timer, TypedTimers
<1>3. ASSUME NEW d, NEW p, Turns(d, p) PROVE TypedTimers'
  BY <1>0, <1>3 DEF Turns, Show, FlashTimers, FlashTimersOff, SearchTimersOff, TypedTimers
<1>4. CASE Answer
  BY <1>4 DEF Answer, TypedTimers, turboVars
<1>5. ASSUME NEW t \in Threads, Save(t) PROVE TypedTimers'
  BY <1>5, SaveFields DEF TypedTimers, pageVars
<1>6. CASE Served
  BY <1>6, ServedFields DEF TypedTimers, turboVars, pageVars
<1>7. CASE UNCHANGED vars
  BY <1>7 DEF vars, turboVars, pageVars, TypedTimers
<1> QED
  BY <1>1, <1>2, <1>3, <1>4, <1>5, <1>6, <1>7, Steps

LEMMA TypedStep == Typed /\ [Next]_vars => Typed'
  BY TypedPagesStep, TypedRestStep, HeardStep, TypedTimersStep DEF Typed

LEMMA TypedAlways == Spec => []Typed
  BY InitTyped, TypedStep, PTL DEF Spec

LEMMA TypedIsTypeOK == Typed => TypeOK
<1>1. ASSUME NEW d \in Page, NEW p, Sound(d, p) PROVE IsPage(d, p)
  BY <1>1 DEF Page, Sound, IsPage, Flashes
<1> QED
  BY <1>1 DEF Typed, TypedPages, TypedRest, TypedTimers, TypeOK

\* Whatever is shown or kept in Turbo's cache is a page of its place: the container of
\* the messages is there as long as one is (flash_controller's removal of it), a marking
\* page has a sheet and no other has; a timer belongs to a page that has been shown.
THEOREM Typing == Spec => []TypeOK
  BY TypedAlways, TypedIsTypeOK, PTL

-----------------------------------------------------------------------------
(* The document's listeners.                                               *)

\* Only a container that goes takes its listener along; a page that is replaced takes
\* all of its own.
LEMMA ListensStep ==
  ASSUME Typed, NoListenerLeaks, [Next]_vars
  PROVE  NoListenerLeaks'
<1>0. TypedPages /\ TypedRest /\ Heard
  BY DEF Typed
<1>1. ASSUME NEW m, Remove(m) PROVE NoListenerLeaks'
  <2>1. /\ dom'.box => dom.box
        /\ listeners' = IF dom.box /\ ~dom'.box THEN FlashListensOff(listeners)
                                                ELSE listeners
    BY <1>0, <1>1, RemoveStays
  <2>2. UNCHANGED <<page, place>>
    BY <1>1 DEF Remove, turboVars
  <2>3. listener("turbo:before-visit", "flash") \notin MenuListens(place, page)
    BY DEF listener, MenuListens
  <2>4. CASE dom.box /\ ~dom'.box
    BY <2>1, <2>2, <2>3, <2>4 DEF NoListenerLeaks, FlashListensOff, FlashListens, listener
  <2>5. CASE dom.box <=> dom'.box
    BY <2>1, <2>2, <2>5 DEF NoListenerLeaks, FlashListens
  <2> QED
    BY <2>1, <2>4, <2>5
<1>2. ASSUME dom'.box = dom.box, UNCHANGED <<listeners, page, place>>
      PROVE  NoListenerLeaks'
  BY <1>2 DEF NoListenerLeaks, FlashListens
<1>3. CASE OnPage /\ dom'.box = dom.box /\ ~ \E m : Remove(m)
  <2>1. UNCHANGED listeners
    BY <1>3 DEF OnPage, Dismiss, AutoDismiss, Type, Search, Toggle, Click, MarkAll, Mark
  <2>2. UNCHANGED <<page, place>>
    BY <1>3, OnPageFrame DEF turboVars
  <2> QED
    BY <1>2, <1>3, <2>1, <2>2
<1>4. ASSUME NEW p \in Places, NEW msgs \in SUBSET Messages, NEW form \in BOOLEAN,
             Leaves(p, msgs, form)
      PROVE  NoListenerLeaks'
  <2>1. StartVisit(p, msgs, form) /\ UNCHANGED <<listeners, page, place>>
    BY <1>4 DEF Leaves, StartVisit
  <2>2. dom'.box = dom.box
    BY <1>0, <2>1, StartVisitLeaves
  <2> QED
    BY <1>2, <2>1, <2>2
<1>5. ASSUME NEW d, NEW p, Turns(d, p) PROVE NoListenerLeaks'
  <2>1. FlashListensOff(MenuListensOff(listeners)) = {}
    BY DEF NoListenerLeaks, FlashListens, MenuListens, FlashListensOff, MenuListensOff,
           listener
  <2>2. /\ dom' = d /\ place' = p /\ page' = page + 1
        /\ listeners' = {} \cup FlashListens(d, page + 1) \cup MenuListens(p, page + 1)
    BY <1>5, <2>1 DEF Turns, Show
  <2> QED
    BY <2>2 DEF NoListenerLeaks
<1>6. CASE Answer
  <2>1. dom' = SavedPage(dom) /\ dom \in Page
    BY <1>0, <1>6 DEF Answer, TypedPages
  <2> QED
    BY <1>2, <1>6, <2>1 DEF Answer, SavedPage, Page, turboVars
<1>7. CASE Served \/ (\E t \in Threads : Save(t)) \/ UNCHANGED vars
  BY <1>0, <1>2, <1>7, ServedFields, SaveFields DEF vars, pageVars, turboVars
<1> QED
  BY <1>0, <1>1, <1>3, <1>4, <1>5, <1>6, <1>7, OnPageStays, Steps

\* What listens on the document are the controllers of the page shown, each once: a
\* controller takes away in disconnect exactly the functions it added in connect
\* (flash_controller, dropdown_controller), however many pages Turbo has shown.
THEOREM ListenersOfThePageShown == Spec => []NoListenerLeaks
<1>1. Init => NoListenerLeaks
  BY DEF Init, NoListenerLeaks
<1> QED
  BY <1>1, ListensStep, TypedAlways, PTL DEF Spec

-----------------------------------------------------------------------------
(* Messages.                                                               *)

\* The places whose page Turbo keeps a copy of, besides the one shown.
Elsewhere == {p \in Places \ {place} : cache[p] # None}

\* A message is on a page only after an answer carried it, and a visit on its way brings
\* none that was on the page the user leaves.
Fresh ==
    /\ left \subseteq used
    /\ DOMAIN dom.flash \subseteq used
    /\ \A p \in Elsewhere : DOMAIN cache[p].flash \subseteq used
    /\ visit # None =>
          /\ visit.msgs \subseteq used
          /\ visit.msgs \cap (left \cup DOMAIN dom.flash) = {}
          /\ IF visit.copies THEN visit.msgs = {} ELSE \A p \in Places : cache[p] = None

\* Of the messages left behind, d shows none.
Faded(d) == \A m \in left \cap DOMAIN d.flash : d.flash[m] = "faded"

\* Neither the page shown nor a copy shows one, and no message is on two pages.
Gone ==
    /\ Faded(dom)
    /\ \A p \in Elsewhere :
          Faded(cache[p]) /\ DOMAIN cache[p].flash \cap DOMAIN dom.flash = {}

\* Where a copy that exists after a page was replaced comes from.
LEMMA CopiesAfter ==
  ASSUME TypedPages, TypedRest, Fresh, NEW d, NEW p, Turns(d, p), NEW q \in Elsewhere'
  PROVE  /\ q \in Places /\ q # p
         /\ \/ q = place /\ cache'[q] = dom /\ p # place
            \/ q \in Elsewhere /\ cache'[q] = cache[q]
<1>1. q \in Places /\ q # p /\ cache'[q] # None
  BY TurnedPage DEF Elsewhere
<1>2. \/ cache' = cache /\ \A r \in Places : cache[r] = None
      \/ cache' = [cache EXCEPT ![place] = dom]
  BY DEF Turns, Fresh
<1>3. cache = [r \in Places |-> cache[r]]
  BY DEF TypedPages
<1>4. CASE q = place
  BY <1>1, <1>2, <1>3, <1>4 DEF Elsewhere
<1>5. CASE q # place
  BY <1>1, <1>2, <1>3, <1>5 DEF Elsewhere
<1> QED
  BY <1>4, <1>5

LEMMA FreshStep ==
  ASSUME Typed, Fresh, [Next]_vars
  PROVE  Fresh'
<1>0. TypedPages /\ TypedRest /\ Heard
  BY DEF Typed
<1>1. ASSUME DOMAIN dom'.flash \subseteq DOMAIN dom.flash,
             visit' = None \/ visit' = visit, UNCHANGED <<place, cache, used, left>>
      PROVE  Fresh'
  BY <1>1 DEF Fresh, Elsewhere
<1>2. CASE OnPage
  BY <1>0, <1>1, <1>2, OnPageStays, OnPageFrame DEF StaysOn, turboVars
<1>3. ASSUME NEW p \in Places, NEW msgs \in SUBSET Messages, NEW form \in BOOLEAN,
             Leaves(p, msgs, form)
      PROVE  Fresh'
  <2>1. /\ visit'.msgs = msgs /\ visit'.copies = ~form /\ place' = place
        /\ used' = used \cup msgs /\ left' = left \cup DOMAIN dom.flash
        /\ cache' = IF form THEN [q \in Places |-> None] ELSE cache
    BY <1>0, <1>3, LeavesFields
  <2>2. StartVisit(p, msgs, form) /\ (msgs # {} => form /\ msgs \cap used = {})
    BY <1>3 DEF Leaves
  <2>3. DOMAIN dom'.flash = DOMAIN dom.flash
    BY <1>0, <2>2, StartVisitLeaves
  <2>4. \A q \in Elsewhere' : q \in Elsewhere /\ cache'[q] = cache[q]
    BY <2>1 DEF Elsewhere
  <2> QED
    BY <2>1, <2>2, <2>3, <2>4 DEF Fresh
<1>4. ASSUME NEW d, NEW p, Turns(d, p) PROVE Fresh'
  <2>1. dom' = d /\ p \in Places /\ (visit # None => visit.msgs \in SUBSET Messages)
    BY <1>0, <1>4, TurnedPage
  <2>2. visit' = None /\ UNCHANGED <<used, left>>
    BY <1>4 DEF Turns
  <2>3. DOMAIN d.flash \subseteq used
    <3>1. CASE visit # None /\ d = Rendered(p, visit.msgs)
      BY <1>0, <2>1, <3>1, RenderedFields DEF Fresh
    <3>2. CASE p # place /\ cache[p] # None /\ d = cache[p]
      BY <2>1, <3>2 DEF Fresh, Elsewhere
    <3>3. CASE d = Rendered(p, {})
      BY <1>0, <2>1, <3>3, RenderedFields
    <3> QED
      BY <1>4, <3>1, <3>2, <3>3 DEF Turns
  <2>4. \A q \in Elsewhere' : DOMAIN cache'[q].flash \subseteq used
    BY <1>0, <1>4, CopiesAfter DEF Fresh
  <2> QED
    BY <2>1, <2>2, <2>3, <2>4 DEF Fresh
<1>5. CASE Answer
  <2>1. dom \in Page /\ dom' = SavedPage(dom)
    BY <1>0, <1>5 DEF Answer, TypedPages
  <2>2. dom'.flash = dom.flash
    BY <2>1 DEF SavedPage, Page
  <2> QED
    BY <1>1, <1>5, <2>2 DEF Answer, turboVars
<1>6. CASE Served \/ (\E t \in Threads : Save(t)) \/ UNCHANGED vars
  BY <1>0, <1>1, <1>6, ServedFields, SaveFields DEF vars, pageVars, turboVars
<1> QED
  BY <1>0, <1>2, <1>3, <1>4, <1>5, <1>6, Steps

LEMMA GoneStep ==
  ASSUME Typed, Fresh, NoListenerLeaks, Gone, [Next]_vars
  PROVE  Gone'
<1>0. TypedPages /\ TypedRest /\ Heard /\ dom \in Page /\ Sound(dom, place)
  BY DEF Typed, TypedPages
<1>1. ASSUME DOMAIN dom'.flash \subseteq DOMAIN dom.flash, UNCHANGED <<place, cache, left>>,
             \A m \in DOMAIN dom'.flash : dom.flash[m] = "faded" => dom'.flash[m] = "faded"
      PROVE  Gone'
  BY <1>1 DEF Gone, Faded, Elsewhere
<1>2. CASE OnPage
  BY <1>0, <1>1, <1>2, OnPageStays, OnPageFrame DEF StaysOn, turboVars
<1>3. ASSUME NEW p \in Places, NEW msgs \in SUBSET Messages, NEW form \in BOOLEAN,
             Leaves(p, msgs, form)
      PROVE  Gone'
  <2>1. /\ place' = place /\ left' = left \cup DOMAIN dom.flash
        /\ cache' = IF form THEN [q \in Places |-> None] ELSE cache
    BY <1>0, <1>3, LeavesFields
  <2>2. StartVisit(p, msgs, form)
    BY <1>3 DEF Leaves
  <2>3. /\ DOMAIN dom'.flash = DOMAIN dom.flash
        /\ \A m \in DOMAIN dom.flash : FlashHears => dom'.flash[m] = "faded"
    BY <1>0, <2>2, StartVisitLeaves
  <2>4. DOMAIN dom.flash # {} => FlashHears
    <3>1. ASSUME DOMAIN dom.flash # {}
          PROVE  [on |-> "turbo:before-visit", of |-> "flash", page |-> page] \in listeners
      BY <1>0, <3>1 DEF Sound, NoListenerLeaks, FlashListens
    <3> QED
      BY <3>1 DEF FlashHears
  <2>5. \A q \in Elsewhere' : q \in Elsewhere /\ cache'[q] = cache[q]
    BY <2>1 DEF Elsewhere
  <2>6. Faded(dom)'
    BY <2>3, <2>4 DEF Faded
  <2>7. \A q \in Elsewhere' :
            Faded(cache[q])' /\ DOMAIN cache'[q].flash \cap DOMAIN dom'.flash = {}
    BY <2>1, <2>3, <2>5 DEF Gone, Faded
  <2> QED
    BY <2>6, <2>7 DEF Gone
<1>4. ASSUME NEW d, NEW p, Turns(d, p) PROVE Gone'
  <2>1. dom' = d /\ p \in Places /\ (visit # None => visit.msgs \in SUBSET Messages)
    BY <1>0, <1>4, TurnedPage
  <2>2. left' = left
    BY <1>4 DEF Turns
  <2>3. CASE visit # None /\ d = Rendered(p, visit.msgs)
    <3>1. DOMAIN d.flash = visit.msgs
      BY <1>0, <2>1, <2>3, RenderedFields
    <3>2. Faded(d) /\ DOMAIN d.flash \cap DOMAIN dom.flash = {}
      BY <2>3, <3>1 DEF Faded, Fresh
    <3>3. ASSUME NEW q \in Elsewhere'
          PROVE  Faded(cache'[q]) /\ DOMAIN cache'[q].flash \cap DOMAIN d.flash = {}
      <4>1. CASE q = place /\ cache'[q] = dom
        BY <3>2, <4>1 DEF Gone
      <4>2. CASE q \in Elsewhere /\ cache'[q] = cache[q]
        BY <2>3, <3>1, <4>2 DEF Gone, Fresh, Elsewhere
      <4> QED
        BY <1>0, <1>4, <4>1, <4>2, CopiesAfter
    <3> QED
      BY <2>1, <2>2, <3>2, <3>3 DEF Gone, Faded
  <2>4. CASE p # place /\ d = IF cache[p] # None THEN cache[p] ELSE Rendered(p, {})
    <3>1. Faded(d) /\ DOMAIN d.flash \cap DOMAIN dom.flash = {}
      <4>1. CASE cache[p] # None
        BY <2>1, <2>4, <4>1 DEF Gone, Elsewhere
      <4>2. CASE cache[p] = None
        <5>1. DOMAIN d.flash = {}
          BY <1>0, <2>1, <2>4, <4>2, RenderedFields
        <5> QED
          BY <5>1 DEF Faded
      <4> QED
        BY <4>1, <4>2
    <3>2. ASSUME NEW q \in Elsewhere'
          PROVE  q = place /\ cache'[q] = dom
      <4>1. q \in Places /\ q # p /\ ((q = place /\ cache'[q] = dom) \/ q \in Elsewhere)
        BY <1>0, <1>4, CopiesAfter
      <4>2. q = place
        BY <1>0, <2>1, <2>4, <4>1 DEF Places, TypedRest
      <4> QED
        BY <4>1, <4>2 DEF Elsewhere
    <3> QED
      BY <2>1, <2>2, <3>1, <3>2 DEF Gone, Faded
  <2> QED
    BY <1>4, <2>3, <2>4 DEF Turns
<1>5. CASE Answer
  <2>1. dom' = SavedPage(dom)
    BY <1>5 DEF Answer
  <2>2. dom'.flash = dom.flash
    BY <1>0, <2>1 DEF SavedPage, Page
  <2> QED
    BY <1>1, <1>5, <2>2 DEF Answer, turboVars
<1>6. CASE Served \/ (\E t \in Threads : Save(t)) \/ UNCHANGED vars
  BY <1>0, <1>1, <1>6, ServedFields, SaveFields DEF vars, pageVars, turboVars
<1> QED
  BY <1>0, <1>2, <1>3, <1>4, <1>5, <1>6, Steps

\* A message that was on a page the user left by a link or a form is never in sight
\* again: dismissAll on turbo:before-visit reaches every message of the page, because
\* the controller listens as long as one is there, and what Turbo copies is the page
\* after that ("Dismiss all messages when navigating away", flash_controller).
THEOREM LeftMessagesStayGone == Spec => []LeftStaysGone
<1>1. Init => Fresh /\ Gone
  <2> SUFFICES ASSUME Init PROVE Fresh /\ Gone
    OBVIOUS
  <2>1. TypedRest /\ place \in Places /\ used \in SUBSET Messages
    BY InitTyped DEF Typed, TypedRest
  <2>2. DOMAIN dom.flash = used
    BY <2>1, RenderedFields DEF Init
  <2> QED
    BY <2>2 DEF Init, Fresh, Gone, Faded, Elsewhere
<1>2. Gone => LeftStaysGone
  BY DEF Gone, Faded, LeftStaysGone
<1> QED
  BY <1>1, <1>2, FreshStep, GoneStep, TypedAlways, ListenersOfThePageShown, PTL DEF Spec

-----------------------------------------------------------------------------
(* The marking sheet.                                                      *)

\* A page that says its sheet is saved shows the register, and so does every sheet the
\* server is still saving: the user sent what was saved.
Truthful(d) ==
    d.saved => /\ d.sheet = register
               /\ \A t \in Threads : patches[t] \in {None, register}

Truth ==
    /\ place = "mark" => Truthful(dom)
    /\ "mark" \in Elsewhere => Truthful(cache["mark"])

\* A sheet that was sent alone is still alone: the page that waits for it sends no other.
Alone ==
    saving # None /\ ~saving.rival =>
        \A t \in Threads : t # saving.by => patches[t] = None

LEMMA AloneStep ==
  ASSUME Typed, Alone, [Next]_vars
  PROVE  Alone'
<1>0. TypedPages /\ TypedRest
  BY DEF Typed
<1>1. CASE OnPage
  BY <1>1, OnPageFrame DEF Alone, serverVars
<1>2. ASSUME NEW p \in Places, NEW msgs \in SUBSET Messages, NEW form \in BOOLEAN,
             Leaves(p, msgs, form)
      PROVE  Alone'
  BY <1>2 DEF Leaves, Alone
<1>3. ASSUME NEW d, NEW p, Turns(d, p) PROVE Alone'
  BY <1>3 DEF Turns, AbortSave, Alone
<1>4. CASE Answer
  BY <1>4 DEF Answer, Alone
<1>5. ASSUME NEW t \in Threads, Save(t) PROVE Alone'
  BY <1>0, <1>5, SaveFields DEF Alone, TypedRest
<1>6. CASE Served
  BY <1>0, <1>6, ServedFields DEF Alone
<1>7. CASE UNCHANGED vars
  BY <1>7 DEF vars, serverVars, Alone
<1> QED
  BY <1>0, <1>1, <1>2, <1>3, <1>4, <1>5, <1>6, <1>7, Steps

LEMMA TruthStep ==
  ASSUME Typed, Fresh, Alone, Truth, [Next]_vars
  PROVE  Truth'
<1>0. TypedPages /\ TypedRest /\ Heard /\ dom \in Page
  BY DEF Typed, TypedPages
<1>1. CASE OnPage
  <2>1. UNCHANGED <<turboVars, serverVars>>
    BY <1>1, OnPageFrame
  <2>2. dom'.saved => dom.saved /\ dom'.sheet = dom.sheet
    BY <1>0, <1>1, OnPageStays DEF StaysOn
  <2> QED
    BY <2>1, <2>2 DEF Truth, Truthful, Elsewhere, turboVars, serverVars
<1>2. ASSUME NEW p \in Places, NEW msgs \in SUBSET Messages, NEW form \in BOOLEAN,
             Leaves(p, msgs, form)
      PROVE  Truth'
  <2>1. /\ place' = place /\ register' = register
        /\ cache' = IF form THEN [q \in Places |-> None] ELSE cache
    BY <1>0, <1>2, LeavesFields
  <2>2. /\ StartVisit(p, msgs, form)
        /\ \A t \in Threads : patches'[t] \in {None, patches[t]}
    BY <1>2 DEF Leaves
  <2>3. dom'.sheet = dom.sheet /\ dom'.saved = dom.saved
    BY <1>0, <2>2, StartVisitLeaves
  <2>4. \A q \in Elsewhere' : q \in Elsewhere /\ cache'[q] = cache[q]
    BY <2>1 DEF Elsewhere
  <2> QED
    BY <2>1, <2>2, <2>3, <2>4 DEF Truth, Truthful
<1>3. ASSUME NEW d, NEW p, Turns(d, p) PROVE Truth'
  <2>1. dom' = d /\ p \in Places /\ place' = p /\ (visit # None => visit.msgs \in SUBSET Messages)
    BY <1>0, <1>3, TurnedPage
  <2>2. register' = register /\ patches' = patches
    BY <1>3 DEF Turns, AbortSave
  <2>3. p = "mark" => Truthful(d)
    <3>1. CASE visit # None /\ d = Rendered(p, visit.msgs)
      BY <1>0, <2>1, <3>1, RenderedFields DEF Truthful
    <3>2. CASE p # place /\ cache[p] # None /\ d = cache[p]
      BY <2>1, <3>2 DEF Truth, Elsewhere
    <3>3. CASE d = Rendered(p, {})
      BY <1>0, <2>1, <3>3, RenderedFields DEF Truthful
    <3> QED
      BY <1>3, <3>1, <3>2, <3>3 DEF Turns
  <2>4. "mark" \in Elsewhere' => Truthful(cache'["mark"])
    BY <1>0, <1>3, CopiesAfter DEF Truth
  <2>5. place' = "mark" => Truthful(dom)'
    BY <2>1, <2>2, <2>3 DEF Truthful
  <2>6. "mark" \in Elsewhere' => Truthful(cache["mark"])'
    BY <2>2, <2>4 DEF Truthful
  <2> QED
    BY <2>5, <2>6 DEF Truth
<1>4. CASE Answer
  <2>1. /\ place = "mark" /\ dom' = SavedPage(dom) /\ saving # None
        /\ saving \in Savings /\ patches[saving.by] = None
        /\ UNCHANGED <<register, place, patches>>
    BY <1>0, <1>4 DEF Answer, Heard, turboVars, TypedRest
  <2>2. dom'.sheet = register /\ (dom'.saved <=> ~saving.rival)
    BY <1>0, <2>1 DEF SavedPage, Page, Savings
  <2>3. ~saving.rival => \A t \in Threads : patches[t] = None
    BY <2>1 DEF Alone
  <2> QED
    BY <2>1, <2>2, <2>3 DEF Truth, Truthful, Elsewhere
<1>5. ASSUME NEW t \in Threads, Save(t) PROVE Truth'
  <2>1. /\ place = "mark" /\ patches' = [patches EXCEPT ![t] = dom.sheet]
        /\ UNCHANGED <<dom, register, place, cache>>
    BY <1>0, <1>5, SaveFields DEF pageVars
  <2>2. dom.saved => \A u \in Threads : patches'[u] \in {None, register}
    BY <1>0, <2>1 DEF Truth, Truthful, TypedRest
  <2> QED
    BY <2>1, <2>2 DEF Truth, Truthful, Elsewhere
<1>6. CASE Served
  <2>1. /\ UNCHANGED <<dom, place, cache>>
        /\ \A t \in Threads : patches'[t] \in {None, patches[t]}
        /\ register' = register \/ \E t \in Threads : patches[t] # None /\ register' = patches[t]
    BY <1>0, <1>6, ServedFields DEF pageVars, turboVars
  <2>2. ASSUME NEW d, Truthful(d) PROVE Truthful(d)'
    <3>1. d.saved => register' = register
      BY <2>1, <2>2 DEF Truthful
    <3> QED
      BY <2>1, <2>2, <3>1 DEF Truthful
  <2> QED
    BY <2>1, <2>2 DEF Truth, Truthful, Elsewhere
<1>7. CASE UNCHANGED vars
  BY <1>7 DEF vars, pageVars, turboVars, serverVars, Truth, Truthful, Elsewhere
<1> QED
  BY <1>0, <1>1, <1>2, <1>3, <1>4, <1>5, <1>6, <1>7, Steps

\* A page that says its sheet is saved, of a sheet sent alone and not edited since, shows
\* the register: also when the history brings it back from Turbo's copy, and when a second
\* save of it was aborted by a visit and stored after all (update.turbo_stream renders the
\* rows as AttendancesController#update stored them).
THEOREM SavedPagesTellTheTruth == Spec => []SavedMeansSaved
<1>1. Init => Fresh /\ Alone /\ Truth
  <2> SUFFICES ASSUME Init PROVE Fresh /\ Alone /\ Truth
    OBVIOUS
  <2>1. TypedRest /\ place \in Places /\ used \in SUBSET Messages
    BY InitTyped DEF Typed, TypedRest
  <2>2. DOMAIN dom.flash = used /\ dom.saved = FALSE
    BY <2>1, RenderedFields DEF Init
  <2> QED
    BY <2>2 DEF Init, Fresh, Alone, Truth, Truthful, Elsewhere
<1>2. Truth => SavedMeansSaved
  BY DEF Truth, Truthful, SavedMeansSaved
<1> QED
  BY <1>1, <1>2, FreshStep, AloneStep, TruthStep, TypedAlways, PTL DEF Spec

-----------------------------------------------------------------------------
(* The search.                                                             *)

\* A search that is set belongs to the list shown, and asks for what its field holds.
Asks ==
    \A t \in timers : t.kind = "search" =>
        /\ t.page = page /\ place = "list" /\ "search" \in wired
        /\ t.arg = Trim(dom.query)

LEMMA AsksStep ==
  ASSUME Typed, Asks, [Next]_vars
  PROVE  Asks'
<1>0. TypedPages /\ TypedRest /\ Heard /\ dom \in Page
  BY DEF Typed, TypedPages
<1>1. ASSUME \A t \in timers' : t.kind = "search" => t \in timers, dom'.query = dom.query,
             UNCHANGED <<page, place, wired>>
      PROVE  Asks'
  BY <1>1 DEF Asks
<1>2. ASSUME NEW text \in Texts, Type(text) PROVE Asks'
  <2>1. /\ dom'.query = text /\ place = "list" /\ UNCHANGED <<page, place, wired>>
        /\ timers' = IF "search" \in wired THEN SetSearchTimer(Trim(text)) ELSE timers
    BY <1>0, <1>2 DEF Type, Page, turboVars
  <2>2. SearchTimers = {t \in timers : t.kind = "search"}
    BY DEF SearchTimers, Asks
  <2>3. CASE "search" \in wired
    <3>1. timers' = (timers \ {t \in timers : t.kind = "search"})
                        \cup {[kind |-> "search", arg |-> Trim(text), page |-> page]}
      BY <2>1, <2>2, <2>3 DEF SetSearchTimer, timer
    <3> QED
      BY <2>1, <2>3, <3>1 DEF Asks
  <2>4. CASE "search" \notin wired
    BY <2>1, <2>4 DEF Asks
  <2> QED
    BY <2>3, <2>4
<1>3. CASE OnPage /\ ~ \E text \in Texts : Type(text)
  <2>1. dom'.query = dom.query /\ UNCHANGED <<page, place, wired>>
    BY <1>0, <1>3, OnPageStays, OnPageFrame DEF turboVars
  <2>2. \A t \in timers' : t.kind = "search" => t \in timers
    <3> DEFINE NoSearch == \A t \in timers' : t.kind = "search" => t \in timers
    <3>1. \A m : timer("remove", m).kind = "remove"
      BY DEF timer
    <3>2. ASSUME NEW m, Dismiss(m) PROVE NoSearch
      BY <3>1, <3>2 DEF Dismiss, Removals
    <3>3. ASSUME AutoDismiss PROVE NoSearch
      BY <3>1, <3>3 DEF AutoDismiss, Removals
    <3>4. ASSUME NEW m, Remove(m) PROVE NoSearch
      BY <3>4 DEF Remove, FlashTimersOff
    <3>5. ASSUME Search \/ (\E m : Toggle(m) \/ Click(m) \/ MarkAll(m) \/ \E s : Mark(s, m))
          PROVE  NoSearch
      BY <3>5 DEF Search, Toggle, Click, MarkAll, Mark
    <3> QED
      BY <1>3, <3>2, <3>3, <3>4, <3>5 DEF OnPage
  <2> QED
    BY <1>1, <2>1, <2>2
<1>4. ASSUME NEW p \in Places, NEW msgs \in SUBSET Messages, NEW form \in BOOLEAN,
             Leaves(p, msgs, form)
      PROVE  Asks'
  <2>1. StartVisit(p, msgs, form) /\ UNCHANGED <<page, place, wired>>
    BY <1>4 DEF Leaves, StartVisit
  <2>2. dom'.query = dom.query
    BY <1>0, <2>1, StartVisitLeaves
  <2>3. \A t \in timers' : t.kind = "search" => t \in timers
    BY <2>1 DEF StartVisit, BeforeVisitTimers, Removals, timer
  <2> QED
    BY <1>1, <2>1, <2>2, <2>3
<1>5. ASSUME NEW d, NEW p, Turns(d, p) PROVE Asks'
  <2>1. \A t \in timers' : t.kind # "search"
    BY <1>5 DEF Turns, Show, FlashTimersOff, SearchTimersOff, SearchTimers, FlashTimers, Asks
  <2> QED
    BY <2>1 DEF Asks
<1>6. CASE Answer
  <2>1. dom'.query = dom.query
    BY <1>0, <1>6 DEF Answer, SavedPage, Page
  <2> QED
    BY <1>1, <1>6, <2>1 DEF Answer, turboVars
<1>7. CASE Served \/ (\E t \in Threads : Save(t)) \/ UNCHANGED vars
  BY <1>0, <1>1, <1>7, ServedFields, SaveFields DEF vars, pageVars, turboVars
<1> QED
  BY <1>0, <1>2, <1>3, <1>4, <1>5, <1>6, <1>7, Steps

\* A search asks for what stands in the field now, never for an earlier text or for the
\* text of a page that is gone (search_controller clears the previous timeout in
\* handleInput and the last in disconnect).
THEOREM SearchesAskTheLatest == Spec => SearchesLatest
<1>1. Init => Asks
  BY DEF Init, Asks, FlashTimers
<1>2. Asks /\ [Next]_vars => [Search => /\ place = "list"
                                         /\ \A t \in timers \ timers' :
                                               t.arg = Trim(dom.query)]_vars
  BY DEF Asks, Search
<1> QED
  BY <1>1, <1>2, AsksStep, TypedAlways, PTL DEF Spec, SearchesLatest

=============================================================================
