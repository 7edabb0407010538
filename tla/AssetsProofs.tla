----------------------------- MODULE AssetsProofs -----------------------------
(* Proofs about Assets: what bun.config.js leaves in app/assets/builds, and   *)
(* which theme wins on a page.                                               *)
EXTENDS Assets, WellFoundedInduction, TLAPS

Running == DOMAIN building

Types ==
    /\ watch \in BOOLEAN /\ source \in 0 .. MaxEdits
    /\ events \in Nat /\ started \in Nat
    /\ \A b \in Running : building[b] \in 0 .. MaxEdits \cup {None}

\* The first build, and what it has read: the sources as they are, unless a change came
\* after that.
First ==
    process = "initial" =>
        /\ Running = {0} /\ events = 0
        /\ building[0] # None => building[0] = source \/ unseen

\* It ended with 0: nobody watches.
Ended == process = "done" => ~watch /\ (bundle = source \/ unseen)

\* Every change has been reported, and the last build had the place to itself: only that
\* one may still run, on the sources as they are, and if it is over it wrote them.
Caught ==
    process = "watching" =>
        /\ watch
        /\ events = 0 /\ ~unseen /\ ~overtaken =>
              /\ \A a, b \in Running : a = b
              /\ \A b \in Running : building[b] \in {None, source}
              /\ Running = {} => bundle = source \/ source \in Broken

Built == Types /\ First /\ Ended /\ Caught

LEMMA InitBuilt == Init => Built
  BY EditsBound, NoneIsNoVersion
     DEF Init, Js!Init, Js!Versions, Built, Types, First, Ended, Caught, Running

LEMMA EditBuilt ==
  ASSUME Built, Js!Edit
  PROVE  Built'
<1> USE DEF Js!Edit, Js!arguments, Running
<1>1. Types'
  BY EditsBound DEF Built, Types
<1>2. First'
  BY DEF Built, First
<1>3. Ended'
  BY DEF Built, Ended
<1>4. Caught'
  BY DEF Built, Types, Caught
<1> QED
  BY <1>1, <1>2, <1>3, <1>4 DEF Built

LEMMA ReportBuilt ==
  ASSUME Built, Js!Report
  PROVE  Built'
<1>1. /\ process = "watching" /\ events > 0 /\ events' = events - 1
      /\ building' = [x \in Running \cup {started} |-> IF x = started THEN None
                                                                     ELSE building[x]]
      /\ started' = started + 1 /\ unseen' = FALSE /\ overtaken' = (Running # {})
      /\ UNCHANGED <<watch, source, bundle, process>>
  BY DEF Js!Report, Js!Start, Js!Running, Js!arguments, Running
<1>2. Running' = Running \cup {started}
  BY <1>1 DEF Running
<1>3. \A b \in Running' : building'[b] = IF b = started THEN None ELSE building[b]
  BY <1>1, <1>2
<1>4. Types'
  BY <1>1, <1>2, <1>3 DEF Built, Types
<1>5. Caught'
  BY <1>1, <1>2, <1>3 DEF Built, Caught
<1> QED
  BY <1>1, <1>4, <1>5 DEF Built, First, Ended

LEMMA ReadBuilt ==
  ASSUME Built, NEW b, Js!Read(b)
  PROVE  Built'
<1>1. /\ b \in Running /\ building[b] = None /\ building' = [building EXCEPT ![b] = source]
      /\ process \in {"initial", "watching"}
      /\ UNCHANGED <<watch, source, bundle, process, events, started, unseen, overtaken>>
  BY DEF Js!Read, Js!Running, Js!Alive, Js!arguments, Running
<1>2. /\ Running' = Running
      /\ \A a \in Running : building'[a] = IF a = b THEN source ELSE building[a]
  BY <1>1 DEF Running
<1>3. Types'
  BY <1>1, <1>2 DEF Built, Types
<1>4. First'
  BY <1>1, <1>2 DEF Built, First
<1>5. Caught'
  BY <1>1, <1>2 DEF Built, Caught
<1> QED
  BY <1>1, <1>3, <1>4, <1>5 DEF Built, Ended

\* A build that had read the sources is over, with or without a bundle.
LEMMA OverBuilt ==
  ASSUME Built, NEW b \in Running, building[b] # None,
         process \in {"initial", "watching"},
         building' = [x \in Running \ {b} |-> building[x]],
         process' = IF b = 0 THEN (IF watch THEN "watching" ELSE "done") ELSE process,
         UNCHANGED <<watch, source, events, started, unseen, overtaken>>,
         \/ bundle' = building[b]
         \/ building[b] \in Broken /\ watch /\ UNCHANGED bundle
  PROVE  Built'
<1>1. /\ Running' = Running \ {b}
      /\ \A a \in Running' : building'[a] = building[a]
  BY DEF Running
<1>2. Types'
  BY <1>1 DEF Built, Types
<1>3. CASE process = "initial"
  <2>1. b = 0 /\ Running' = {} /\ events' = 0 /\ (building[b] = source \/ unseen)
    BY <1>1, <1>3 DEF Built, First
  <2> QED
    BY <1>2, <1>3, <2>1 DEF Built, First, Ended, Caught
<1>4. CASE process = "watching"
  <2>1. process' = "watching" /\ watch
    BY <1>4 DEF Built, Caught
  <2>2. Caught'
    BY <1>1, <1>4, <2>1 DEF Built, Caught
  <2> QED
    BY <1>2, <2>1, <2>2 DEF Built, First, Ended
<1> QED
  BY <1>3, <1>4

LEMMA BuiltStep == Built /\ [Next]_vars => Built'
<1> SUFFICES ASSUME Built, [Next]_vars PROVE Built'
  OBVIOUS
<1>1. ASSUME NEW b, Js!Write(b) PROVE Built'
  <2>1. building[b] # None
    BY <1>1, NoneIsNoVersion DEF Js!Write, Js!Versions
  <2> QED
    BY <1>1, <2>1, OverBuilt
       DEF Js!Write, Js!Without, Js!AfterFirst, Js!Running, Js!Alive, Js!arguments, Running
<1>2. ASSUME NEW b, Js!Fail(b) PROVE Built'
  <2>1. /\ building[b] # None /\ building[b] \in Broken /\ b \in Running
        /\ process \in {"initial", "watching"}
    BY <1>2, NoneIsNoVersion, BrokenAreVersions DEF Js!Fail, Js!Running, Js!Alive, Running
  <2>2. CASE Js!Throws
    <3>1. /\ process' = "failed" /\ building' = [x \in {} |-> None]
          /\ UNCHANGED <<watch, source, events, started>>
      BY <1>2, <2>2 DEF Js!Fail, Js!arguments
    <3> QED
      BY <3>1 DEF Built, Types, First, Ended, Caught, Running
  <2>3. CASE ~Js!Throws
    BY <1>2, <2>1, <2>3, OverBuilt
       DEF Js!Fail, Js!Throws, Js!Without, Js!AfterFirst, Js!Running, Js!arguments, Running
  <2> QED
    BY <2>2, <2>3
<1>3. CASE UNCHANGED scripts
  BY <1>3 DEF scripts, Built, Types, First, Ended, Caught, Running
<1> QED
  BY <1>1, <1>2, <1>3, EditBuilt, ReportBuilt, ReadBuilt DEF Next, vars, scripts, Js!Next

\* A build that ends with 0 has bundled the sources, and a watcher at rest on sources that
\* compile has too, but for a change between the first build's reading and fs.watch, and
\* for builds beside each other (bun.config.js): no event, failure or order of the steps
\* in between leaves an older bundle.
THEOREM BundleStaysCurrent == Spec => []BundleIsCurrent
<1>1. Built => BundleIsCurrent
  BY DEF Built, Ended, Caught, BundleIsCurrent, Js!BundleIsCurrent, Js!AtRest, Js!Running,
         Running
<1> QED
  BY <1>1, InitBuilt, BuiltStep, PTL DEF Spec

-----------------------------------------------------------------------------
(* Themes.                                                                 *)

LEMMA Greatest ==
  ASSUME NEW n \in Nat, NEW S \in SUBSET (0 .. n), S # {}
  PROVE  \E m \in S : \A k \in S : m >= k
<1> DEFINE T == {n - k : k \in S}
<1>0. \A k \in S : k \in Nat /\ k <= n /\ n - k \in Nat
  OBVIOUS
<1>1. T \subseteq Nat /\ T # {}
  BY <1>0
<1>2. IsWellFoundedOn(OpToRel(<, Nat), Nat)
  BY NatLessThanWellFounded
<1>3. PICK x \in T : \A y \in T : <<y, x>> \notin OpToRel(<, Nat)
  BY <1>1, <1>2, WFMin
<1>4. \A y \in T : ~(y < x)
  BY <1>1, <1>3 DEF OpToRel
<1>5. PICK m \in S : x = n - m
  OBVIOUS
<1>6. ASSUME NEW k \in S PROVE m >= k
  <2>1. ~(n - k < n - m)
    BY <1>4, <1>5
  <2> QED
    BY <1>0, <2>1
<1> QED
  BY <1>6

\* Of some rules, the last.
LEMMA LatestRule ==
  ASSUME NEW n \in Nat, NEW S, S # {}, \A r \in S : r.loop \in 1 .. 5 /\ r.nth \in 0 .. n
  PROVE  \E r \in S : \A s \in S : Css!Later(r, s)
<1> DEFINE loops == {r.loop : r \in S}
<1>1. loops \in SUBSET (0 .. 5) /\ loops # {}
  OBVIOUS
<1>2. PICK m \in loops : \A k \in loops : m >= k
  <2> HIDE DEF loops
  <2> QED
    BY <1>1, Greatest
<1> DEFINE last == {r \in S : r.loop = m}
           nths == {r.nth : r \in last}
<1>3. nths \in SUBSET (0 .. n) /\ nths # {}
  BY <1>2
<1>4. PICK j \in nths : \A k \in nths : j >= k
  <2> HIDE DEF nths
  <2> QED
    BY <1>3, Greatest
<1>5. PICK r \in last : r.nth = j
  BY <1>4
<1>6. ASSUME NEW s \in S PROVE Css!Later(r, s)
  <2>1. m >= s.loop /\ r.loop = m /\ m \in 1 .. 5 /\ s.loop \in 1 .. 5
    BY <1>2, <1>5
  <2>2. s.loop = m => j >= s.nth
    BY <1>4
  <2> QED
    BY <1>5, <2>1, <2>2 DEF Css!Later
<1> QED
  BY <1>5, <1>6

LEMMA InAddBase ==
  ASSUME NEW S, NEW t, NEW l, NEW n
  PROVE  /\ \A r \in Css!addBase(S, t, l, n) :
               r.kind \in S /\ r.theme = t /\ r.loop = l /\ r.nth = n
         /\ \A k \in S : \E r \in Css!addBase(S, t, l, n) :
               r.kind = k /\ r.theme = t /\ r.loop = l /\ r.nth = n
<1> DEFINE made(k) == [kind |-> k, theme |-> t, loop |-> l, nth |-> n]
<1>1. Css!addBase(S, t, l, n) = {made(k) : k \in S}
  BY DEF Css!addBase
<1>2. \A k : made(k).kind = k /\ made(k).theme = t /\ made(k).loop = l /\ made(k).nth = n
  OBVIOUS
<1> HIDE DEF made
<1> QED
  BY <1>1, <1>2

LEMMA InApplyTheme ==
  ASSUME NEW t, NEW flags, NEW l, NEW n
  PROVE  /\ \A r \in Css!applyTheme(t, flags, l, n) :
               /\ r.theme = t /\ r.loop = l /\ r.nth = n
               /\ \/ r.kind \in {"has", "attribute"}
                  \/ r.kind = "where" /\ "--default" \in flags
                  \/ r.kind = "dark" /\ "--prefersdark" \in flags
         /\ \A k \in {"where", "has", "attribute", "dark"} :
               /\ k = "where" => "--default" \in flags
               /\ k = "dark" => "--prefersdark" \in flags
               => \E r \in Css!applyTheme(t, flags, l, n) :
                      r.kind = k /\ r.theme = t /\ r.loop = l /\ r.nth = n
<1>1. Css!OfWhereRoot = "where"
  BY DEF Css!OfWhereRoot
<1>2. Css!Selector(flags) = (IF "--default" \in flags THEN {"where"} ELSE {}) \cup {"has", "attribute"}
  BY <1>1 DEF Css!Selector
<1>3. Css!DarkSelector = {"dark"}
  BY DEF Css!DarkSelector
<1>4. \A r \in Css!applyTheme(t, flags, l, n) :
         \/ r \in Css!addBase(Css!Selector(flags), t, l, n)
         \/ r \in Css!addBase({"dark"}, t, l, n) /\ "--prefersdark" \in flags
  BY <1>3 DEF Css!applyTheme
<1>5. /\ Css!addBase(Css!Selector(flags), t, l, n) \subseteq Css!applyTheme(t, flags, l, n)
      /\ "--prefersdark" \in flags =>
             Css!addBase({"dark"}, t, l, n) \subseteq Css!applyTheme(t, flags, l, n)
  BY <1>3 DEF Css!applyTheme
<1>6. ASSUME NEW r \in Css!applyTheme(t, flags, l, n)
      PROVE  /\ r.theme = t /\ r.loop = l /\ r.nth = n
             /\ \/ r.kind \in {"has", "attribute"}
                \/ r.kind = "where" /\ "--default" \in flags
                \/ r.kind = "dark" /\ "--prefersdark" \in flags
  <2>1. CASE r \in Css!addBase(Css!Selector(flags), t, l, n)
    BY <1>2, <2>1, InAddBase
  <2>2. CASE r \in Css!addBase({"dark"}, t, l, n) /\ "--prefersdark" \in flags
    BY <2>2, InAddBase
  <2> QED
    BY <1>4, <2>1, <2>2
<1>7. ASSUME NEW k \in {"where", "has", "attribute", "dark"},
             k = "where" => "--default" \in flags, k = "dark" => "--prefersdark" \in flags
      PROVE  \E r \in Css!applyTheme(t, flags, l, n) :
                 r.kind = k /\ r.theme = t /\ r.loop = l /\ r.nth = n
  <2>1. CASE k \in Css!Selector(flags)
    BY <1>5, <2>1, InAddBase
  <2>2. CASE k = "dark"
    BY <1>5, <1>7, <2>2, InAddBase
  <2> QED
    BY <1>2, <1>7, <2>1, <2>2
<1> QED
  BY <1>6, <1>7

-----------------------------------------------------------------------------
(* The rules of the two plugins.                                           *)

LEMMA OptionFields ==
  ASSUME NEW o \in Options
  PROVE  /\ Len(o.themes) \in Nat /\ DOMAIN o.themes = 1 .. Len(o.themes)
         /\ \A i \in DOMAIN o.themes :
               i \in Nat /\ o.themes[i].name \in {Themes[j] : j \in 1 .. Len(Themes)}
         /\ Len(Themes) \in Nat /\ DOMAIN Themes = 1 .. Len(Themes)
<1> DEFINE BuiltIn == {Themes[j] : j \in 1 .. Len(Themes)}
           Choices == [name : BuiltIn, flags : SUBSET {"--default", "--prefersdark"}]
<1>1. o.themes \in Seq(Choices)
  BY OptionsOfThemes
<1>2. \A c \in Choices : c.name \in BuiltIn
  OBVIOUS
<1>3. Len(Themes) \in Nat /\ DOMAIN Themes = 1 .. Len(Themes)
  <2>1. DOMAIN [i \in 1 .. Len(Themes) |-> Themes[i]] = 1 .. Len(Themes)
    OBVIOUS
  <2> QED
    BY <2>1, ThemesAreListed
<1> HIDE DEF Choices, BuiltIn
<1>4. /\ Len(o.themes) \in Nat /\ DOMAIN o.themes = 1 .. Len(o.themes)
      /\ \A i \in DOMAIN o.themes : i \in Nat /\ o.themes[i] \in Choices
  BY <1>1
<1> QED
  BY <1>2, <1>3, <1>4 DEF BuiltIn

H(o) == Css!pluginOptionsHandler(o)
C(o) == Css!theme_default(o)

Kinds == {"where", "has", "attribute", "dark"}

\* The loop that gives the preference its theme: with one theme that is the default too,
\* the first and only.
Single(o) == Len(o.themes) = 1 /\ Css!flagged(o, "--default") # {}
DarkLoop(o) == IF Single(o) THEN 1 ELSE 2

OfAll(r) ==
    \/ r.kind \in {"where", "has", "attribute"} /\ r.theme = "light" /\ r.loop = 1 /\ r.nth = 0
    \/ r.kind = "dark" /\ r.theme = "dark" /\ r.loop = 2 /\ r.nth = 0
    \/ /\ r.kind \in {"has", "attribute"} /\ r.loop = 3
       /\ r.nth \in DOMAIN Themes /\ r.theme = Themes[r.nth]

OfListed(o, r) ==
    /\ r.kind \in Kinds /\ r.loop \in 1 .. 3
    /\ r.nth \in DOMAIN o.themes /\ r.theme = o.themes[r.nth].name
    /\ r.kind = "where" => r.loop = 1 /\ r.nth \in Css!flagged(o, "--default")
    /\ r.kind = "dark" => r.loop = DarkLoop(o) /\ r.nth \in Css!flagged(o, "--prefersdark")

OfCustom(o, r) ==
    /\ r.theme = Custom /\ r.nth = 0
    /\ \/ r.kind = "dark" /\ r.loop = 4 /\ "--prefersdark" \in o.custom
       \/ r.kind = "where" /\ r.loop = 5 /\ "--default" \in o.custom
       \/ r.kind \in {"has", "attribute"} /\ r.loop = 5

\* With every theme: what the first plugin emits.
LEMMA AllThemes ==
  ASSUME NEW o \in Options, o.all
  PROVE  /\ \A r \in H(o) : OfAll(r)
         /\ \E r \in H(o) : r.kind = "where"
         /\ \E r \in H(o) : r.kind = "dark"
         /\ \A i \in DOMAIN Themes, k \in {"has", "attribute"} :
               \E r \in H(o) : r.kind = k /\ r.theme = Themes[i]
<1> DEFINE A == Css!applyTheme("light", {"--default"}, 1, 0)
           B == Css!addBase({"dark"}, "dark", 2, 0)
           D(i) == Css!applyTheme(Themes[i], {}, 3, i)
<1>1. H(o) = A \cup B \cup (UNION {D(i) : i \in DOMAIN Themes})
  BY DEF H, Css!pluginOptionsHandler, Css!DarkSelector
<1>2. ASSUME NEW r \in A PROVE OfAll(r)
  BY <1>2, InApplyTheme DEF OfAll
<1>3. ASSUME NEW r \in B PROVE OfAll(r)
  BY <1>3, InAddBase DEF OfAll
<1>4. ASSUME NEW i \in DOMAIN Themes, NEW r \in D(i) PROVE OfAll(r)
  BY <1>4, InApplyTheme DEF OfAll
<1>5. \E r \in A : r.kind = "where"
  BY InApplyTheme
<1>6. \E r \in B : r.kind = "dark"
  BY InAddBase
<1>7. \A i \in DOMAIN Themes, k \in {"has", "attribute"} : \E r \in D(i) : r.kind = k /\ r.theme = Themes[i]
  BY InApplyTheme
<1> HIDE DEF A, B, D
<1> QED
  BY <1>1, <1>2, <1>3, <1>4, <1>5, <1>6, <1>7

\* With a list of themes.
LEMMA ListedThemes ==
  ASSUME NEW o \in Options, ~o.all
  PROVE  /\ \A r \in H(o) : OfListed(o, r)
         /\ \A i \in Css!flagged(o, "--default") : \E r \in H(o) : r.kind = "where" /\ r.nth = i
         /\ \A i \in Css!flagged(o, "--prefersdark") : \E r \in H(o) : r.kind = "dark" /\ r.nth = i
         /\ \A i \in DOMAIN o.themes, k \in {"has", "attribute"} :
               \E r \in H(o) : r.kind = k /\ r.theme = o.themes[i].name
<1> DEFINE name(i) == o.themes[i].name
           Def == Css!flagged(o, "--default")
           Pref == Css!flagged(o, "--prefersdark")
<1>0. Def \subseteq DOMAIN o.themes /\ Pref \subseteq DOMAIN o.themes
  BY DEF Css!flagged
<1>1. CASE Single(o)
  <2> DEFINE A == Css!applyTheme(name(1), o.themes[1].flags, 1, 1)
  <2>1. H(o) = A
    BY <1>1 DEF H, Css!pluginOptionsHandler, Single
  <2>2. DOMAIN o.themes = {1} /\ 1 \in Def
    BY <1>0, <1>1, OptionsOfThemes DEF Single
  <2>3. "--default" \in o.themes[1].flags /\ (1 \in Pref <=> "--prefersdark" \in o.themes[1].flags)
    BY <2>2 DEF Css!flagged
  <2>4. ASSUME NEW r \in A PROVE OfListed(o, r)
    BY <1>1, <2>2, <2>3, <2>4, InApplyTheme DEF OfListed, Kinds, DarkLoop
  <2>5. \E r \in A : r.kind = "where" /\ r.nth = 1
    BY <2>3, InApplyTheme
  <2>6. 1 \in Pref => \E r \in A : r.kind = "dark" /\ r.nth = 1
    BY <2>3, InApplyTheme
  <2>7. \A k \in {"has", "attribute"} : \E r \in A : r.kind = k /\ r.theme = name(1)
    BY InApplyTheme
  <2>8. \A i \in DOMAIN o.themes : i = 1
    BY <2>2
  <2> HIDE DEF A, Def, Pref, name
  <2> QED
    BY <1>0, <2>1, <2>4, <2>5, <2>6, <2>7, <2>8 DEF Def, Pref, name
<1>2. CASE ~Single(o)
  <2> DEFINE A(i) == Css!applyTheme(name(i), {"--default"}, 1, i)
             B(i) == Css!addBase({"dark"}, name(i), 2, i)
             D(i) == Css!applyTheme(name(i), {}, 3, i)
             As == UNION {A(i) : i \in Def}
             Bs == UNION {B(i) : i \in Pref}
             Ds == UNION {D(i) : i \in DOMAIN o.themes}
  <2>1. H(o) = As \cup Bs \cup Ds
    BY <1>2 DEF H, Css!pluginOptionsHandler, Css!DarkSelector, Single
  <2>2. ASSUME NEW i \in Def, NEW r \in A(i) PROVE OfListed(o, r)
    BY <1>0, <2>2, InApplyTheme DEF OfListed, Kinds
  <2>3. ASSUME NEW i \in Pref, NEW r \in B(i) PROVE OfListed(o, r)
    BY <1>0, <1>2, <2>3, InAddBase DEF OfListed, Kinds, DarkLoop
  <2>4. ASSUME NEW i \in DOMAIN o.themes, NEW r \in D(i) PROVE OfListed(o, r)
    BY <2>4, InApplyTheme DEF OfListed, Kinds
  <2>5. \A i \in Def : \E r \in A(i) : r.kind = "where" /\ r.nth = i
    BY InApplyTheme
  <2>6. \A i \in Pref : \E r \in B(i) : r.kind = "dark" /\ r.nth = i
    BY InAddBase
  <2>7. \A i \in DOMAIN o.themes, k \in {"has", "attribute"} : \E r \in D(i) : r.kind = k /\ r.theme = name(i)
    BY InApplyTheme
  <2> HIDE DEF A, B, D, Def, Pref
  <2>a. \A r : r \in H(o) <=> ((\E i \in Def : r \in A(i)) \/ (\E i \in Pref : r \in B(i))
                               \/ (\E i \in DOMAIN o.themes : r \in D(i)))
    <3>1. /\ \A r : r \in As <=> \E i \in Def : r \in A(i)
          /\ \A r : r \in Bs <=> \E i \in Pref : r \in B(i)
          /\ \A r : r \in Ds <=> \E i \in DOMAIN o.themes : r \in D(i)
      OBVIOUS
    <3> HIDE DEF As, Bs, Ds
    <3> QED
      BY <2>1, <3>1
  <2>8. \A r \in H(o) : OfListed(o, r)
    BY <2>a, <2>2, <2>3, <2>4
  <2>9. /\ \A i \in Def : \E r \in H(o) : r.kind = "where" /\ r.nth = i
        /\ \A i \in Pref : \E r \in H(o) : r.kind = "dark" /\ r.nth = i
    BY <2>a, <2>5, <2>6
  <2>10. \A i \in DOMAIN o.themes, k \in {"has", "attribute"} :
            \E r \in H(o) : r.kind = k /\ r.theme = name(i)
    <3> SUFFICES ASSUME NEW i \in DOMAIN o.themes, NEW k \in {"has", "attribute"}
                 PROVE  \E r \in H(o) : r.kind = k /\ r.theme = name(i)
      OBVIOUS
    <3>1. PICK r \in D(i) : r.kind = k /\ r.theme = name(i)
      BY <2>7
    <3>2. r \in H(o)
      BY <2>a
    <3> QED
      BY <3>1, <3>2
  <2> QED
    BY <2>8, <2>9, <2>10 DEF Def, Pref
<1> QED
  BY <1>1, <1>2

LEMMA CustomTheme ==
  ASSUME NEW o \in Options
  PROVE  /\ \A r \in C(o) : OfCustom(o, r)
         /\ "--default" \in o.custom => \E r \in C(o) : r.kind = "where" /\ r.loop = 5
         /\ "--prefersdark" \in o.custom => \E r \in C(o) : r.kind = "dark" /\ r.loop = 4
         /\ \A k \in {"has", "attribute"} : \E r \in C(o) : r.kind = k /\ r.theme = Custom
<1> DEFINE kinds == Css!Selector(o.custom)
           A == Css!addBase({"dark"}, Custom, 4, 0)
           B == Css!addBase(kinds, Custom, 5, 0)
<1>1. C(o) = (IF "--prefersdark" \in o.custom THEN A ELSE {}) \cup B
  BY DEF C, Css!theme_default, Css!DarkSelector
<1>2. kinds = (IF "--default" \in o.custom THEN {"where"} ELSE {}) \cup {"has", "attribute"}
  BY DEF Css!Selector, Css!OfWhereRoot
<1> HIDE DEF kinds
<1>3. ASSUME NEW r \in A, "--prefersdark" \in o.custom PROVE OfCustom(o, r)
  BY <1>3, InAddBase DEF OfCustom
<1>4. ASSUME NEW r \in B PROVE OfCustom(o, r)
  BY <1>2, <1>4, InAddBase DEF OfCustom
<1>5. \E r \in A : r.kind = "dark" /\ r.loop = 4
  BY InAddBase
<1>6. \A k \in kinds : \E r \in B : r.kind = k /\ r.theme = Custom /\ r.loop = 5
  BY InAddBase
<1> HIDE DEF A, B
<1> QED
  BY <1>1, <1>2, <1>3, <1>4, <1>5, <1>6

\* Both plugins have run.
Sheet(o) == H(o) \cup C(o)

\* Where in the order a rule stands, and that its place tells its theme.
LEMMA PlacesOfRules ==
  ASSUME NEW o \in Options
  PROVE  \E n \in Nat : \A r \in Sheet(o) :
             /\ r.kind \in Kinds /\ r.loop \in 1 .. 5 /\ r.nth \in 0 .. n
             /\ \A s \in Sheet(o) : r.loop = s.loop /\ r.nth = s.nth => r.theme = s.theme
<1> DEFINE n == Len(Themes) + Len(o.themes)
<1>0. /\ Len(Themes) \in Nat /\ DOMAIN Themes = 1 .. Len(Themes)
      /\ Len(o.themes) \in Nat /\ DOMAIN o.themes = 1 .. Len(o.themes) /\ n \in Nat
  BY OptionFields
<1>1. CASE o.all
  <2>1. ASSUME NEW r \in Sheet(o) PROVE OfAll(r) \/ OfCustom(o, r)
    BY <1>1, AllThemes, CustomTheme DEF Sheet
  <2>2. ASSUME NEW r \in Sheet(o)
        PROVE  r.kind \in Kinds /\ r.loop \in 1 .. 5 /\ r.nth \in 0 .. n
    BY <1>0, <2>1 DEF OfAll, OfCustom, Kinds
  <2>3. ASSUME NEW r \in Sheet(o), NEW s \in Sheet(o), r.loop = s.loop, r.nth = s.nth
        PROVE  r.theme = s.theme
    BY <2>1, <2>3 DEF OfAll, OfCustom
  <2> HIDE DEF n
  <2> QED
    BY <1>0, <2>2, <2>3
<1>2. CASE ~o.all
  <2>1. ASSUME NEW r \in Sheet(o) PROVE OfListed(o, r) \/ OfCustom(o, r)
    BY <1>2, ListedThemes, CustomTheme DEF Sheet
  <2>2. ASSUME NEW r \in Sheet(o)
        PROVE  r.kind \in Kinds /\ r.loop \in 1 .. 5 /\ r.nth \in 0 .. n
    BY <1>0, <2>1 DEF OfListed, OfCustom, Kinds
  <2>3. ASSUME NEW r \in Sheet(o), NEW s \in Sheet(o), r.loop = s.loop, r.nth = s.nth
        PROVE  r.theme = s.theme
    BY <2>1, <2>3 DEF OfListed, OfCustom
  <2> HIDE DEF n
  <2> QED
    BY <1>0, <2>2, <2>3
<1> QED
  BY <1>1, <1>2

\* What the options list, and what they flag.
ListedBy(o) ==
    {Custom} \cup IF o.all THEN {Themes[i] : i \in DOMAIN Themes}
                  ELSE {o.themes[i].name : i \in DOMAIN o.themes}

FlaggedBy(o, flag) ==
    IF flag \in o.custom THEN Custom
    ELSE IF o.all THEN (IF flag = "--default" THEN "light" ELSE "dark")
    ELSE IF Css!flagged(o, flag) = {} THEN None
    ELSE o.themes[Css!LastOf(Css!flagged(o, flag))].name

\* The themes that can be picked are those listed.
LEMMA PickableAreListed ==
  ASSUME NEW o \in Options
  PROVE  /\ \A r \in Sheet(o) : r.kind \in {"has", "attribute"} => r.theme \in ListedBy(o)
         /\ \A t \in ListedBy(o), k \in {"has", "attribute"} :
               \E r \in Sheet(o) : r.kind = k /\ r.theme = t
         /\ None \notin ListedBy(o)
<1>0. /\ DOMAIN Themes = 1 .. Len(Themes) /\ "light" \in {Themes[i] : i \in DOMAIN Themes}
      /\ \A i \in DOMAIN o.themes : o.themes[i].name \in {Themes[j] : j \in 1 .. Len(Themes)}
  BY LightAndDark, OptionFields
<1>1. CASE o.all
  <2>1. \A r \in Sheet(o) : OfAll(r) \/ OfCustom(o, r)
    BY <1>1, AllThemes, CustomTheme DEF Sheet
  <2>2. \A r \in Sheet(o) : r.kind \in {"has", "attribute"} => r.theme \in ListedBy(o)
    BY <1>0, <1>1, <2>1 DEF ListedBy, OfAll, OfCustom
  <2>3. ASSUME NEW t \in ListedBy(o), NEW k \in {"has", "attribute"}
        PROVE  \E r \in Sheet(o) : r.kind = k /\ r.theme = t
    <3>1. CASE t = Custom
      BY <3>1, CustomTheme DEF Sheet
    <3>2. CASE \E i \in DOMAIN Themes : t = Themes[i]
      BY <1>1, <3>2, AllThemes DEF Sheet
    <3> QED
      BY <1>1, <3>1, <3>2 DEF ListedBy
  <2>4. None \notin ListedBy(o)
    BY <1>0, <1>1, NoneIsNoTheme DEF ListedBy
  <2> QED
    BY <2>2, <2>3, <2>4
<1>2. CASE ~o.all
  <2>1. \A r \in Sheet(o) : OfListed(o, r) \/ OfCustom(o, r)
    BY <1>2, ListedThemes, CustomTheme DEF Sheet
  <2>2. \A r \in Sheet(o) : r.kind \in {"has", "attribute"} => r.theme \in ListedBy(o)
    BY <1>2, <2>1 DEF ListedBy, OfListed, OfCustom
  <2>3. ASSUME NEW t \in ListedBy(o), NEW k \in {"has", "attribute"}
        PROVE  \E r \in Sheet(o) : r.kind = k /\ r.theme = t
    <3>1. CASE t = Custom
      BY <3>1, CustomTheme DEF Sheet
    <3>2. CASE \E i \in DOMAIN o.themes : t = o.themes[i].name
      BY <1>2, <3>2, ListedThemes DEF Sheet
    <3> QED
      BY <1>2, <3>1, <3>2 DEF ListedBy
  <2>4. None \notin ListedBy(o)
    BY <1>0, <1>2, NoneIsNoTheme DEF ListedBy
  <2> QED
    BY <2>2, <2>3, <2>4
<1> QED
  BY <1>1, <1>2

\* The last theme that is flagged.
LEMMA LastFlagged ==
  ASSUME NEW o \in Options, NEW flag, Css!flagged(o, flag) # {}
  PROVE  LET i == Css!LastOf(Css!flagged(o, flag))
         IN  i \in Css!flagged(o, flag) /\ \A j \in Css!flagged(o, flag) : i >= j
<1> DEFINE S == Css!flagged(o, flag)
<1>1. Len(o.themes) \in Nat /\ DOMAIN o.themes = 1 .. Len(o.themes)
  BY OptionFields
<1>2. S \in SUBSET (0 .. Len(o.themes))
  BY <1>1 DEF Css!flagged
<1> HIDE DEF S
<1>3. \E m \in S : \A k \in S : m >= k
  BY <1>1, <1>2, Greatest DEF S
<1> QED
  BY <1>3 DEF Css!LastOf, S

\* What a rule that asks for nothing to be picked gives: the last of its kind is that of
\* the theme flagged for it.
Asked == {<<"where", "--default">>, <<"dark", "--prefersdark">>}

LEMMA FlaggedIsLast ==
  ASSUME NEW o \in Options, NEW k, NEW flag, <<k, flag>> \in Asked
  PROVE  /\ FlaggedBy(o, flag) # None => \E r \in Sheet(o) : r.kind = k
         /\ \A r \in Sheet(o) :
               /\ r.kind = k
               /\ \A s \in Sheet(o) : s.kind = k => Css!Later(r, s)
               => r.theme = FlaggedBy(o, flag) /\ FlaggedBy(o, flag) # None
<1> DEFINE those == Css!flagged(o, flag)
           last == Css!LastOf(those)
           loop == IF k = "where" THEN 1 ELSE DarkLoop(o)
<1>0. (k = "where" /\ flag = "--default") \/ (k = "dark" /\ flag = "--prefersdark")
  BY DEF Asked
<1>1. \A r \in C(o) : OfCustom(o, r)
  BY CustomTheme
<1>2. Custom # None /\ "light" # None /\ "dark" # None
  BY NoneIsNoTheme, LightAndDark
<1>3. CASE flag \in o.custom
  <2>1. PICK c \in C(o) : c.kind = k /\ c.loop >= 4 /\ (k = "where" => c.loop = 5)
    BY <1>0, <1>3, CustomTheme
  <2>2. c \in Sheet(o) /\ OfCustom(o, c)
    BY <1>1 DEF Sheet
  <2>3. ASSUME NEW r \in Sheet(o), r.kind = k, \A s \in Sheet(o) : s.kind = k => Css!Later(r, s)
        PROVE  r.theme = Custom
    <3>1. Css!Later(r, c)
      BY <2>1, <2>2, <2>3
    <3>2. CASE r \in C(o)
      BY <1>1, <3>2 DEF OfCustom
    <3>3. CASE r \in H(o)
      <4>1. r.loop \in 1 .. 3
        BY <3>3, AllThemes, ListedThemes DEF OfAll, OfListed
      <4> QED
        BY <2>1, <2>2, <3>1, <4>1 DEF Css!Later, OfCustom
    <3> QED
      BY <3>2, <3>3 DEF Sheet
  <2> QED
    BY <1>2, <1>3, <2>1, <2>2, <2>3 DEF FlaggedBy
<1>4. CASE flag \notin o.custom
  <2>0. \A r \in Sheet(o) : r.kind = k => r \in H(o)
    BY <1>0, <1>1, <1>4 DEF Sheet, OfCustom
  <2>1. CASE o.all
    <3>1. FlaggedBy(o, flag) = k \/ (k = "where" /\ FlaggedBy(o, flag) = "light")
      BY <1>0, <1>4, <2>1 DEF FlaggedBy
    <3>2. \E r \in Sheet(o) : r.kind = k
      BY <1>0, <2>1, AllThemes DEF Sheet
    <3>3. \A r \in Sheet(o) : r.kind = k => r.theme = FlaggedBy(o, flag)
      BY <1>0, <1>4, <2>0, <2>1, AllThemes DEF FlaggedBy, OfAll
    <3>4. FlaggedBy(o, flag) # None
      BY <1>2, <1>4, <2>1 DEF FlaggedBy
    <3> QED
      BY <3>2, <3>3, <3>4
  <2>2. CASE ~o.all
    <3>1. \A r \in Sheet(o) : r.kind = k =>
             /\ r.nth \in those /\ r.loop = loop /\ r.theme = o.themes[r.nth].name
      BY <1>0, <2>0, <2>2, ListedThemes DEF OfListed
    <3>2. \A i \in those : \E r \in Sheet(o) : r.kind = k /\ r.nth = i
      BY <1>0, <2>2, ListedThemes DEF Sheet
    <3>3. FlaggedBy(o, flag) = IF those = {} THEN None ELSE o.themes[last].name
      BY <1>4, <2>2 DEF FlaggedBy
    <3>4. CASE those = {}
      BY <3>1, <3>3, <3>4
    <3>5. CASE those # {}
      <4>1. last \in those /\ \A j \in those : last >= j
        BY <3>5, LastFlagged
      <4>2. PICK c \in Sheet(o) : c.kind = k /\ c.nth = last
        BY <3>2, <4>1
      <4>3. those \subseteq Nat
        BY OptionFields DEF Css!flagged
      <4>4. loop \in Nat
        BY DEF DarkLoop
      <4>5. ASSUME NEW r \in Sheet(o), r.kind = k, \A s \in Sheet(o) : s.kind = k => Css!Later(r, s)
            PROVE  r.theme = o.themes[last].name
        <5>1. Css!Later(r, c)
          BY <4>2, <4>5
        <5>2. r.nth \in those /\ r.loop = loop /\ c.loop = loop /\ r.theme = o.themes[r.nth].name
          BY <3>1, <4>2, <4>5
        <5> HIDE DEF those, last, loop
        <5>3. r.nth >= last
          BY <4>2, <4>4, <5>1, <5>2 DEF Css!Later
        <5>4. r.nth \in Nat /\ last \in Nat /\ last >= r.nth
          BY <4>1, <4>3, <5>2
        <5>5. r.nth = last
          BY <5>3, <5>4
        <5> QED
          BY <5>2, <5>5
      <4>6. o.themes[last].name # None
        <5>1. last \in DOMAIN o.themes
          BY <4>1 DEF Css!flagged
        <5>2. o.themes[last].name \in {Themes[j] : j \in 1 .. Len(Themes)}
          BY <5>1, OptionFields
        <5> QED
          BY <5>2, NoneIsNoTheme
      <4> QED
        BY <3>3, <3>5, <4>2, <4>5, <4>6
    <3> QED
      BY <3>4, <3>5
  <2> QED
    BY <2>1, <2>2
<1> QED
  BY <1>3, <1>4

-----------------------------------------------------------------------------
(* The cascade.                                                            *)

Styled ==
    /\ options \in Options /\ emitted \in 0 .. 2
    /\ emitted = 0 => rules = {}
    /\ emitted = 1 => rules = H(options)
    /\ emitted = 2 => rules = Sheet(options)

LEMMA InitStyled == Init => Styled
  BY DEF Init, Css!Init, Styled

LEMMA StyledStep ==
  ASSUME Styled, [Next]_vars
  PROVE  Styled'
<1>1. CASE UNCHANGED <<options, rules, emitted>>
  BY <1>1 DEF Styled, Sheet, H, C
<1>2. CASE Css!Emit
  <2>1. CASE emitted = 0
    <3>1. rules' = H(options) /\ emitted' = 1 /\ options' = options
      BY <1>2, <2>1 DEF Styled, Css!Emit, H
    <3> QED
      BY <3>1 DEF Styled, H
  <2>2. CASE emitted = 1
    <3>1. rules' = Sheet(options) /\ emitted' = 2 /\ options' = options
      BY <1>2, <2>2 DEF Styled, Css!Emit, Sheet, C
    <3> QED
      BY <3>1 DEF Styled, Sheet, H, C
  <2> QED
    BY <1>2, <2>1, <2>2 DEF Styled, Css!Emit
<1> QED
  BY <1>1, <1>2 DEF Next, Css!Next, Css!Prefer, Css!Pick, Css!SetAttribute, Css!Visit, vars, styles

\* A kind of rule, of which one matches, wins if no more specific one does; and of the kind
\* the last.
LEMMA ShownOfKind ==
  ASSUME Styled, emitted = 2, NEW k \in Kinds, \E r \in Css!Matching : r.kind = k,
         \A r \in Css!Matching :
             \/ r.kind = k
             \/ k = "has"
             \/ k = "dark" /\ r.kind # "has"
             \/ k = "attribute" /\ r.kind = "where"
  PROVE  \E w \in Css!Matching :
             /\ w.kind = k /\ Css!OnRoot = w.theme
             /\ \A r \in Css!Matching : r.kind = k => Css!Later(w, r)
<1> DEFINE M == Css!Matching
           S == {r \in M : r.kind = k}
<1>1. M \subseteq Sheet(options) /\ options \in Options
  BY DEF Styled, Css!Matching
<1>2. PICK n \in Nat : \A r \in Sheet(options) :
             /\ r.kind \in Kinds /\ r.loop \in 1 .. 5 /\ r.nth \in 0 .. n
             /\ \A s \in Sheet(options) : r.loop = s.loop /\ r.nth = s.nth => r.theme = s.theme
  BY <1>1, PlacesOfRules
<1>3. PICK w \in S : \A r \in S : Css!Later(w, r)
  <2>1. S # {} /\ \A r \in S : r.loop \in 1 .. 5 /\ r.nth \in 0 .. n
    BY <1>1, <1>2
  <2> HIDE DEF S
  <2> QED
    BY <2>1, LatestRule
<1>4. \A r \in M : r.kind \in Kinds
  BY <1>1, <1>2
<1>5. \A r \in M : Css!Specificity(r) = IF r.kind = "where" THEN 0
                                       ELSE IF r.kind = "attribute" THEN 1
                                       ELSE IF r.kind = "dark" THEN 2 ELSE 4
  BY <1>4 DEF Css!Specificity, Kinds
<1>6. \A r \in M : Css!Beats(w, r)
  <2> SUFFICES ASSUME NEW r \in M PROVE Css!Beats(w, r)
    OBVIOUS
  <2>1. CASE r.kind = k
    BY <1>3, <1>5, <2>1 DEF Css!Beats
  <2>2. CASE r.kind # k
    <3>1. Css!Specificity(w) > Css!Specificity(r)
      BY <1>3, <1>4, <1>5, <2>2 DEF Kinds
    <3> QED
      BY <3>1 DEF Css!Beats
  <2> QED
    BY <2>1, <2>2
<1>7. ASSUME NEW v \in M, \A r \in M : Css!Beats(v, r) PROVE v.theme = w.theme
  <2>1. Css!Beats(v, w) /\ Css!Beats(w, v)
    BY <1>3, <1>6, <1>7
  <2>2. Css!Specificity(v) \in Int /\ Css!Specificity(w) \in Int
    BY <1>3, <1>5
  <2>3. Css!Later(v, w) /\ Css!Later(w, v)
    BY <2>1, <2>2 DEF Css!Beats
  <2>4. v \in Sheet(options) /\ w \in Sheet(options)
    BY <1>1, <1>3
  <2>5. v.loop \in Nat /\ w.loop \in Nat /\ v.nth \in Nat /\ w.nth \in Nat
    BY <1>2, <2>4
  <2>6. v.loop = w.loop /\ v.nth = w.nth
    BY <2>3, <2>5 DEF Css!Later
  <2> QED
    BY <1>2, <2>4, <2>6
<1>8. w \in M /\ w.kind = k
  BY <1>3
<1>9. Css!OnRoot = (CHOOSE r \in M : \A s \in M : Css!Beats(r, s)).theme
  BY <1>8 DEF Css!OnRoot
<1> DEFINE v == CHOOSE r \in M : \A s \in M : Css!Beats(r, s)
<1>10. v \in M /\ \A s \in M : Css!Beats(v, s)
  BY <1>6, <1>8
<1>11. Css!OnRoot = w.theme
  <2> HIDE DEF v
  <2>1. v.theme = w.theme
    BY <1>7, <1>10
  <2> QED
    BY <1>9, <2>1 DEF v
<1> QED
  BY <1>3, <1>8, <1>11

\* The theme of a page is the one its body names (application.html.erb:31); on a page that
\* names none that of the controller that is checked, else the one the root names, else
\* that of the system's preference, else the default, for every list of themes and flags:
\* of the themes with a flag the last, and the plugin of the application's own theme after
\* them (pluginOptionsHandler in daisyui.mjs, daisyui-theme.mjs).
THEOREM PageKeepsItsTheme == Spec => []PageHasItsTheme
<1>1. ASSUME Styled PROVE PageHasItsTheme
  <2> DEFINE M == Css!Matching
             dk == dark /\ attribute = None
             F(flag) == FlaggedBy(options, flag)
             L == ListedBy(options)
             root == IF checked \in L THEN checked
                     ELSE IF attribute \in L THEN attribute
                     ELSE IF dk /\ F("--prefersdark") # None THEN F("--prefersdark")
                     ELSE F("--default")
  <2> SUFFICES ASSUME emitted = 2
               PROVE  Css!Shown = IF body \in L THEN body ELSE root
    BY DEF PageHasItsTheme, Css!PageHasItsTheme, Css!Listed, Css!BuiltIn, Css!Flagged, ListedBy,
           FlaggedBy
  <2>0. options \in Options /\ rules = Sheet(options)
    BY <1>1 DEF Styled
  <2>1. \A r \in Sheet(options) : r.kind \in Kinds
    BY <2>0, PlacesOfRules
  <2>2. \A r : r \in M <=> /\ r \in Sheet(options)
                          /\ \/ r.kind = "where"
                             \/ r.kind = "has" /\ checked = r.theme
                             \/ r.kind = "attribute" /\ attribute = r.theme
                             \/ r.kind = "dark" /\ dk
    BY <2>0, <2>1 DEF Css!Matching, Css!Matches, Kinds
  <2>3. /\ \A r \in Sheet(options) : r.kind \in {"has", "attribute"} => r.theme \in L
        /\ \A t \in L, k \in {"has", "attribute"} : \E r \in Sheet(options) : r.kind = k /\ r.theme = t
        /\ None \notin L
    BY <2>0, PickableAreListed
  <2> HIDE DEF M, L, F, dk
  <2>7. Css!Shown = IF body \in L THEN body ELSE Css!OnRoot
    BY <2>0, <2>3 DEF Css!Shown
  <2> SUFFICES Css!OnRoot = root
    BY <2>7
  <2>4. CASE checked \in L
    <3>1. \E r \in M : r.kind = "has"
      BY <2>2, <2>3, <2>4
    <3>2. PICK w \in M : w.kind = "has" /\ Css!OnRoot = w.theme
      BY <1>1, <3>1, ShownOfKind DEF Kinds, M
    <3> QED
      BY <2>2, <2>4, <3>2
  <2>5. CASE checked \notin L /\ attribute \in L
    <3>1. \A r \in M : r.kind \in {"where", "attribute"}
      BY <2>2, <2>3, <2>5 DEF dk
    <3>2. \E r \in M : r.kind = "attribute"
      BY <2>2, <2>3, <2>5
    <3>3. PICK w \in M : w.kind = "attribute" /\ Css!OnRoot = w.theme
      BY <1>1, <3>1, <3>2, ShownOfKind DEF Kinds, M
    <3> QED
      BY <2>2, <2>5, <3>3
  <2>6. CASE checked \notin L /\ attribute \notin L
    <3>1. \A r \in M : r.kind = "where" \/ (r.kind = "dark" /\ dk)
      BY <2>2, <2>3, <2>6
    <3>2. CASE dk /\ F("--prefersdark") # None
      <4>1. \E r \in M : r.kind = "dark"
        BY <2>0, <2>2, <3>2, FlaggedIsLast DEF Asked, F
      <4>2. PICK w \in M : /\ w.kind = "dark" /\ Css!OnRoot = w.theme
                            /\ \A r \in M : r.kind = "dark" => Css!Later(w, r)
        BY <1>1, <3>1, <4>1, ShownOfKind DEF Kinds, M
      <4>3. w \in Sheet(options) /\ \A s \in Sheet(options) : s.kind = "dark" => Css!Later(w, s)
        BY <2>2, <3>2, <4>2
      <4>4. w.theme = F("--prefersdark")
        BY <2>0, <4>2, <4>3, FlaggedIsLast DEF Asked, F
      <4> QED
        BY <2>6, <3>2, <4>2, <4>4
    <3>3. CASE ~(dk /\ F("--prefersdark") # None)
      <4>1. \A r \in M : r.kind = "where"
        <5>1. ASSUME NEW r \in M, r.kind = "dark" PROVE FALSE
          <6>1. dk /\ F("--prefersdark") = None
            BY <3>1, <3>3, <5>1
          <6>2. r \in M /\ \E q \in M : q.kind = "dark"
            BY <5>1
          <6>3. PICK w \in M : /\ w.kind = "dark"
                                /\ \A q \in M : q.kind = "dark" => Css!Later(w, q)
            BY <1>1, <3>1, <6>2, ShownOfKind DEF Kinds, M
          <6>4. w \in Sheet(options) /\ \A s \in Sheet(options) : s.kind = "dark" => Css!Later(w, s)
            BY <2>2, <6>1, <6>3
          <6>5. F("--prefersdark") # None
            BY <2>0, <6>3, <6>4, FlaggedIsLast DEF Asked, F
          <6> QED
            BY <6>1, <6>5
        <5> QED
          BY <3>1, <5>1
      <4>2. CASE M = {}
        <5>1. F("--default") = None
          BY <2>0, <2>2, <4>2, FlaggedIsLast DEF Asked, F
        <5>2. Css!OnRoot = None
          BY <4>2 DEF Css!OnRoot, M
        <5> QED
          BY <2>6, <3>3, <5>1, <5>2
      <4>3. CASE M # {}
        <5>1. \E r \in M : r.kind = "where"
          BY <4>1, <4>3
        <5>2. PICK w \in M : /\ w.kind = "where" /\ Css!OnRoot = w.theme
                              /\ \A r \in M : r.kind = "where" => Css!Later(w, r)
          BY <1>1, <4>1, <5>1, ShownOfKind DEF Kinds, M
        <5>3. w \in Sheet(options) /\ \A s \in Sheet(options) : s.kind = "where" => Css!Later(w, s)
          BY <2>2, <5>2
        <5>4. w.theme = F("--default")
          BY <2>0, <5>2, <5>3, FlaggedIsLast DEF Asked, F
        <5> QED
          BY <2>6, <3>3, <5>2, <5>4
      <4> QED
        BY <4>2, <4>3
    <3> QED
      BY <3>2, <3>3
  <2> QED
    BY <2>4, <2>5, <2>6
<1>2. Styled => PageHasItsTheme
  BY <1>1
<1> QED
  BY <1>2, InitStyled, StyledStep, PTL DEF Spec
=============================================================================
