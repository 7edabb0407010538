-------------------------------- MODULE Theme --------------------------------
(***************************************************************************)
(* The colours of a page: the rules app/assets/tailwind/daisyui.mjs and    *)
(* daisyui-theme.mjs add to the base layer for the options of              *)
(* application.tailwind.css, and which of them wins.  The plugins only     *)
(* emit rules; the cascade of CSS, which is external, decides by           *)
(* specificity, then by order, on the root element and on the body, where  *)
(* a layout of the application names a theme.                              *)
(***************************************************************************)
EXTENDS Integers, Sequences

CONSTANTS
    Themes,     \* the themes daisyUI comes with, in the order of themeOrder.js
    Custom,     \* the theme of daisyui-theme.mjs
    Options,    \* what the stylesheet may give the two plugins
    Layouts,    \* data-theme of the body in each layout, or None
    None

\* Options are a record: all, for `themes: all`, or else themes, a sequence of names
\* with their flags (`light --default, dark --prefersdark` when none is given); and
\* custom, the flags of the second plugin.
Flags == {"--default", "--prefersdark"}

VARIABLES
    options,    \* of this build
    rules,      \* what has been added to the base layer so far
    emitted,    \* the plugins that have run: 0, 1, 2
    dark,       \* prefers-color-scheme: dark
    checked,    \* the theme of the theme-controller that is checked, or None
    attribute,  \* data-theme of the root element, or None
    body        \* data-theme of the body of the page shown, or None

vars == <<options, rules, emitted, dark, checked, attribute, body>>

\* A rule: the part of a selector list that is of this kind, its theme, and the place of
\* the call of addBase: the loop, and which of the themes it was at.
addBase(selector, theme, loop, nth) ==
    {[kind |-> kind, theme |-> theme, loop |-> loop, nth |-> nth] : kind \in selector}

-----------------------------------------------------------------------------
\* pluginOptionsHandler

\* Mutant: the default theme is given to ${root} itself, and not to :where(${root}).
OfRoot == "root"
OfWhereRoot == "where"

\* The selector of a theme: the root by default, the root with the theme's controller
\* checked, whatever carries the attribute.
Selector(flags) ==
    (IF "--default" \in flags THEN {OfWhereRoot} ELSE {}) \cup {"has", "attribute"}

\* @media (prefers-color-scheme: dark) { :root:not([data-theme]) }
DarkSelector == {"dark"}

applyTheme(theme, flags, loop, nth) ==
    addBase(Selector(flags), theme, loop, nth)
        \cup IF "--prefersdark" \in flags THEN addBase(DarkSelector, theme, loop, nth) ELSE {}

flagged(o, flag) == {i \in DOMAIN o.themes : flag \in o.themes[i].flags}

\* Each loop goes over the themes that are flagged for it.
pluginOptionsHandler(o) ==
    LET name(i) == o.themes[i].name
        defaults == UNION {applyTheme(name(i), {"--default"}, 1, i) : i \in flagged(o, "--default")}
        darks == UNION {addBase(DarkSelector, name(i), 2, i) : i \in flagged(o, "--prefersdark")}
        plain == UNION {applyTheme(name(i), {}, 3, i) : i \in DOMAIN o.themes}
        every == UNION {applyTheme(Themes[i], {}, 3, i) : i \in DOMAIN Themes}
    IN  IF o.all
        THEN applyTheme("light", {"--default"}, 1, 0) \cup addBase(DarkSelector, "dark", 2, 0) \cup every
        ELSE IF Len(o.themes) = 1 /\ flagged(o, "--default") # {}
        THEN applyTheme(name(1), o.themes[1].flags, 1, 1)
        ELSE defaults \cup darks \cup plain

\* daisyui-theme.mjs: the preference first, then the theme.
theme_default(o) ==
    (IF "--prefersdark" \in o.custom THEN addBase(DarkSelector, Custom, 4, 0) ELSE {})
        \cup addBase(Selector(o.custom), Custom, 5, 0)

-----------------------------------------------------------------------------
\* The cascade, on the root element: which rules match it, how specific their
\* selectors are, and the last of the most specific that matches.

Matches(r) ==
    CASE r.kind \in {"where", "root"} -> TRUE
      [] r.kind = "has"       -> checked = r.theme
      [] r.kind = "attribute" -> attribute = r.theme
      [] r.kind = "dark"      -> dark /\ attribute = None

Specificity(r) ==
    CASE r.kind = "where" -> 0
      [] r.kind \in {"root", "attribute"} -> 1
      [] r.kind = "dark" -> 2
      [] r.kind = "has" -> 4

Matching == {r \in rules : Matches(r)}
Later(r, s) == r.loop > s.loop \/ (r.loop = s.loop /\ r.nth >= s.nth)
Beats(r, s) ==
    \/ Specificity(r) > Specificity(s)
    \/ Specificity(r) = Specificity(s) /\ Later(r, s)
OnRoot ==
    IF Matching = {} THEN None
    ELSE (CHOOSE r \in Matching : \A s \in Matching : Beats(r, s)).theme

\* The other selectors are of the root: of the rules only those for its own attribute
\* match the body, all of one theme, and hide what the content of the page would inherit
\* from the root.
Shown ==
    IF \E r \in rules : r.kind = "attribute" /\ r.theme = body THEN body ELSE OnRoot

-----------------------------------------------------------------------------
BuiltIn == {Themes[i] : i \in DOMAIN Themes}
Names == BuiltIn \cup {Custom}

Init ==
    /\ options \in Options
    /\ rules = {}
    /\ emitted = 0
    /\ dark \in BOOLEAN
    /\ checked = None
    /\ attribute = None
    /\ body \in Layouts

\* The style sheet is built: @plugin daisyui, then @plugin daisyui-theme.
Emit ==
    /\ emitted < 2
    /\ emitted' = emitted + 1
    /\ rules' = rules \cup IF emitted = 0 THEN pluginOptionsHandler(options)
                                           ELSE theme_default(options)
    /\ UNCHANGED <<options, dark, checked, attribute, body>>

\* The system turns dark or light.
Prefer ==
    /\ emitted = 2
    /\ dark' = ~dark
    /\ UNCHANGED <<options, rules, emitted, checked, attribute, body>>

\* A theme-controller is checked or unchecked; a script sets or removes data-theme.
Pick(theme) ==
    /\ emitted = 2
    /\ checked' = theme
    /\ UNCHANGED <<options, rules, emitted, dark, attribute, body>>

SetAttribute(theme) ==
    /\ emitted = 2
    /\ attribute' = theme
    /\ UNCHANGED <<options, rules, emitted, dark, checked, body>>

\* Turbo shows a page of another layout: the body is replaced, the root stays.
Visit(theme) ==
    /\ emitted = 2
    /\ body' = theme
    /\ UNCHANGED <<options, rules, emitted, dark, checked, attribute>>

Next ==
    \/ Emit
    \/ Prefer
    \/ \E theme \in Names \cup {None} : Pick(theme) \/ SetAttribute(theme)
    \/ \E theme \in Layouts : Visit(theme)

Spec == Init /\ [][Next]_vars

-----------------------------------------------------------------------------
\* What the options ask for.  The second plugin has the last word.
LastOf(S) == CHOOSE i \in S : \A j \in S : i >= j
Flagged(flag) ==
    IF flag \in options.custom THEN Custom
    ELSE IF options.all THEN (IF flag = "--default" THEN "light" ELSE "dark")
    ELSE LET those == flagged(options, flag)
         IN  IF those = {} THEN None ELSE options.themes[LastOf(those)].name

Listed ==
    {Custom} \cup IF options.all THEN BuiltIn
                  ELSE {options.themes[i].name : i \in DOMAIN options.themes}

\* The content of a page has the theme its body names.  Where it names none, that of the
\* controller that is checked; else the one the root names; else, where the system prefers
\* dark, the one flagged for that; else the default.  A theme the options do not list
\* counts for nothing, except that a root that names one is not given the dark theme.
PageHasItsTheme ==
    emitted = 2 =>
        Shown = IF body \in Listed THEN body
                ELSE IF checked \in Listed THEN checked
                ELSE IF attribute \in Listed THEN attribute
                ELSE IF dark /\ attribute = None /\ Flagged("--prefersdark") # None
                THEN Flagged("--prefersdark")
                ELSE Flagged("--default")
===============================================================================
