-------------------------------- MODULE Assets --------------------------------
(***************************************************************************)
(* What bin/dev builds beside the server (Procfile.dev): the scripts and   *)
(* the style sheet, by two processes that share nothing.                   *)
(***************************************************************************)
EXTENDS Integers, Sequences

CONSTANTS MaxEdits, Broken, Themes, Custom, Options, Layouts, None

\* The versions of the sources are numbers, and a build that has read none is none.
ASSUME EditsBound == MaxEdits \in Nat
ASSUME BrokenAreVersions == Broken \subseteq 0 .. MaxEdits
ASSUME NoneIsNoVersion == None \notin 0 .. MaxEdits

\* The themes and their options: names of themes that daisyUI has, among them light and
\* dark, and none of them None.
ASSUME ThemesAreListed == Themes = [i \in 1 .. Len(Themes) |-> Themes[i]] /\ Len(Themes) \in Nat
ASSUME LightAndDark == {"light", "dark"} \subseteq {Themes[i] : i \in 1 .. Len(Themes)}
ASSUME OptionsOfThemes ==
    \A o \in Options :
        /\ o.all \in BOOLEAN /\ o.custom \subseteq {"--default", "--prefersdark"}
        /\ o.themes \in Seq([name : {Themes[i] : i \in 1 .. Len(Themes)},
                              flags : SUBSET {"--default", "--prefersdark"}])
ASSUME NoneIsNoTheme == None \notin {Themes[i] : i \in 1 .. Len(Themes)} \cup {Custom}

VARIABLES
    watch, rejects, source, bundle, process, events, building, started,
    unseen, overtaken,
    options, rules, emitted, dark, checked, attribute, body

Js  == INSTANCE ScriptBuild
Css == INSTANCE Theme

scripts == <<watch, rejects, source, bundle, process, events, building, started,
             unseen, overtaken>>
styles == <<options, rules, emitted, dark, checked, attribute, body>>
vars == <<watch, rejects, source, bundle, process, events, building, started,
          unseen, overtaken, options, rules, emitted, dark, checked, attribute, body>>

Init == Js!Init /\ Css!Init

Next ==
    \/ Js!Next /\ UNCHANGED styles
    \/ Css!Next /\ UNCHANGED scripts

Spec == Init /\ [][Next]_vars

-----------------------------------------------------------------------------
\* bun.config.js: the bundle is that of the sources, but for the windows ScriptBuild
\* names, and a build that ends with 0 has made one.
BundleIsCurrent == Js!BundleIsCurrent

\* daisyui.mjs, daisyui-theme.mjs, application.html.erb:31: the content of a page has the
\* theme its body names, or else the one the options of the plugins ask for.
PageHasItsTheme == Css!PageHasItsTheme
===============================================================================
