----------------------------- MODULE ScriptBuild -----------------------------
(***************************************************************************)
(* bun.config.js: the scripts of app/javascript bundled into               *)
(* app/assets/builds, once (`bun run build`, in the image) or on every     *)
(* change (`--watch`, Procfile.dev).  The watcher is set up only when the  *)
(* first build is over, and a change starts a build that nobody awaits, so *)
(* that several may run.  Bun, which bundles, and the file system are      *)
(* external: a build reads the sources at some moment and writes the       *)
(* bundle at a later one.                                                  *)
(***************************************************************************)
EXTENDS Integers, FiniteSets

CONSTANTS
    MaxEdits,   \* bound: changes to the sources; version n is the nth
    Broken,     \* versions that do not compile
    None

Versions == 0 .. MaxEdits
Builds == 0 .. MaxEdits     \* 0 is the first, the others are started by events

VARIABLES
    watch,      \* process.argv.includes('--watch')
    rejects,    \* Bun.build rejects on a failure (1.2 and later, the image's
                \* among them), rather than answering success: false
    source,     \* the version in app/javascript
    bundle,     \* the version in app/assets/builds, or None
    process,    \* initial, watching, or how it ended: done, failed
    events,     \* changes fs.watch has yet to report
    building,   \* the builds under way: what each has read, None before
    started,    \* how many have been started
    unseen,     \* history: a change came after the first build had read, and
                \* before the watcher; no build since
    overtaken   \* history: the last build was started beside another

vars == <<watch, rejects, source, bundle, process, events, building, started,
          unseen, overtaken>>
arguments == <<watch, rejects>>

Running == DOMAIN building
Alive == process \in {"initial", "watching"}
Start(b) == [x \in Running \cup {b} |-> IF x = b THEN None ELSE building[x]]
Without(b) == [x \in Running \ {b} |-> building[x]]

Init ==
    /\ watch \in BOOLEAN
    /\ rejects \in BOOLEAN
    /\ source \in Versions
    /\ bundle = None
    /\ process = "initial"
    /\ events = 0
    /\ building = [b \in {0} |-> None]
    /\ started = 1
    /\ unseen = FALSE
    /\ overtaken = FALSE

\* A developer saves a file.  fs.watch will report it if it watches by then.
Edit ==
    /\ watch
    /\ source < MaxEdits
    /\ source' = source + 1
    /\ events' = IF process = "watching" THEN events + 1 ELSE events
    /\ unseen' = (unseen \/ (process = "initial" /\ building[0] # None))
    /\ UNCHANGED <<arguments, bundle, process, building, started, overtaken>>

\* Bun reads the entry point and what it imports.
Read(b) ==
    /\ Alive
    /\ b \in Running
    /\ building[b] = None
    /\ building' = [building EXCEPT ![b] = source]
    /\ UNCHANGED <<arguments, source, bundle, process, events, started, unseen, overtaken>>

\* What a failure does to the process: Bun rejects, or `throw new AggregateError`;
\* in neither case is there anyone to catch it.
Throws == rejects \/ ~watch

\* What follows `await build(config)` in the main function.
AfterFirst(b) == IF b = 0 THEN (IF watch THEN "watching" ELSE "done") ELSE process

\* Bun writes the bundle.
Write(b) ==
    /\ Alive
    /\ b \in Running
    /\ building[b] \in Versions \ Broken
    /\ bundle' = building[b]
    /\ building' = Without(b)
    /\ process' = AfterFirst(b)
    /\ UNCHANGED <<arguments, source, events, started, unseen, overtaken>>

\* It does not compile: the process ends, or logs and goes on.
Fail(b) ==
    /\ Alive
    /\ b \in Running
    /\ building[b] \in Broken
    /\ IF Throws
       THEN /\ process' = "failed"
            /\ building' = [x \in {} |-> None]
       ELSE /\ process' = AfterFirst(b)
            /\ building' = Without(b)
    /\ UNCHANGED <<arguments, source, bundle, events, started, unseen, overtaken>>

\* Mutant: changes are taken up only while nothing is being built.
ReportWhenIdle ==
    /\ process = "watching"
    /\ events > 0
    /\ events' = events - 1
    /\ building' = IF Running = {} THEN Start(started) ELSE building
    /\ started' = IF Running = {} THEN started + 1 ELSE started
    /\ unseen' = FALSE
    /\ overtaken' = FALSE
    /\ UNCHANGED <<arguments, source, bundle, process>>
\* fs.watch calls back: another build, awaited by nobody.
Report ==
    /\ process = "watching"
    /\ events > 0
    /\ events' = events - 1
    /\ building' = Start(started)
    /\ started' = started + 1
    /\ unseen' = FALSE
    /\ overtaken' = (Running # {})
    /\ UNCHANGED <<arguments, source, bundle, process>>

Next ==
    \/ Edit
    \/ Report
    \/ \E b \in Builds : Read(b) \/ Write(b) \/ Fail(b)

Spec == Init /\ [][Next]_vars

-----------------------------------------------------------------------------
\* The bundle is that of the sources as they are: when the process has ended with 0, and
\* when the watcher is at rest and they compile; save for a change that fell between the
\* first build's reading and fs.watch, and for builds that ran beside each other, the
\* last of which to write need not be the last to read.
AtRest ==
    \/ process = "done"
    \/ process = "watching" /\ events = 0 /\ Running = {} /\ source \notin Broken
BundleIsCurrent == AtRest => bundle = source \/ unseen \/ overtaken
===============================================================================
