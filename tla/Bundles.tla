------------------------------- MODULE Bundles -------------------------------
(***************************************************************************)
(* The frontend bundle of one module (src/nam/module_loader.py): the       *)
(* bundle file, the hash file beside it, and the two processes that build. *)
(* The launcher builds at its start and, when the project reloads, watches *)
(* the sources from a thread; the server process, started anew after every *)
(* change of a Python file, rebuilds what it finds stale.  A build hashes  *)
(* the sources, then esbuild reads them, then it writes the bundle, then   *)
(* the hash is recorded: the sources may be edited in between, and nothing *)
(* keeps the two processes apart.  The sources have a new version with     *)
(* every edit; a hash tells versions apart only by their text.             *)
(***************************************************************************)
EXTENDS Naturals

CONSTANTS
  MaxEdits,     \* bound: edits
  Texts,        \* what the versions may contain: functions of 0..MaxEdits
  Reloads,      \* the values of project.reload, one of which BundleInit takes
  MaxFailures,  \* bound: failing builds
  MaxLaunches,  \* bound: how often the program is launched again
  MaxRestarts,  \* bound: how often the server process restarts
  Absent

ASSUME EditsAssumption == MaxEdits \in Nat
ASSUME TextsAssumption == \A t \in Texts : DOMAIN t = 0..MaxEdits
ASSUME AbsentAssumption == Absent \notin 0..MaxEdits
ASSUME ReloadsAssumption == Reloads \subseteq BOOLEAN

Versions == 0..MaxEdits
Builders == {"launcher", "server"}

VARIABLES
  reload,     \* project.reload: the launcher watches and the server restarts
  text,       \* what each version contains
  edits,      \* the version of the frontend sources
  bundle,     \* the version out_file was bundled from
  recorded,   \* the version hash_file holds the hash of
  known,      \* the version the watcher's source_hash is of
  attempted,  \* the version the watcher last went to build (history)
  doing,      \* what each process does: "start", "poll", "server" or nothing
  pc,         \* how far it is
  hashed,     \* the version its current_hash is of
  read,       \* the version esbuild has read
  beside,     \* the processes whose last build ran beside another's (history)
  mixed,      \* such a build has written the bundle, and no build that ran
              \* by itself has been recorded since (history)
  missed,     \* the build at the start failed, and none has gone well since
              \* (history)
  failures,
  launches,
  restarts

bundleVars == <<reload, text, edits, bundle, recorded, known, attempted, doing, pc, hashed,
                read, beside, mixed, missed, failures, launches, restarts>>
given == <<reload, text>>
files == <<bundle, recorded>>
watched == <<known, attempted>>
overlaps == <<beside, mixed>>
bounds == <<failures, launches, restarts>>

MaybeVersion == Versions \cup {Absent}

BundleTypeOK ==
  /\ reload \in Reloads /\ text \in Texts
  /\ edits \in Versions
  /\ bundle \in MaybeVersion /\ recorded \in MaybeVersion
  /\ known \in MaybeVersion /\ attempted \in MaybeVersion
  /\ doing \in [Builders -> {"start", "poll", "server", "nothing"}]
  /\ pc \in [Builders -> {"idle", "hashing", "comparing", "reading", "writing",
                          "recording"}]
  /\ hashed \in [Builders -> MaybeVersion]
  /\ read \in [Builders -> MaybeVersion]
  /\ beside \subseteq Builders /\ mixed \in BOOLEAN /\ missed \in BOOLEAN
  /\ failures \in 0..MaxFailures
  /\ launches \in 0..MaxLaunches /\ restarts \in 0..MaxRestarts

Nothing == [b \in Builders |-> Absent]

\* The launcher builds before anything else.
AtLaunch(starting, other) ==
  [b \in Builders |-> IF b = "launcher" THEN starting ELSE other]

BundleInit ==
  /\ reload \in Reloads /\ text \in Texts
  /\ edits = 0
  /\ bundle = Absent /\ recorded = Absent
  /\ doing = AtLaunch("start", "nothing") /\ pc = AtLaunch("hashing", "idle")
  /\ hashed = Nothing /\ read = Nothing /\ known = Absent /\ attempted = Absent
  /\ beside = {} /\ mixed = FALSE /\ missed = FALSE
  /\ failures = 0 /\ launches = 0 /\ restarts = 0

-----------------------------------------------------------------------------

\* Somebody edits the sources.
Edit ==
  /\ edits < MaxEdits
  /\ edits' = edits + 1
  /\ UNCHANGED <<given, files, watched, doing, pc, hashed, read, overlaps, missed, bounds>>

\* The program is ended, or killed, wherever it is, and launched again.
Relaunch ==
  /\ launches < MaxLaunches
  /\ launches' = launches + 1
  /\ doing' = AtLaunch("start", "nothing") /\ pc' = AtLaunch("hashing", "idle")
  /\ hashed' = Nothing /\ read' = Nothing /\ known' = Absent /\ attempted' = Absent
  /\ beside' = {} /\ missed' = FALSE
  /\ restarts' = 0
  /\ UNCHANGED <<given, edits, files, mixed, failures>>

Idle(b) == pc[b] = "idle"

Started == doing["launcher"] # "start"

Begins(b, what) ==
  /\ Started
  /\ doing' = [doing EXCEPT ![b] = what]
  /\ pc' = [pc EXCEPT ![b] = "hashing"]
  /\ UNCHANGED <<given, edits, files, watched, hashed, read, overlaps, missed, failures,
                 launches>>

\* supervise_watch: one poll.
Poll == reload /\ Idle("launcher") /\ Begins("launcher", "poll") /\ UNCHANGED restarts

\* rebuild_stale_bundles, when the server process starts; without reload it does
\* so once.  A server that starts anew may have been ended while it was building.
ServerStarts ==
  /\ restarts < (IF reload THEN MaxRestarts ELSE 1)
  /\ Begins("server", "server")
  /\ restarts' = restarts + 1

-----------------------------------------------------------------------------

\* hash_frontend_sources
Hashes(b) ==
  /\ pc[b] = "hashing"
  /\ hashed' = [hashed EXCEPT ![b] = edits]
  /\ pc' = [pc EXCEPT ![b] = "comparing"]
  /\ UNCHANGED <<given, edits, files, watched, doing, read, overlaps, missed, bounds>>

\* Whether a file or a variable holds the hash of what is in version v.
HoldsHash(held, v) == held # Absent /\ text[held] = text[v]

\* The watcher compares with the hash it knows, build_if_changed with the
\* recorded one and only if there is a bundle.
UpToDate(b) ==
  IF doing[b] = "poll" THEN HoldsHash(known, hashed[b])
  ELSE bundle # Absent /\ HoldsHash(recorded, hashed[b])

\* It is done: with a build at the start the launcher knows the hash, whether
\* or not the build went well.
Ends(b) ==
  /\ pc' = [pc EXCEPT ![b] = "idle"]
  /\ doing' = [doing EXCEPT ![b] = "nothing"]
  /\ known' = IF doing[b] = "start" THEN hashed[b] ELSE known

SkipsBuild(b) ==
  /\ pc[b] = "comparing" /\ UpToDate(b)
  /\ Ends(b)
  /\ UNCHANGED <<given, edits, files, attempted, hashed, read, overlaps, missed, bounds>>

\* The processes that are in a build.
Building == {b \in Builders : pc[b] \in {"reading", "writing", "recording"}}

Rebuilds(b) ==
  /\ pc[b] = "comparing" /\ ~UpToDate(b)
  /\ pc' = [pc EXCEPT ![b] = "reading"]
  /\ attempted' = IF doing[b] = "server" THEN attempted ELSE hashed[b]
  /\ beside' = IF Building = {} THEN beside \ {b} ELSE beside \cup Building \cup {b}
  /\ UNCHANGED <<given, edits, files, known, doing, hashed, read, mixed, missed, bounds>>

\* run_build: esbuild reads the sources as they are by now ...
Reads(b) ==
  /\ pc[b] = "reading"
  /\ read' = [read EXCEPT ![b] = edits]
  /\ pc' = [pc EXCEPT ![b] = "writing"]
  /\ UNCHANGED <<given, edits, files, watched, doing, hashed, overlaps, missed, bounds>>

\* ... and writes the bundle.
Writes(b) ==
  /\ pc[b] = "writing"
  /\ bundle' = read[b]
  /\ mixed' = (mixed \/ b \in beside)
  /\ pc' = [pc EXCEPT ![b] = "recording"]
  /\ UNCHANGED <<given, edits, recorded, watched, doing, hashed, read, beside, missed, bounds>>

\* Slip: the watcher knows the hash although the build failed.
FailsKnowing(b) ==
  /\ pc[b] = "writing" /\ failures < MaxFailures
  /\ failures' = failures + 1
  /\ pc' = [pc EXCEPT ![b] = "idle"]
  /\ doing' = [doing EXCEPT ![b] = "nothing"]
  /\ known' = IF b = "launcher" THEN hashed[b] ELSE known
  /\ missed' = (missed \/ doing[b] = "start")
  /\ UNCHANGED <<given, edits, files, attempted, hashed, read, overlaps, launches, restarts>>

\* A build that fails leaves both files and, in a poll, the known hash alone.
Fails(b) ==
  /\ pc[b] = "writing" /\ failures < MaxFailures
  /\ failures' = failures + 1
  /\ Ends(b)
  /\ missed' = (missed \/ doing[b] = "start")
  /\ UNCHANGED <<given, edits, files, attempted, hashed, read, overlaps, launches, restarts>>

\* Slip: the sources are hashed again once the bundle is written.
RecordsNow(b) ==
  /\ pc[b] = "recording"
  /\ recorded' = edits
  /\ pc' = [pc EXCEPT ![b] = "idle"]
  /\ doing' = [doing EXCEPT ![b] = "nothing"]
  /\ known' = IF b = "launcher" THEN hashed[b] ELSE known
  /\ mixed' = (mixed /\ b \in beside)
  /\ missed' = FALSE
  /\ UNCHANGED <<given, edits, bundle, attempted, hashed, read, beside, bounds>>

Records(b) ==
  /\ pc[b] = "recording"
  /\ recorded' = hashed[b]
  /\ pc' = [pc EXCEPT ![b] = "idle"]
  /\ doing' = [doing EXCEPT ![b] = "nothing"]
  /\ known' = IF b = "launcher" THEN hashed[b] ELSE known
  /\ mixed' = (mixed /\ b \in beside)
  /\ missed' = FALSE
  /\ UNCHANGED <<given, edits, bundle, attempted, hashed, read, beside, bounds>>

-----------------------------------------------------------------------------

Continue(b) ==
  Hashes(b) \/ SkipsBuild(b) \/ Rebuilds(b) \/ Reads(b) \/ Writes(b) \/ Records(b)

BundleNext ==
  \/ Edit \/ Relaunch \/ Poll \/ ServerStarts
  \/ \E b \in Builders : Continue(b) \/ Fails(b)

\* The watcher polls and what was begun goes on; no build needs to fail.
BundleFairness == SF_bundleVars(Poll) /\ \A b \in Builders : WF_bundleVars(Continue(b))

BundleSpec == BundleInit /\ [][BundleNext]_bundleVars /\ BundleFairness

-----------------------------------------------------------------------------
(* Correctness *)

\* The recorded hash never stands for newer sources than those in the bundle, at
\* any point where a build may fail or the program be killed: what is reused later is not
\* older than what it is taken for (module_loader.py:88-100, 115-123).  It is so unless
\* the bundle was written by a build that ran beside that of the other process, which
\* nothing prevents, and none that ran by itself has been recorded since.
RecordedNotAhead ==
  ~mixed => (recorded # Absent => bundle # Absent /\ recorded <= bundle)

\* No edit brings an earlier text back.
NoReverts == \A v, w \in Versions : text[v] = text[w] => v = w

\* With reload and no reverts, once the edits are over the bundle is, and stays, that of
\* the final sources, through failing rebuilds, server restarts and relaunches
\* (module_loader.py:112-123, 137-138, 169-180), or else one of two things has been and
\* no build has made it good: builds of both processes ran at once, or the build at the
\* start failed, whose hash the watcher takes for built all the same.
BundleConverges == reload /\ NoReverts => <>[](bundle = edits \/ mixed \/ missed)

-----------------------------------------------------------------------------
(* What would be expected, and the code does not do *)

\* RecordedNotAhead, whichever builds run at once.
NeverAhead == recorded # Absent => bundle # Absent /\ recorded <= bundle

\* BundleConverges, whatever is edited, fails and runs at once.
AlwaysConverges == reload => <>[](bundle # Absent /\ text[bundle] = text[edits])

\* What docs/feature_reload.md says: an existing bundle is reused if its sources
\* have not changed since it was built.
ReusedIsCurrent ==
  \A b \in Builders :
    pc[b] = "comparing" /\ doing[b] # "poll" /\ UpToDate(b) /\ text[hashed[b]] = text[edits]
      => text[bundle] = text[edits]

\* What docs/feature_reload.md says of the watcher: a rebuild only runs when the
\* hash changes.
RebuildsOnlyChanges ==
  [][\A b \in Builders :
       doing[b] = "poll" /\ pc[b] = "comparing" /\ pc'[b] = "reading"
         => ~HoldsHash(attempted, hashed[b])]_bundleVars

=============================================================================
