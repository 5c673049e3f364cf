---------------------------- MODULE ProjectProofs ----------------------------
(***************************************************************************)
(* Proofs about the processes of a project: the frontend bundles that two  *)
(* of them build (module Bundles), the builds among which the modules are  *)
(* sharded (module Shards), and the data directory that they copy (module  *)
(* DataSync), for any contents, edits and failures, any modules, builds,   *)
(* requests and crashes, and any tree of files.                            *)
(*                                                                         *)
(* Of a bundle, versions only get newer from the hash to what is read and  *)
(* to what is written, by a process whose build runs beside no other.  One *)
(* that runs beside another is known for it before either writes (Apart),  *)
(* and from then on, until a build that ran by itself is recorded, nothing *)
(* is said of the files (FilesFit).                                        *)
(*                                                                         *)
(* Of a sharded project, Fit says what a build has when it has taken up    *)
(* some of the modules, each of them in its turn: a build that is up has   *)
(* the routes of all modules in the order of all builds, but for those     *)
(* whose import failed.  Apt says what is then true of a request, wherever *)
(* it has gone.                                                            *)
(*                                                                         *)
(* Of the data directory, a path is good if it is as the source has it, or *)
(* will be when a copy that is under way ends.  While nobody else changes  *)
(* a tree, whatever a loop of sync_data_directory has been through is good *)
(* (LoopInv, VisitedInv): the first loop leaves nothing wrong, the second  *)
(* all good, and no other sync spoils it (StableInv).  So all is good when *)
(* a build starts to run, and the same when no copy is left (RunningInv).  *)
(* A sync that is by itself fails at nothing: AloneInv says that what it   *)
(* removes is all there, and where it copies is nothing.                   *)
(***************************************************************************)
EXTENDS Bundles, Shards, DataSync, SequenceTheorems, WellFoundedInduction, TLAPS

-----------------------------------------------------------------------------
(* Bundles *)

Stages == {"idle", "hashing", "comparing", "reading", "writing", "recording"}

FilesTyped ==
  /\ edits \in Versions
  /\ bundle \in MaybeVersion /\ recorded \in MaybeVersion
  /\ pc \in [Builders -> Stages]
  /\ hashed \in [Builders -> MaybeVersion]
  /\ read \in [Builders -> MaybeVersion]
  /\ beside \subseteq Builders /\ mixed \in BOOLEAN

\* Builds that run at once are known to.
Apart == \A b, c \in Building : b # c => b \in beside

\* From the hash to what is read, versions only get newer, ...
InOrder(b) ==
  /\ pc[b] \in {"comparing", "reading", "writing", "recording"} =>
       hashed[b] \in Versions /\ hashed[b] <= edits
  /\ pc[b] = "writing" => read[b] \in Versions /\ hashed[b] <= read[b] /\ read[b] <= edits

\* ... and from there to the bundle, and so does what is recorded, if no other builds.
InPlace(b) ==
  /\ pc[b] = "writing" /\ b \notin beside => recorded = Absent \/ recorded <= read[b]
  /\ pc[b] = "recording" /\ (~mixed \/ b \notin beside) =>
       bundle # Absent /\ hashed[b] <= bundle

FilesFit ==
  /\ bundle # Absent => bundle <= edits
  /\ recorded # Absent => recorded <= edits
  /\ RecordedNotAhead

FilesInv ==
  /\ FilesTyped /\ Apart /\ FilesFit
  /\ \A b \in Builders : InOrder(b) /\ InPlace(b)

LEMMA FilesInit == BundleInit => FilesInv
<1> SUFFICES ASSUME BundleInit PROVE FilesInv
  OBVIOUS
<1>1. \A b \in Builders : pc[b] \in {"idle", "hashing"}
  BY DEF BundleInit, AtLaunch, Builders
<1>2. pc \in [Builders -> Stages]
  BY DEF BundleInit, AtLaunch, Stages
<1>3. hashed \in [Builders -> MaybeVersion] /\ read \in [Builders -> MaybeVersion]
  BY DEF BundleInit, Nothing, MaybeVersion
<1>4. edits \in Versions /\ bundle \in MaybeVersion /\ recorded \in MaybeVersion
  BY EditsAssumption DEF BundleInit, Versions, MaybeVersion
<1>5. beside \subseteq Builders /\ mixed \in BOOLEAN
  BY DEF BundleInit
<1>6. Apart /\ \A b \in Builders : InOrder(b) /\ InPlace(b)
  BY <1>1 DEF Apart, Building, InOrder, InPlace
<1>7. FilesFit
  BY DEF BundleInit, FilesFit, RecordedNotAhead
<1> QED  BY <1>2, <1>3, <1>4, <1>5, <1>6, <1>7 DEF FilesInv, FilesTyped

LEMMA FilesNext ==
  ASSUME FilesInv, [BundleNext]_bundleVars
  PROVE  FilesInv'
<1> USE AbsentAssumption, EditsAssumption
    DEF FilesInv, FilesTyped, FilesFit, Apart, Building, InOrder, InPlace, RecordedNotAhead,
        Versions, MaybeVersion, Stages
<1> USE DEF given, files, watched, overlaps, bounds
<1>1. CASE Edit
  BY <1>1 DEF Edit
<1>2. CASE Relaunch
  BY <1>2 DEF Relaunch, AtLaunch, Nothing, Builders
<1>3. ASSUME NEW b \in Builders, NEW what, Begins(b, what) PROVE FilesInv'
  BY <1>3 DEF Begins
<1>4. ASSUME NEW b \in Builders, Continue(b) \/ Fails(b) PROVE FilesInv'
  <2>1. CASE Hashes(b)
    BY <2>1 DEF Hashes
  <2>2. CASE SkipsBuild(b)
    BY <2>2 DEF SkipsBuild, Ends
  <2>3. CASE Rebuilds(b)
    BY <2>3 DEF Rebuilds
  <2>4. CASE Reads(b)
    BY <2>4 DEF Reads
  <2>5. CASE Writes(b)
    BY <2>5 DEF Writes
  <2>6. CASE Records(b)
    BY <2>6 DEF Records
  <2>7. CASE Fails(b)
    BY <2>7 DEF Fails, Ends
  <2> QED  BY <1>4, <2>1, <2>2, <2>3, <2>4, <2>5, <2>6, <2>7 DEF Continue
<1>5. CASE UNCHANGED bundleVars
  BY <1>5 DEF bundleVars
<1>6. Poll => Begins("launcher", "poll")
  BY DEF Poll
<1>7. ServerStarts => Begins("server", "server")
  BY DEF ServerStarts
<1>8. "launcher" \in Builders /\ "server" \in Builders
  BY DEF Builders
<1> QED  BY <1>1, <1>2, <1>3, <1>4, <1>5, <1>6, <1>7, <1>8 DEF BundleNext

\* A bundle that is reused is no older than what its hash says, wherever a build failed and
\* the program was killed before: the hash file is written last, and stands for a version
\* that was there before esbuild read one (module_loader.py:88-100, 115-123).  Nothing is
\* assumed of edits and of who builds when; what the property leaves out is a bundle that
\* builds of both processes have written at once, until one by itself is recorded.
THEOREM HashNeverAhead == BundleSpec => []RecordedNotAhead
<1>1. FilesInv /\ [BundleNext]_bundleVars => FilesInv'
  BY FilesNext
<1>2. FilesInv => RecordedNotAhead
  BY DEF FilesInv, FilesFit
<1> QED  BY <1>1, <1>2, FilesInit, PTL DEF BundleSpec

-----------------------------------------------------------------------------
(* Builds *)

Servers ==
  [phase : {"down", "loading", "up", "refused"}, left : SUBSET Modules,
   claimed : SUBSET Paths, pages : SUBSET Modules, nav : Seq(Modules),
   routes : Seq([module : Modules, paths : SUBSET Paths, proxy : BOOLEAN])]

\* The modules that a build has loaded, or tried to, and those of them whose routes.py
\* can be parsed.
Done(s) == Modules \ s.left
Sound(s) == Done(s) \ setup.unparsable

\* It takes them in the order of all builds.
InTurn(s) ==
  /\ \A m \in Done(s), n \in s.left : Precedes(m, n)
  /\ s.phase = "up" => s.left = {}

\* The paths it knows to be taken are those of all sound modules, and each has its own.
Claims(s) ==
  /\ s.claimed = UNION {Declared(m) : m \in Sound(s)}
  /\ \A m, n \in Sound(s) : m # n => Declared(m) \cap Declared(n) = {}
  /\ \A m \in Sound(s) : \A i, j \in 1..Len(setup.declares[m]) :
       i < j => setup.declares[m][i] # setup.declares[m][j]

PathsOf(b, m) == IF Included(b, m) THEN setup.serves[m] ELSE Declared(m)

\* Its routes are in the order of their modules.
Ordered(b, s) ==
  /\ \A i \in 1..Len(s.routes) :
       /\ s.routes[i].module \in Sound(s)
       /\ s.routes[i].paths = PathsOf(b, s.routes[i].module)
       /\ s.routes[i].proxy = ~Included(b, s.routes[i].module)
  /\ \A i, j \in 1..Len(s.routes) :
       i < j => Precedes(s.routes[i].module, s.routes[j].module)

\* A sound module that has no routes here could not be imported.
Complete(b, s) ==
  \A m \in Sound(s) :
    \/ \E i \in 1..Len(s.routes) : s.routes[i].module = m
    \/ Included(b, m) /\ m \in setup.fragile

\* All it has taken up are listed, and those it includes have a page.
Paged(b, s) ==
  /\ \A i \in 1..Len(s.nav) : s.nav[i] \in Done(s)
  /\ \A m \in Done(s) : \E i \in 1..Len(s.nav) : s.nav[i] = m
  /\ s.pages = {m \in Done(s) : Included(b, m)}

Fit(b, s) ==
  /\ s.phase \in {"loading", "up"} =>
       InTurn(s) /\ Claims(s) /\ Ordered(b, s) /\ Complete(b, s) /\ Paged(b, s)
  /\ s.phase = "refused" => ~Disjoint

BuildInv == \A b \in Builds : Fit(b, server[b])

-----------------------------------------------------------------------------
(* Requests *)

\* Who answers r where just the modules M answer.
Due(r) == {AnswerOf(r, Parsable \ F) : F \in SUBSET setup.fragile}

\* What a router has, its syntax tree shows.
Shown == \A m \in Parsable : setup.serves[m] \subseteq Declared(m)

\* r waits for builds that are up, and has no reply that the whole project would not
\* give.  Where it was forwarded to, it is for a module of that build.
Apt(r, hops, reply) ==
  /\ \A i \in 1..Len(hops) : Up(hops[i])
  /\ Shown => reply \in Due(r) \cup {None, Failed}
  /\ Discoverable /\ Direct /\ setup.fragile = {} =>
       /\ Len(hops) <= 2
       /\ Len(hops) = 2 /\ reply = None =>
            /\ Owners(r, Parsable) # {}
            /\ Included(hops[2], First(Owners(r, Parsable)))

RequestInv == \A r \in Requests : Apt(r, request[r].hops, request[r].reply)

ShardsInv == TypeOK /\ BuildInv /\ RequestInv

-----------------------------------------------------------------------------
(* The order of modules *)

LEMMA Least ==
  ASSUME NEW T \in SUBSET Nat, T # {}
  PROVE  \E x \in T : \A y \in T : x <= y
<1> DEFINE R == OpToRel(<, Nat)
<1>1. IsWellFoundedOn(R, Nat)
  BY NatLessThanWellFounded
<1>2. \A x, y \in Nat : <<y, x>> \in R <=> y < x
  BY DEF OpToRel
<1> HIDE DEF R
<1>3. PICK x \in T : \A y \in T : ~ (<<y, x>> \in R)
  BY <1>1, WFMin
<1>4. \A y \in T : ~ (y < x)
  BY <1>2, <1>3
<1>5. \A y \in T : x <= y
  BY <1>4
<1> QED  BY <1>5

LEMMA SetupFacts ==
  ASSUME setup \in Setups
  PROVE  /\ setup.type \in [Modules -> Types]
         /\ setup.declares \in [Modules -> Seq(Paths)]
         /\ setup.serves \in [Modules -> SUBSET Paths]
         /\ setup.unparsable \subseteq Modules /\ setup.fragile \subseteq Modules
         /\ setup.include \in [Builds -> SUBSET Modules]
         /\ setup.address \in [Builds -> [Modules -> Builds \cup {None}]]
         /\ setup.matches \in [Requests -> SUBSET Paths]
         /\ \A m \in Modules : Declared(m) \subseteq Paths
<1>1. ASSUME NEW m \in Modules PROVE Declared(m) \subseteq Paths
  BY SetupsAssumption DEF Declared
<1> QED  BY <1>1, SetupsAssumption

LEMMA PriorityIs ==
  ASSUME NEW type \in Types
  PROVE  Priority(type) \in 0..3
  BY DEF Priority, Types

LEMMA PrecedesOrders ==
  ASSUME setup \in Setups
  PROVE  /\ \A m, n \in Modules : ~(Precedes(m, n) /\ Precedes(n, m))
         /\ \A m, n \in Modules : m # n => Precedes(m, n) \/ Precedes(n, m)
         /\ \A m, n, k \in Modules : Precedes(m, n) /\ Precedes(n, k) => Precedes(m, k)
<1>1. \A m \in Modules : m \in Nat /\ Priority(setup.type[m]) \in Nat
  BY SetupFacts, PriorityIs, ModulesAssumption
<1> QED  BY <1>1 DEF Precedes

LEMMA FirstExists ==
  ASSUME setup \in Setups, NEW M \in SUBSET Modules, M # {}
  PROVE  /\ First(M) \in M
         /\ \A n \in M : n # First(M) => Precedes(First(M), n)
<1> DEFINE P == {Priority(setup.type[m]) : m \in M}
<1>1. \A m \in M : m \in Nat /\ Priority(setup.type[m]) \in Nat
  BY SetupFacts, PriorityIs, ModulesAssumption
<1>2. PICK p \in P : \A q \in P : p <= q
  <2>1. P \in SUBSET Nat /\ P # {}
    BY <1>1
  <2> QED  BY <2>1, Least
<1> DEFINE N == {m \in M : Priority(setup.type[m]) = p}
<1>3. N \in SUBSET Nat /\ N # {}
  BY <1>1, <1>2
<1>4. PICK m \in N : \A n \in N : m <= n
  BY <1>3, Least
<1>5. ASSUME NEW n \in M \ {m} PROVE Precedes(m, n)
  <2>1. Priority(setup.type[m]) = p /\ Priority(setup.type[n]) \in P
    BY <1>4
  <2>2. p <= Priority(setup.type[n])
    BY <1>2, <2>1
  <2>3. CASE Priority(setup.type[n]) = p
    <3>1. m <= n /\ m \in Nat /\ n \in Nat
      BY <1>1, <1>4, <2>3
    <3>2. m < n
      BY <1>5, <3>1
    <3> QED  BY <2>1, <2>3, <3>2 DEF Precedes
  <2>4. CASE Priority(setup.type[n]) # p
    <3>1. p \in Nat /\ Priority(setup.type[n]) \in Nat
      BY <1>1, <1>2
    <3> QED  BY <2>1, <2>2, <2>4, <3>1 DEF Precedes
  <2> QED  BY <2>3, <2>4
<1>6. \E k \in M : \A n \in M \ {k} : Precedes(k, n)
  BY <1>4, <1>5
<1> QED  BY <1>6 DEF First

LEMMA FirstIs ==
  ASSUME setup \in Setups, NEW M \in SUBSET Modules, NEW m \in M,
         \A n \in M : n # m => Precedes(m, n)
  PROVE  m = First(M)
<1>1. First(M) \in M /\ \A n \in M : n # First(M) => Precedes(First(M), n)
  BY FirstExists
<1> QED  BY <1>1, PrecedesOrders

-----------------------------------------------------------------------------
(* Loading *)

LEMMA FitStays ==
  ASSUME setup' = setup, NEW b \in Builds, NEW s, Fit(b, s), server'[b] = s
  PROVE  Fit(b, server[b])'
<1>0. /\ Done(server[b])' = Done(s) /\ Sound(server[b])' = Sound(s)
      /\ \A m : Declared(m)' = Declared(m) /\ Included(b, m)' = Included(b, m)
                /\ PathsOf(b, m)' = PathsOf(b, m)
      /\ \A m, n : Precedes(m, n)' = Precedes(m, n)
  BY DEF Done, Sound, Declared, Included, PathsOf, Precedes
<1>1. InTurn(s) => InTurn(server[b])'
  BY <1>0 DEF InTurn
<1>2. Claims(s) => Claims(server[b])'
  BY <1>0 DEF Claims
<1>3. Ordered(b, s) => Ordered(b, server[b])'
  BY <1>0 DEF Ordered
<1>4. Complete(b, s) => Complete(b, server[b])'
  BY <1>0 DEF Complete
<1>5. Paged(b, s) => Paged(b, server[b])'
  BY <1>0 DEF Paged
<1>6. Disjoint' = Disjoint
  BY DEF Disjoint, Parsable, Declared
<1> QED  BY <1>1, <1>2, <1>3, <1>4, <1>5, <1>6 DEF Fit

LEMMA BecomesFits ==
  ASSUME TypeOK, BuildInv, NEW b \in Builds, NEW to \in Servers, Fit(b, to), Becomes(b, to)
  PROVE  TypeOK' /\ BuildInv'
<1>1. setup' = setup /\ request' = request /\ crashes' = crashes
  BY DEF Becomes
<1>2. server' = [server EXCEPT ![b] = to] /\ server \in [Builds -> Servers]
  BY DEF Becomes, TypeOK, Servers
<1>3. server' \in [Builds -> Servers]
  BY <1>2
<1>4. TypeOK'
  BY <1>1, <1>3 DEF TypeOK, Servers
<1>5. ASSUME NEW c \in Builds PROVE Fit(c, server[c])'
  <2>1. server'[c] = IF c = b THEN to ELSE server[c]
    BY <1>2
  <2>2. Fit(c, server[c])
    BY DEF BuildInv
  <2> QED  BY <1>1, <2>1, <2>2, FitStays
<1> QED  BY <1>4, <1>5 DEF BuildInv

\* The next module comes behind those that are done, and before those that are left.
LEMMA LoadsFacts ==
  ASSUME TypeOK, BuildInv, NEW b \in Builds, NEW m \in Modules, Loads(b, m)
  PROVE  /\ server[b] \in Servers /\ server[b].phase = "loading"
         /\ m \in server[b].left /\ server[b].left \subseteq Modules
         /\ \A n \in Done(server[b]) : Precedes(n, m)
         /\ \A n \in server[b].left \ {m} : Precedes(m, n)
         /\ InTurn(server[b]) /\ Claims(server[b]) /\ Ordered(b, server[b])
         /\ Complete(b, server[b]) /\ Paged(b, server[b])
<1>1. server[b] \in Servers /\ setup \in Setups
  BY DEF TypeOK, Servers
<1>2. server[b].phase = "loading" /\ server[b].left # {} /\ m = First(server[b].left)
  BY DEF Loads
<1>3. /\ InTurn(server[b]) /\ Claims(server[b]) /\ Ordered(b, server[b])
      /\ Complete(b, server[b]) /\ Paged(b, server[b])
  BY <1>2 DEF BuildInv, Fit
<1>4. server[b].left \in SUBSET Modules
  BY <1>1 DEF Servers
<1>5. m \in server[b].left /\ \A n \in server[b].left : n # m => Precedes(m, n)
  BY <1>1, <1>2, <1>4, FirstExists
<1> QED  BY <1>1, <1>2, <1>3, <1>4, <1>5 DEF InTurn

\* A module is taken up, as Listed does.
Took(b, m, to) ==
  /\ to \in Servers /\ to.phase = "loading"
  /\ to.left = server[b].left \ {m}
  /\ to.nav = Append(server[b].nav, m)
  /\ to.pages = IF Included(b, m) THEN server[b].pages \cup {m} ELSE server[b].pages

LEMMA TookFits ==
  ASSUME TypeOK, BuildInv, NEW b \in Builds, NEW m \in Modules, Loads(b, m),
         NEW to, Took(b, m, to)
  PROVE  /\ Done(to) = Done(server[b]) \cup {m} /\ m \notin Done(server[b])
         /\ Done(to) \subseteq Modules /\ m \notin Sound(server[b])
         /\ InTurn(to) /\ Paged(b, to)
<1>0. /\ server[b] \in Servers /\ m \in server[b].left /\ server[b].left \subseteq Modules
      /\ \A n \in Done(server[b]) : Precedes(n, m)
      /\ \A n \in server[b].left \ {m} : Precedes(m, n)
      /\ InTurn(server[b]) /\ Paged(b, server[b])
  BY LoadsFacts
<1>1. Done(to) = Done(server[b]) \cup {m} /\ m \notin Done(server[b]) /\ Done(to) \subseteq Modules
  BY <1>0 DEF Done, Took
<1>2. InTurn(to)
  BY <1>0, <1>1 DEF InTurn, Took
<1>3. Paged(b, to)
  <2>1. server[b].nav \in Seq(Modules)
    BY <1>0 DEF Servers
  <2>2. /\ Len(to.nav) = Len(server[b].nav) + 1 /\ to.nav[Len(to.nav)] = m
        /\ \A i \in 1..Len(server[b].nav) : to.nav[i] = server[b].nav[i]
        /\ Len(server[b].nav) \in Nat
    BY <2>1 DEF Took
  <2>3. \A i \in 1..Len(to.nav) : to.nav[i] \in Done(to)
    <3> SUFFICES ASSUME NEW i \in 1..Len(to.nav) PROVE to.nav[i] \in Done(to)
      OBVIOUS
    <3>1. CASE i = Len(to.nav)
      BY <1>1, <2>2, <3>1
    <3>2. CASE i \in 1..Len(server[b].nav)
      BY <1>0, <1>1, <2>2, <3>2 DEF Paged
    <3> QED  BY <2>2, <3>1, <3>2
  <2>4. ASSUME NEW n \in Done(to) PROVE \E i \in 1..Len(to.nav) : to.nav[i] = n
    <3>1. CASE n = m
      BY <2>2, <3>1
    <3>2. CASE n \in Done(server[b])
      <4>1. PICK i \in 1..Len(server[b].nav) : server[b].nav[i] = n
        BY <1>0, <3>2 DEF Paged
      <4>2. i \in 1..Len(to.nav) /\ to.nav[i] = n
        BY <2>2, <4>1
      <4> QED  BY <4>2
    <3> QED  BY <1>1, <3>1, <3>2
  <2>5. to.pages = {n \in Done(to) : Included(b, n)}
    BY <1>0, <1>1 DEF Paged, Took
  <2> QED  BY <2>3, <2>4, <2>5 DEF Paged
<1> QED  BY <1>0, <1>1, <1>2, <1>3 DEF Sound

LEMMA ListedIs ==
  ASSUME TypeOK, BuildInv, NEW b \in Builds, NEW m \in Modules, Loads(b, m)
  PROVE  /\ Took(b, m, Listed(b, m))
         /\ Listed(b, m).claimed = server[b].claimed /\ Listed(b, m).routes = server[b].routes
<1>1. server[b] \in Servers /\ server[b].phase = "loading"
  BY LoadsFacts
<1>2. server[b].nav \in Seq(Modules)
  BY <1>1 DEF Servers
<1>3. Append(server[b].nav, m) \in Seq(Modules)
  BY <1>2
<1> QED  BY <1>1, <1>3 DEF Took, Listed, Servers

LEMMA SkipsFits ==
  ASSUME TypeOK, BuildInv, NEW b \in Builds, NEW m \in Modules, Skips(b, m)
  PROVE  TypeOK' /\ BuildInv'
<1> DEFINE to == Listed(b, m)
<1>1. Loads(b, m) /\ m \in setup.unparsable /\ Becomes(b, to)
  BY DEF Skips
<1>2. /\ Took(b, m, to) /\ to.claimed = server[b].claimed /\ to.routes = server[b].routes
  BY <1>1, ListedIs
<1> HIDE DEF to
<1>3. Done(to) = Done(server[b]) \cup {m} /\ InTurn(to) /\ Paged(b, to)
  BY <1>1, <1>2, TookFits
<1>4. Sound(to) = Sound(server[b])
  BY <1>1, <1>3 DEF Sound
<1>5. Claims(server[b]) /\ Ordered(b, server[b]) /\ Complete(b, server[b])
  BY <1>1, LoadsFacts
<1>6. Claims(to)
  BY <1>2, <1>4, <1>5 DEF Claims
<1>7. Ordered(b, to) /\ Complete(b, to)
  BY <1>2, <1>4, <1>5 DEF Ordered, Complete
<1>8. Fit(b, to) /\ to \in Servers
  BY <1>2, <1>3, <1>6, <1>7 DEF Fit, Took
<1> QED  BY <1>1, <1>8, BecomesFits

\* Declarations that do not conflict are added to those that do not.
LEMMA ClaimsGrow ==
  ASSUME TypeOK, BuildInv, NEW b \in Builds, NEW m \in Modules, Loadable(b, m),
         NEW to, Took(b, m, to), to.claimed = server[b].claimed \cup Declared(m)
  PROVE  Claims(to) /\ Sound(to) = Sound(server[b]) \cup {m}
<1>1. Loads(b, m) /\ m \notin setup.unparsable /\ ~Conflicts(b, m)
  BY DEF Loadable
<1>2. Claims(server[b])
  BY <1>1, LoadsFacts
<1>3. Sound(to) = Sound(server[b]) \cup {m} /\ m \notin Sound(server[b])
  BY <1>1, TookFits DEF Sound
<1>4. to.claimed = UNION {Declared(n) : n \in Sound(to)}
  <2>1. server[b].claimed = UNION {Declared(n) : n \in Sound(server[b])}
    BY <1>2 DEF Claims
  <2>2. \A p : p \in server[b].claimed <=> \E n \in Sound(server[b]) : p \in Declared(n)
    BY <2>1
  <2>3. \A p : p \in to.claimed <=> \E n \in Sound(to) : p \in Declared(n)
    BY <1>3, <2>2
  <2>4. \A p : p \in UNION {Declared(n) : n \in Sound(to)}
               <=> \E n \in Sound(to) : p \in Declared(n)
    OBVIOUS
  <2> QED  BY <2>3, <2>4
<1>5. \A n \in Sound(server[b]) : Declared(n) \cap Declared(m) = {}
  BY <1>1, <1>2 DEF Claims, Conflicts
<1>6. \A i, j \in 1..Len(setup.declares[m]) :
        i < j => setup.declares[m][i] # setup.declares[m][j]
  BY <1>1 DEF Conflicts
<1>7. \A n, k \in Sound(to) : n # k => Declared(n) \cap Declared(k) = {}
  <2>1. \A n, k \in Sound(server[b]) : n # k => Declared(n) \cap Declared(k) = {}
    BY <1>2 DEF Claims
  <2> QED  BY <1>3, <1>5, <2>1
<1>8. \A n \in Sound(to) : \A i, j \in 1..Len(setup.declares[n]) :
        i < j => setup.declares[n][i] # setup.declares[n][j]
  BY <1>2, <1>3, <1>6 DEF Claims
<1> QED  BY <1>3, <1>4, <1>7, <1>8 DEF Claims

\* Routes of a module that comes behind all others that have some.
LEMMA RoutesGrow ==
  ASSUME TypeOK, BuildInv, NEW b \in Builds, NEW m \in Modules, Loads(b, m),
         NEW to, Took(b, m, to), Sound(to) = Sound(server[b]) \cup {m},
         to.routes = Append(server[b].routes, [module |-> m, paths |-> PathsOf(b, m),
                                               proxy |-> ~Included(b, m)])
  PROVE  Ordered(b, to) /\ Complete(b, to)
<1> DEFINE route == [module |-> m, paths |-> PathsOf(b, m), proxy |-> ~Included(b, m)]
<1>1. /\ server[b] \in Servers /\ Ordered(b, server[b]) /\ Complete(b, server[b])
      /\ \A n \in Done(server[b]) : Precedes(n, m)
  BY LoadsFacts
<1>2. /\ route.module = m /\ route.paths = PathsOf(b, m) /\ route.proxy = ~Included(b, m)
  OBVIOUS
<1> HIDE DEF route
<1>3. /\ Len(to.routes) = Len(server[b].routes) + 1 /\ to.routes[Len(to.routes)] = route
      /\ \A i \in 1..Len(server[b].routes) : to.routes[i] = server[b].routes[i]
      /\ Len(server[b].routes) \in Nat
  <2>1. server[b].routes \in Seq([module : Modules, paths : SUBSET Paths, proxy : BOOLEAN])
    BY <1>1 DEF Servers
  <2>2. to.routes = Append(server[b].routes, route)
    BY DEF route
  <2> QED  BY <2>1, <2>2
<1>4. \A i \in 1..Len(server[b].routes) : server[b].routes[i].module \in Sound(server[b])
  BY <1>1 DEF Ordered
<1>5. ASSUME NEW i \in 1..Len(to.routes)
      PROVE  /\ to.routes[i].module \in Sound(to)
             /\ to.routes[i].paths = PathsOf(b, to.routes[i].module)
             /\ to.routes[i].proxy = ~Included(b, to.routes[i].module)
  <2>1. CASE i = Len(to.routes)
    BY <1>2, <1>3, <2>1
  <2>2. CASE i \in 1..Len(server[b].routes)
    BY <1>1, <1>3, <2>2 DEF Ordered
  <2> QED  BY <1>3, <2>1, <2>2
<1>6. ASSUME NEW i \in 1..Len(to.routes), NEW j \in 1..Len(to.routes), i < j
      PROVE  Precedes(to.routes[i].module, to.routes[j].module)
  <2>1. i \in 1..Len(server[b].routes)
    BY <1>3, <1>6
  <2>2. CASE j = Len(to.routes)
    BY <1>1, <1>2, <1>3, <1>4, <2>1, <2>2 DEF Sound
  <2>3. CASE j \in 1..Len(server[b].routes)
    BY <1>1, <1>3, <1>6, <2>1, <2>3 DEF Ordered
  <2> QED  BY <1>3, <2>2, <2>3
<1>7. ASSUME NEW n \in Sound(to)
      PROVE  \/ \E i \in 1..Len(to.routes) : to.routes[i].module = n
             \/ Included(b, n) /\ n \in setup.fragile
  <2>1. CASE n = m
    BY <1>2, <1>3, <2>1
  <2>2. CASE /\ n \in Sound(server[b])
             /\ \E i \in 1..Len(server[b].routes) : server[b].routes[i].module = n
    <3>1. PICK i \in 1..Len(server[b].routes) : server[b].routes[i].module = n
      BY <2>2
    <3>2. i \in 1..Len(to.routes) /\ to.routes[i].module = n
      BY <1>3, <3>1
    <3> QED  BY <3>2
  <2> QED  BY <1>1, <2>1, <2>2 DEF Complete
<1> QED  BY <1>5, <1>6, <1>7 DEF Ordered, Complete

LEMMA RegisteredFits ==
  ASSUME TypeOK, BuildInv, NEW b \in Builds, NEW m \in Modules, Loadable(b, m),
         Becomes(b, Registered(b, m, PathsOf(b, m)))
  PROVE  TypeOK' /\ BuildInv'
<1> DEFINE route == [module |-> m, paths |-> PathsOf(b, m), proxy |-> ~Included(b, m)]
           to == Registered(b, m, PathsOf(b, m))
<1>1. Loads(b, m) /\ setup \in Setups
  BY DEF Loadable, TypeOK
<1>2. /\ Took(b, m, Listed(b, m)) /\ Listed(b, m).claimed = server[b].claimed
      /\ Listed(b, m).routes = server[b].routes
  BY <1>1, ListedIs
<1>3. /\ server[b].claimed \cup Declared(m) \in SUBSET Paths
      /\ Append(server[b].routes, route)
           \in Seq([module : Modules, paths : SUBSET Paths, proxy : BOOLEAN])
  <2>1. /\ server[b].claimed \in SUBSET Paths
        /\ server[b].routes \in Seq([module : Modules, paths : SUBSET Paths, proxy : BOOLEAN])
    BY <1>1, LoadsFacts DEF Servers
  <2>2. Declared(m) \subseteq Paths /\ PathsOf(b, m) \in SUBSET Paths
    BY <1>1, SetupFacts DEF PathsOf
  <2>3. Included(b, m) \in BOOLEAN
    BY DEF Included
  <2>4. route \in [module : Modules, paths : SUBSET Paths, proxy : BOOLEAN]
    BY <2>2, <2>3
  <2> HIDE DEF route
  <2> QED  BY <2>1, <2>2, <2>4
<1>4. to = [Listed(b, m) EXCEPT !.claimed = server[b].claimed \cup Declared(m),
                                !.routes = Append(server[b].routes, route)]
  BY <1>2 DEF Registered, Took, Servers
<1> HIDE DEF route, to
<1>5. /\ Took(b, m, to) /\ to.claimed = server[b].claimed \cup Declared(m)
      /\ to.routes = Append(server[b].routes, route)
  BY <1>2, <1>3, <1>4 DEF Took, Servers
<1>6. Claims(to) /\ Sound(to) = Sound(server[b]) \cup {m}
  BY <1>5, ClaimsGrow
<1>7. Ordered(b, to) /\ Complete(b, to)
  BY <1>1, <1>5, <1>6, RoutesGrow DEF route
<1>8. InTurn(to) /\ Paged(b, to)
  BY <1>1, <1>5, TookFits
<1>9. Fit(b, to) /\ to \in Servers
  BY <1>5, <1>6, <1>7, <1>8 DEF Fit, Took
<1> QED  BY <1>9, BecomesFits DEF to

LEMMA FailsToMountFits ==
  ASSUME TypeOK, BuildInv, NEW b \in Builds, NEW m \in Modules, FailsToMount(b, m)
  PROVE  TypeOK' /\ BuildInv'
<1> DEFINE to == [Listed(b, m) EXCEPT !.claimed = @ \cup Declared(m)]
<1>1. /\ Loadable(b, m) /\ Loads(b, m) /\ Included(b, m) /\ m \in setup.fragile
      /\ Becomes(b, to) /\ setup \in Setups
  BY DEF FailsToMount, Loadable, TypeOK
<1>2. /\ Took(b, m, Listed(b, m)) /\ Listed(b, m).claimed = server[b].claimed
      /\ Listed(b, m).routes = server[b].routes
  BY <1>1, ListedIs
<1>3. server[b].claimed \cup Declared(m) \in SUBSET Paths
  BY <1>1, SetupFacts, LoadsFacts DEF Servers
<1>4. to = [Listed(b, m) EXCEPT !.claimed = server[b].claimed \cup Declared(m)]
  BY <1>2 DEF Took, Servers
<1> HIDE DEF to
<1>5. /\ Took(b, m, to) /\ to.claimed = server[b].claimed \cup Declared(m)
      /\ to.routes = server[b].routes
  BY <1>2, <1>3, <1>4 DEF Took, Servers
<1>6. Claims(to) /\ Sound(to) = Sound(server[b]) \cup {m}
  BY <1>1, <1>5, ClaimsGrow
<1>7. Ordered(b, server[b]) /\ Complete(b, server[b])
  BY <1>1, LoadsFacts
<1>8. Ordered(b, to) /\ Complete(b, to)
  BY <1>1, <1>5, <1>6, <1>7 DEF Ordered, Complete
<1>9. InTurn(to) /\ Paged(b, to)
  BY <1>1, <1>5, TookFits
<1>10. Fit(b, to) /\ to \in Servers
  BY <1>5, <1>6, <1>8, <1>9 DEF Fit, Took
<1> QED  BY <1>1, <1>10, BecomesFits

\* A process that has loaded nothing.
LEMMA DownIs == Down \in Servers
<1> DEFINE Routes == Seq([module : Modules, paths : SUBSET Paths, proxy : BOOLEAN])
           nav == <<>>
           routes == <<>>
<1>1. nav \in Seq(Modules) /\ routes \in Routes
  OBVIOUS
<1>2. Down = [phase |-> "down", left |-> {}, claimed |-> {}, pages |-> {}, nav |-> nav,
              routes |-> routes]
  BY DEF Down
<1>3. Servers = [phase : {"down", "loading", "up", "refused"}, left : SUBSET Modules,
                 claimed : SUBSET Paths, pages : SUBSET Modules, nav : Seq(Modules),
                 routes : Routes]
  BY DEF Servers
<1> HIDE DEF nav, routes, Routes
<1> QED  BY <1>1, <1>2, <1>3

\* A path that is declared twice by what this build has loaded is declared twice.
LEMMA RefusesFits ==
  ASSUME TypeOK, BuildInv, NEW b \in Builds, NEW m \in Modules, Refuses(b, m)
  PROVE  TypeOK' /\ BuildInv'
<1> DEFINE to == [Down EXCEPT !.phase = "refused"]
<1>1. Loads(b, m) /\ m \notin setup.unparsable /\ Conflicts(b, m) /\ Becomes(b, to)
  BY DEF Refuses
<1>2. Claims(server[b]) /\ m \notin Done(server[b])
  BY <1>1, LoadsFacts DEF Done
<1>3. to \in Servers /\ to.phase = "refused"
  BY DownIs DEF Servers
<1>4. ~Disjoint
  <2>1. m \in Parsable /\ Sound(server[b]) \subseteq Parsable
    BY <1>1 DEF Parsable, Sound, Done
  <2>2. CASE Declared(m) \cap server[b].claimed # {}
    <3>1. PICK n \in Sound(server[b]) : Declared(m) \cap Declared(n) # {}
      BY <1>2, <2>2 DEF Claims
    <3>2. n # m
      BY <1>2 DEF Sound
    <3> QED  BY <2>1, <3>1, <3>2 DEF Disjoint
  <2>3. CASE \E i, j \in 1..Len(setup.declares[m]) :
               i < j /\ setup.declares[m][i] = setup.declares[m][j]
    BY <2>1, <2>3 DEF Disjoint
  <2> QED  BY <1>1, <2>2, <2>3 DEF Conflicts
<1>5. Fit(b, to)
  BY <1>3, <1>4 DEF Fit
<1> QED  BY <1>1, <1>3, <1>5, BecomesFits

LEMMA StartsFits ==
  ASSUME TypeOK, BuildInv, NEW b \in Builds, Starts(b)
  PROVE  TypeOK' /\ BuildInv'
<1> DEFINE to == [Down EXCEPT !.phase = "loading", !.left = Modules]
<1>1. Becomes(b, to)
  BY DEF Starts
<1>2. /\ to.phase = "loading" /\ to.left = Modules /\ to.claimed = {}
      /\ to.pages = {} /\ to.nav = <<>> /\ to.routes = <<>>
  BY DEF Down
<1>3. to \in Servers
  BY DownIs DEF Servers
<1> HIDE DEF to
<1>4. Done(to) = {} /\ Sound(to) = {} /\ Len(to.nav) = 0 /\ Len(to.routes) = 0
  BY <1>2 DEF Done, Sound
<1>5. InTurn(to) /\ Claims(to) /\ Ordered(b, to) /\ Complete(b, to) /\ Paged(b, to)
  BY <1>2, <1>4 DEF InTurn, Claims, Ordered, Complete, Paged
<1>6. Fit(b, to)
  BY <1>2, <1>5 DEF Fit
<1> QED  BY <1>1, <1>3, <1>6, BecomesFits

LEMMA OpensFits ==
  ASSUME TypeOK, BuildInv, NEW b \in Builds, Opens(b)
  PROVE  TypeOK' /\ BuildInv'
<1> DEFINE to == [server[b] EXCEPT !.phase = "up"]
<1>1. /\ Becomes(b, to) /\ server[b] \in Servers /\ server[b].phase = "loading"
      /\ server[b].left = {}
  BY DEF Opens, TypeOK, Servers
<1>2. /\ to \in Servers /\ to.phase = "up" /\ to.left = {} /\ to.left = server[b].left
      /\ to.claimed = server[b].claimed /\ to.pages = server[b].pages
      /\ to.nav = server[b].nav /\ to.routes = server[b].routes
  BY <1>1 DEF Servers
<1> HIDE DEF to
<1>3. Fit(b, server[b])
  BY DEF BuildInv
<1>4. Done(to) = Done(server[b]) /\ Sound(to) = Sound(server[b])
  BY <1>2 DEF Done, Sound
<1>5. InTurn(to) /\ Claims(to) /\ Ordered(b, to) /\ Complete(b, to) /\ Paged(b, to)
  <2>1. /\ InTurn(server[b]) /\ Claims(server[b]) /\ Ordered(b, server[b])
        /\ Complete(b, server[b]) /\ Paged(b, server[b])
    BY <1>1, <1>3 DEF Fit
  <2>2. InTurn(to)
    BY <1>2, <1>4, <2>1 DEF InTurn
  <2>3. Claims(to)
    BY <1>2, <1>4, <2>1 DEF Claims
  <2>4. Ordered(b, to) /\ Complete(b, to)
    BY <1>2, <1>4, <2>1 DEF Ordered, Complete
  <2>5. Paged(b, to)
    BY <1>2, <1>4, <2>1 DEF Paged
  <2> QED  BY <2>2, <2>3, <2>4, <2>5
<1>6. Fit(b, to)
  BY <1>2, <1>5 DEF Fit
<1> QED  BY <1>1, <1>2, <1>6, BecomesFits

LEMMA LoadingFits ==
  ASSUME TypeOK, BuildInv, NEW b \in Builds, Loading(b)
  PROVE  TypeOK' /\ BuildInv'
<1>1. ASSUME NEW m \in Modules, Proxies(b, m) PROVE TypeOK' /\ BuildInv'
  <2>1. Loadable(b, m) /\ Becomes(b, Registered(b, m, PathsOf(b, m)))
    BY <1>1 DEF Proxies, PathsOf
  <2> QED  BY <2>1, RegisteredFits
<1>2. ASSUME NEW m \in Modules, Mounts(b, m) PROVE TypeOK' /\ BuildInv'
  <2>1. Loadable(b, m) /\ Becomes(b, Registered(b, m, PathsOf(b, m)))
    BY <1>2 DEF Mounts, PathsOf
  <2> QED  BY <2>1, RegisteredFits
<1> QED
  BY <1>1, <1>2, StartsFits, OpensFits, SkipsFits, RefusesFits, FailsToMountFits DEF Loading


-----------------------------------------------------------------------------
(* Routing *)

\* The sound modules that could not be imported in build b.
Missing(b) ==
  {m \in Parsable : \A i \in 1..Len(server[b].routes) : server[b].routes[i].module # m}

LEMMA UpFacts ==
  ASSUME TypeOK, BuildInv, NEW b \in Builds, Up(b)
  PROVE  /\ server[b] \in Servers /\ Done(server[b]) = Modules /\ Sound(server[b]) = Parsable
         /\ Claims(server[b]) /\ Ordered(b, server[b]) /\ Complete(b, server[b])
         /\ Paged(b, server[b])
         /\ Missing(b) \in SUBSET setup.fragile
<1>1. /\ server[b] \in Servers /\ InTurn(server[b])
      /\ Claims(server[b]) /\ Ordered(b, server[b]) /\ Complete(b, server[b])
      /\ Paged(b, server[b])
  BY DEF TypeOK, Servers, BuildInv, Fit, Up
<1>2. Done(server[b]) = Modules /\ Sound(server[b]) = Parsable
  BY <1>1 DEF InTurn, Up, Done, Sound, Parsable
<1>3. Missing(b) \in SUBSET setup.fragile
  BY <1>1, <1>2 DEF Missing, Complete
<1> QED  BY <1>1, <1>2, <1>3

\* A request goes to the route of the first module that has one for it.
LEMMA FirstMatch ==
  ASSUME TypeOK, BuildInv, NEW b \in Builds, Up(b), NEW r \in Requests, Matching(r, b) # {}
  PROVE  /\ RouteOf(r, b).module \in Parsable \ Missing(b)
         /\ RouteOf(r, b).paths = PathsOf(b, RouteOf(r, b).module)
         /\ RouteOf(r, b).proxy = ~Included(b, RouteOf(r, b).module)
         /\ RouteOf(r, b).paths \cap setup.matches[r] # {}
         /\ \A m \in Parsable \ Missing(b) :
              PathsOf(b, m) \cap setup.matches[r] # {} /\ m # RouteOf(r, b).module
                => Precedes(RouteOf(r, b).module, m)
<1>1. Ordered(b, server[b]) /\ Sound(server[b]) = Parsable
  BY UpFacts
<1>2. Matching(r, b) \in SUBSET Nat /\ Matching(r, b) \subseteq 1..Len(server[b].routes)
  BY DEF Matching
<1>3. \E i \in Matching(r, b) : \A j \in Matching(r, b) : i <= j
  BY <1>2, Least
<1>4. PICK i \in Matching(r, b) :
        RouteOf(r, b) = server[b].routes[i] /\ \A j \in Matching(r, b) : i <= j
  BY <1>3 DEF RouteOf
<1>5. /\ i \in 1..Len(server[b].routes)
      /\ server[b].routes[i].paths \cap setup.matches[r] # {}
  BY <1>4 DEF Matching
<1>6. ASSUME NEW m \in Parsable \ Missing(b), PathsOf(b, m) \cap setup.matches[r] # {},
             m # RouteOf(r, b).module
      PROVE  Precedes(RouteOf(r, b).module, m)
  <2>1. PICK j \in 1..Len(server[b].routes) : server[b].routes[j].module = m
    BY <1>6 DEF Missing
  <2>2. j \in Matching(r, b)
    BY <1>1, <1>6, <2>1 DEF Ordered, Matching
  <2>3. i <= j /\ i # j
    BY <1>4, <1>6, <2>1, <2>2
  <2>4. i < j
    BY <1>5, <2>1, <2>3
  <2> QED  BY <1>1, <1>4, <1>5, <2>1, <2>4 DEF Ordered
<1> QED  BY <1>1, <1>4, <1>5, <1>6 DEF Ordered, Missing

LEMMA NoMatch ==
  ASSUME TypeOK, BuildInv, NEW b \in Builds, Up(b), NEW r \in Requests, Matching(r, b) = {}
  PROVE  \A m \in Parsable \ Missing(b) : PathsOf(b, m) \cap setup.matches[r] = {}
<1>1. Ordered(b, server[b])
  BY UpFacts
<1>2. ASSUME NEW m \in Parsable \ Missing(b) PROVE PathsOf(b, m) \cap setup.matches[r] = {}
  <2>1. PICK j \in 1..Len(server[b].routes) : server[b].routes[j].module = m
    BY DEF Missing
  <2>2. server[b].routes[j].paths = PathsOf(b, m)
    BY <1>1, <2>1 DEF Ordered
  <2> QED  BY <2>1, <2>2 DEF Matching
<1> QED  BY <1>2

\* The routes of a build are all that the routers of its modules serve, and more where
\* a syntax tree shows more.
LEMMA ServedHere ==
  ASSUME Shown, NEW b \in Builds, NEW m \in Parsable
  PROVE  setup.serves[m] \subseteq PathsOf(b, m)
BY DEF Shown, PathsOf

\* Its own module is then the one to answer ...
LEMMA OwnAnswerIsDue ==
  ASSUME TypeOK, BuildInv, Shown, NEW b \in Builds, Up(b), NEW r \in Requests,
         Matching(r, b) # {}, ~RouteOf(r, b).proxy
  PROVE  RouteOf(r, b).module \in Due(r)
<1> DEFINE own == RouteOf(r, b).module
           M == Parsable \ Missing(b)
<1>1. setup \in Setups /\ Missing(b) \in SUBSET setup.fragile /\ Parsable \subseteq Modules
  BY UpFacts DEF TypeOK, Parsable
<1>2. /\ own \in M /\ Included(b, own) /\ PathsOf(b, own) \cap setup.matches[r] # {}
      /\ \A m \in M : PathsOf(b, m) \cap setup.matches[r] # {} /\ m # own => Precedes(own, m)
  BY FirstMatch
<1> HIDE DEF own
<1>3. own \in Owners(r, M)
  BY <1>2 DEF Owners, PathsOf
<1>4. \A m \in Owners(r, M) : m # own => Precedes(own, m)
  BY <1>2, ServedHere DEF Owners
<1>5. Owners(r, M) \in SUBSET Modules
  BY <1>1 DEF Owners
<1>6. own = First(Owners(r, M))
  BY <1>1, <1>3, <1>4, <1>5, FirstIs
<1>7. AnswerOf(r, M) = own
  BY <1>3, <1>6 DEF AnswerOf
<1> QED  BY <1>1, <1>7 DEF Due, own

\* ... and where no route matches, none of the whole project's modules is.
LEMMA NoAnswerIsDue ==
  ASSUME TypeOK, BuildInv, Shown, NEW b \in Builds, Up(b), NEW r \in Requests,
         Matching(r, b) = {}
  PROVE  (IF setup.global \cap setup.matches[r] # {} THEN Global ELSE NotFound) \in Due(r)
<1>1. Missing(b) \in SUBSET setup.fragile
  BY UpFacts
<1>2. Owners(r, Parsable \ Missing(b)) = {}
  BY NoMatch, ServedHere DEF Owners
<1>3. AnswerOf(r, Parsable \ Missing(b))
        = IF setup.global \cap setup.matches[r] # {} THEN Global ELSE NotFound
  BY <1>2 DEF AnswerOf
<1> QED  BY <1>1, <1>3 DEF Due

\* Where all can be imported and the syntax tree shows all, every build takes a request
\* to be for the same module.
LEMMA SameOwner ==
  ASSUME TypeOK, BuildInv, Discoverable, setup.fragile = {},
         NEW b \in Builds, Up(b), NEW r \in Requests, Matching(r, b) # {}
  PROVE  Owners(r, Parsable) # {} /\ RouteOf(r, b).module = First(Owners(r, Parsable))
<1> DEFINE own == RouteOf(r, b).module
<1>1. setup \in Setups /\ Missing(b) = {} /\ Parsable \subseteq Modules
  BY UpFacts DEF TypeOK, Parsable
<1>2. /\ own \in Parsable /\ PathsOf(b, own) \cap setup.matches[r] # {}
      /\ \A m \in Parsable :
           PathsOf(b, m) \cap setup.matches[r] # {} /\ m # own => Precedes(own, m)
  BY <1>1, FirstMatch
<1>3. \A m \in Parsable : PathsOf(b, m) = setup.serves[m]
  BY DEF PathsOf, Discoverable
<1> HIDE DEF own
<1>4. own \in Owners(r, Parsable) /\ \A m \in Owners(r, Parsable) : m # own => Precedes(own, m)
  BY <1>2, <1>3 DEF Owners
<1>5. Owners(r, Parsable) \in SUBSET Modules
  BY <1>1 DEF Owners
<1>6. own = First(Owners(r, Parsable))
  BY <1>1, <1>4, <1>5, FirstIs
<1> QED  BY <1>4, <1>6 DEF own

-----------------------------------------------------------------------------
(* The steps of requests *)

\* The project stays what it is.
LEMMA SameProject ==
  ASSUME setup' = setup
  PROVE  /\ \A r : Due(r)' = Due(r)
         /\ Parsable' = Parsable /\ Shown' = Shown /\ Disjoint' = Disjoint
         /\ Discoverable' = Discoverable /\ Direct' = Direct
         /\ \A r, M : First(Owners(r, M))' = First(Owners(r, M))
         /\ \A r, M : Owners(r, M)' = Owners(r, M)
         /\ \A b, m : Included(b, m)' = Included(b, m)
<1>1. /\ \A m : Declared(m)' = Declared(m)
      /\ \A b, m : Included(b, m)' = Included(b, m)
      /\ \A m, n : Precedes(m, n)' = Precedes(m, n)
      /\ Parsable' = Parsable
  BY DEF Declared, Included, Precedes, Priority, Parsable
<1>2. /\ Shown' = Shown /\ Disjoint' = Disjoint
      /\ Discoverable' = Discoverable /\ Direct' = Direct
  BY <1>1 DEF Shown, Disjoint, Discoverable, Direct
<1>3. \A r, M : Owners(r, M)' = Owners(r, M)
  BY DEF Owners
<1>4. \A r, M : First(Owners(r, M))' = First(Owners(r, M))
  BY <1>1, <1>3 DEF First
<1>5. \A r, M : AnswerOf(r, M)' = AnswerOf(r, M)
  BY <1>3, <1>4 DEF AnswerOf
<1>6. \A r : Due(r)' = Due(r)
  BY <1>1, <1>5 DEF Due
<1> QED  BY <1>1, <1>2, <1>3, <1>4, <1>6

LEMMA AptStays ==
  ASSUME setup' = setup, NEW r \in Requests, NEW h, NEW a, Apt(r, h, a),
         \A i \in 1..Len(h) : Up(h[i])'
  PROVE  Apt(r, h, a)'
BY SameProject DEF Apt

Replied == Modules \cup {None, NotFound, Failed, Global}

LEMMA RequestFacts ==
  ASSUME ShardsInv, NEW r \in Requests
  PROVE  /\ request[r].hops \in Seq(Builds) /\ request[r].reply \in Replied
         /\ Apt(r, request[r].hops, request[r].reply)
         /\ request[r].hops # <<>> <=> Len(request[r].hops) > 0
<1>1. request[r].hops \in Seq(Builds) /\ request[r].reply \in Replied
  BY DEF ShardsInv, TypeOK, Replied
<1> QED  BY <1>1 DEF ShardsInv, RequestInv

LEMMA AnswersFits ==
  ASSUME ShardsInv, NEW r \in Requests, NEW h \in Seq(Builds), NEW a \in Replied,
         Answers(r, h, a), Apt(r, h, a)
  PROVE  ShardsInv'
<1>1. setup' = setup /\ server' = server /\ crashes' = crashes
  BY DEF Answers
<1>2. request' = [request EXCEPT ![r] = [hops |-> h, reply |-> a]]
  BY DEF Answers
<1>3. request' \in [Requests -> [hops : Seq(Builds), reply : Replied]]
  BY <1>2 DEF ShardsInv, TypeOK, Replied
<1>4. TypeOK'
  BY <1>1, <1>3 DEF ShardsInv, TypeOK, Replied
<1>5. BuildInv'
  <2>1. ASSUME NEW b \in Builds PROVE Fit(b, server[b])'
    BY <1>1, FitStays DEF ShardsInv, BuildInv
  <2> QED  BY <2>1 DEF BuildInv
<1>6. ASSUME NEW q \in Requests PROVE Apt(q, request[q].hops, request[q].reply)'
  <2>1. PICK hops, reply : request'[q] = [hops |-> hops, reply |-> reply] /\ Apt(q, hops, reply)
    <3>1. CASE q = r
      BY <1>2, <3>1 DEF ShardsInv, TypeOK
    <3>2. CASE q # r
      <4>1. request'[q] = request[q]
        BY <1>2, <3>2 DEF ShardsInv, TypeOK
      <4>2. request[q] = [hops |-> request[q].hops, reply |-> request[q].reply]
        BY DEF ShardsInv, TypeOK
      <4> QED  BY <4>1, <4>2, RequestFacts
    <3> QED  BY <3>1, <3>2
  <2>2. \A i \in 1..Len(hops) : Up(hops[i])'
    BY <1>1, <2>1 DEF Apt, Up
  <2>3. Apt(q, hops, reply)'
    BY <1>1, <2>1, <2>2, AptStays
  <2>4. request'[q].hops = hops /\ request'[q].reply = reply
    BY <2>1
  <2> QED  BY <2>3, <2>4
<1> QED  BY <1>4, <1>5, <1>6 DEF ShardsInv, RequestInv

LEMMA Cut ==
  ASSUME NEW h \in Seq(Builds), NEW n \in 0..Len(h)
  PROVE  /\ SubSeq(h, 1, n) \in Seq(Builds) /\ Len(SubSeq(h, 1, n)) = n
         /\ \A i \in 1..n : SubSeq(h, 1, n)[i] = h[i]
<1>1. Len(h) \in Nat /\ \A i \in 1..Len(h) : h[i] \in Builds
  OBVIOUS
<1>2. n \in Int /\ \A i \in 1..n : h[i] \in Builds
  BY <1>1
<1>3. /\ SubSeq(h, 1, n) \in Seq(Builds)
      /\ Len(SubSeq(h, 1, n)) = IF 1 <= n THEN n - 1 + 1 ELSE 0
      /\ \A i \in 1..n - 1 + 1 : SubSeq(h, 1, n)[i] = h[1 + i - 1]
  BY <1>2, SubSeqProperties
<1>4. n - 1 + 1 = n /\ \A i \in 1..n : 1 + i - 1 = i
  BY <1>1
<1> QED  BY <1>1, <1>3, <1>4

\* A request that has gone back by some hops.
LEMMA CutFits ==
  ASSUME ShardsInv, NEW r \in Requests, NEW n \in 0..Len(request[r].hops),
         NEW a \in Replied, n < Len(request[r].hops) \/ a # None,
         Shown => a \in Due(r) \cup {None, Failed}
  PROVE  Apt(r, SubSeq(request[r].hops, 1, n), a)
<1> DEFINE hops == request[r].hops
           cut == SubSeq(hops, 1, n)
<1>1. hops \in Seq(Builds) /\ Apt(r, hops, request[r].reply)
  BY RequestFacts
<1> HIDE DEF hops
<1>2. cut \in Seq(Builds) /\ Len(cut) = n /\ \A i \in 1..n : cut[i] = hops[i]
  BY <1>1, Cut DEF hops
<1>3. Len(hops) \in Nat /\ n \in Nat /\ n <= Len(hops) /\ (n < Len(hops) \/ a # None)
  BY <1>1 DEF hops
<1> HIDE DEF cut
<1>4. \A i \in 1..Len(cut) : Up(cut[i])
  BY <1>1, <1>2, <1>3 DEF Apt
<1>5. Len(hops) <= 2 => Len(cut) <= 2 /\ ~(Len(cut) = 2 /\ a = None)
  BY <1>2, <1>3
<1>6. Apt(r, cut, a)
  BY <1>1, <1>4, <1>5 DEF Apt
<1> QED  BY <1>6 DEF cut, hops

LEMMA ArrivedFacts ==
  ASSUME ShardsInv, NEW r \in Requests, NEW b \in Builds, Arrived(r, b)
  PROVE  /\ request[r].hops \in Seq(Builds) /\ Len(request[r].hops) \in Nat \ {0}
         /\ request[r].hops[Len(request[r].hops)] = b /\ request[r].reply = None
         /\ Up(b)
<1>1. /\ request[r].hops \in Seq(Builds) /\ Apt(r, request[r].hops, request[r].reply)
      /\ request[r].hops # <<>> <=> Len(request[r].hops) > 0
  BY RequestFacts
<1>2. /\ request[r].hops # <<>> /\ request[r].reply = None
      /\ request[r].hops[Len(request[r].hops)] = b
  BY DEF Arrived, Last
<1>3. Len(request[r].hops) \in Nat \ {0}
  BY <1>1, <1>2
<1>4. Len(request[r].hops) \in 1..Len(request[r].hops)
  BY <1>3
<1> QED  BY <1>1, <1>2, <1>3, <1>4 DEF Apt

LEMMA SendsFits ==
  ASSUME ShardsInv, NEW r \in Requests, NEW b \in Builds, Sends(r, b)
  PROVE  ShardsInv'
<1>1. Up(b) /\ Answers(r, <<b>>, None)
  BY DEF Sends
<1>2. PICK h : h = <<b>>
  OBVIOUS
<1>3. h \in Seq(Builds) /\ Len(h) = 1 /\ h[1] = b
  BY <1>2
<1>4. Apt(r, h, None)
  BY <1>1, <1>3 DEF Apt
<1> QED  BY <1>1, <1>2, <1>3, <1>4, AnswersFits DEF Replied

\* A reply to a request that has arrived.
LEMMA AnswerFits ==
  ASSUME ShardsInv, NEW r \in Requests, NEW a \in Replied \ {None},
         Answers(r, request[r].hops, a), Shown => a \in Due(r) \cup {None, Failed}
  PROVE  ShardsInv'
<1>1. request[r].hops \in Seq(Builds) /\ Apt(r, request[r].hops, request[r].reply)
  BY RequestFacts
<1>2. Apt(r, request[r].hops, a)
  BY <1>1 DEF Apt
<1> QED  BY <1>1, <1>2, AnswersFits

LEMMA HandlesFits ==
  ASSUME ShardsInv, NEW r \in Requests, NEW b \in Builds, Handles(r, b)
  PROVE  ShardsInv'
<1>1. TypeOK /\ BuildInv
  BY DEF ShardsInv
<1>2. CASE Routed(r, b) /\ ~RouteOf(r, b).proxy /\ Answers(r, request[r].hops, RouteOf(r, b).module)
  <2>1. Up(b) /\ Matching(r, b) # {}
    BY <1>2, ArrivedFacts DEF Routed
  <2>2. RouteOf(r, b).module \in Modules
    BY <1>1, <2>1, FirstMatch DEF Parsable
  <2>3. RouteOf(r, b).module \in Replied \ {None}
    BY <2>2, AnswersAssumption DEF Replied
  <2>4. Shown => RouteOf(r, b).module \in Due(r)
    BY <1>1, <1>2, <2>1, OwnAnswerIsDue
  <2> QED  BY <1>2, <2>3, <2>4, AnswerFits
<1>3. CASE /\ Arrived(r, b) /\ Matching(r, b) = {}
           /\ Answers(r, request[r].hops,
                      IF setup.global \cap setup.matches[r] # {} THEN Global ELSE NotFound)
  <2> DEFINE a == IF setup.global \cap setup.matches[r] # {} THEN Global ELSE NotFound
  <2>1. Up(b)
    BY <1>3, ArrivedFacts
  <2>2. a \in Replied \ {None}
    BY AnswersAssumption DEF Replied
  <2>3. Shown => a \in Due(r)
    BY <1>1, <1>3, <2>1, NoAnswerIsDue
  <2>4. Answers(r, request[r].hops, a)
    BY <1>3
  <2> HIDE DEF a
  <2> QED  BY <2>2, <2>3, <2>4, AnswerFits
<1> QED  BY <1>2, <1>3 DEF Handles

LEMMA ForwardsFits ==
  ASSUME ShardsInv, NEW r \in Requests, NEW b \in Builds, Forwards(r, b)
  PROVE  ShardsInv'
<1> DEFINE hops == request[r].hops
           to == Target(r, b)
           own == RouteOf(r, b).module
<1>1. /\ Arrived(r, b) /\ Matching(r, b) # {} /\ RouteOf(r, b).proxy
      /\ to # None /\ Up(to) /\ Answers(r, Append(hops, to), None)
  BY DEF Forwards, Routed
<1>2. /\ TypeOK /\ BuildInv /\ setup \in Setups
      /\ hops \in Seq(Builds) /\ Len(hops) \in Nat \ {0} /\ hops[Len(hops)] = b
      /\ request[r].reply = None /\ Up(b) /\ Apt(r, hops, None)
  BY <1>1, ArrivedFacts, RequestFacts DEF ShardsInv, TypeOK
<1>3. own \in Modules /\ own \in Parsable /\ ~Included(b, own)
  BY <1>1, <1>2, FirstMatch DEF Parsable, Included
<1>4. to \in Builds /\ to = setup.address[b][own]
  BY <1>1, <1>2, <1>3, SetupFacts DEF Target
<1> HIDE DEF hops, to, own
<1>5. /\ Append(hops, to) \in Seq(Builds) /\ Len(Append(hops, to)) = Len(hops) + 1
      /\ Append(hops, to)[Len(hops) + 1] = to
      /\ \A i \in 1..Len(hops) : Append(hops, to)[i] = hops[i]
  BY <1>2, <1>4
<1>6. \A i \in 1..Len(Append(hops, to)) : Up(Append(hops, to)[i])
  <2> SUFFICES ASSUME NEW i \in 1..Len(hops) + 1 PROVE Up(Append(hops, to)[i])
    BY <1>5
  <2>1. CASE i = Len(hops) + 1
    BY <1>1, <1>5, <2>1
  <2>2. CASE i \in 1..Len(hops)
    BY <1>2, <1>5, <2>2 DEF Apt
  <2> QED  BY <1>2, <2>1, <2>2
<1>7. ASSUME Discoverable, Direct, setup.fragile = {}
      PROVE  /\ Len(hops) = 1 /\ Owners(r, Parsable) # {}
             /\ Included(to, First(Owners(r, Parsable)))
  <2>1. Owners(r, Parsable) # {} /\ own = First(Owners(r, Parsable))
    BY <1>1, <1>2, <1>7, SameOwner DEF own
  <2>2. Len(hops) # 2
    BY <1>2, <1>3, <1>7, <2>1 DEF Apt
  <2>3. Len(hops) <= 2
    BY <1>2, <1>7 DEF Apt
  <2>4. Included(to, own)
    BY <1>1, <1>3, <1>4, <1>7 DEF Direct
  <2>5. Len(hops) \in Nat \ {0}
    BY <1>2
  <2>6. Len(hops) = 1
    <3>1. \A n \in Nat \ {0} : n <= 2 /\ n # 2 => n = 1
      OBVIOUS
    <3> QED  BY <2>2, <2>3, <2>5, <3>1
  <2> QED  BY <2>1, <2>4, <2>6
<1>8. ASSUME Discoverable, Direct, setup.fragile = {}
      PROVE  /\ Len(Append(hops, to)) = 2 /\ Append(hops, to)[2] = to
             /\ Owners(r, Parsable) # {} /\ Included(to, First(Owners(r, Parsable)))
  <2>1. Len(hops) = 1
    BY <1>7, <1>8
  <2>2. Len(Append(hops, to)) = 2 /\ Append(hops, to)[2] = to
    BY <1>5, <2>1
  <2> QED  BY <1>7, <1>8, <2>2
<1>9. Apt(r, Append(hops, to), None)
  <2> DEFINE h == Append(hops, to)
  <2>1. /\ \A i \in 1..Len(h) : Up(h[i])
        /\ Discoverable /\ Direct /\ setup.fragile = {} =>
             /\ Len(h) = 2 /\ h[2] = to
             /\ Owners(r, Parsable) # {} /\ Included(to, First(Owners(r, Parsable)))
    BY <1>6, <1>8
  <2> HIDE DEF h
  <2>2. Apt(r, h, None)
    BY <2>1 DEF Apt
  <2> QED  BY <2>2 DEF h
<1> QED  BY <1>1, <1>5, <1>9, AnswersFits DEF hops, Replied

LEMMA CannotForwardFits ==
  ASSUME ShardsInv, NEW r \in Requests, NEW b \in Builds, CannotForward(r, b)
  PROVE  ShardsInv'
<1>1. Answers(r, request[r].hops, Failed) /\ Failed \in Replied \ {None}
  BY AnswersAssumption DEF CannotForward, Replied
<1> QED  BY <1>1, AnswerFits

LEMMA RepliesFits ==
  ASSUME ShardsInv, NEW r \in Requests, Replies(r)
  PROVE  ShardsInv'
<1> DEFINE n == Len(request[r].hops) - 1
<1>1. /\ request[r].hops \in Seq(Builds) /\ request[r].reply \in Replied
      /\ Apt(r, request[r].hops, request[r].reply) /\ Len(request[r].hops) > 0
  BY RequestFacts DEF Replies
<1>2. n \in 0..Len(request[r].hops) /\ n < Len(request[r].hops)
  BY <1>1
<1>3. Answers(r, SubSeq(request[r].hops, 1, n), request[r].reply)
  BY DEF Replies, Front
<1> HIDE DEF n
<1>4. Apt(r, SubSeq(request[r].hops, 1, n), request[r].reply)
  BY <1>1, <1>2, CutFits DEF Apt
<1>5. SubSeq(request[r].hops, 1, n) \in Seq(Builds)
  BY <1>1, <1>2, Cut
<1> QED  BY <1>1, <1>3, <1>4, <1>5, AnswersFits

LEMMA TimesOutFits ==
  ASSUME ShardsInv, NEW r \in Requests, NEW i \in 1..MaxHops, TimesOut(r, i)
  PROVE  ShardsInv'
<1>1. /\ request[r].hops \in Seq(Builds) /\ Failed \in Replied /\ Failed # None
  BY RequestFacts, AnswersAssumption DEF Replied
<1>2. i < Len(request[r].hops) /\ Answers(r, SubSeq(request[r].hops, 1, i), Failed)
  BY DEF TimesOut
<1>3. i \in 0..Len(request[r].hops)
  BY <1>1, <1>2
<1>4. Apt(r, SubSeq(request[r].hops, 1, i), Failed)
  BY <1>1, <1>2, <1>3, CutFits
<1>5. SubSeq(request[r].hops, 1, i) \in Seq(Builds)
  BY <1>1, <1>3, Cut
<1> QED  BY <1>1, <1>2, <1>4, <1>5, AnswersFits

-----------------------------------------------------------------------------
(* The steps of builds *)

\* A build that loads serves no request yet.
LEMMA LoadingIs ==
  ASSUME NEW b \in Builds, Loading(b)
  PROVE  ~Up(b) /\ \E s : Becomes(b, s)
<1>1. CASE Starts(b) \/ Opens(b)
  BY <1>1 DEF Starts, Opens, Up
<1>2. ASSUME NEW m \in Modules, Skips(b, m) \/ Refuses(b, m) PROVE ~Up(b) /\ \E s : Becomes(b, s)
  BY <1>2 DEF Skips, Refuses, Loads, Up
<1>3. ASSUME NEW m \in Modules, Proxies(b, m) \/ Mounts(b, m) \/ FailsToMount(b, m)
      PROVE  ~Up(b) /\ \E s : Becomes(b, s)
  BY <1>3 DEF Proxies, Mounts, FailsToMount, Loadable, Loads, Up
<1> QED  BY <1>1, <1>2, <1>3 DEF Loading

LEMMA LoadingKeeps ==
  ASSUME ShardsInv, NEW b \in Builds, Loading(b)
  PROVE  ShardsInv'
<1>1. TypeOK' /\ BuildInv'
  BY LoadingFits DEF ShardsInv
<1>2. PICK s : server' = [server EXCEPT ![b] = s] /\ setup' = setup /\ request' = request
  BY LoadingIs DEF Becomes
<1>3. \A c \in Builds : Up(c) => Up(c)'
  <2> SUFFICES ASSUME NEW c \in Builds, Up(c) PROVE Up(c)'
    OBVIOUS
  <2>1. c # b
    BY LoadingIs
  <2> QED  BY <1>2, <2>1 DEF ShardsInv, TypeOK, Up
<1>4. ASSUME NEW r \in Requests PROVE Apt(r, request[r].hops, request[r].reply)'
  <2>1. PICK h, a : h = request[r].hops /\ a = request[r].reply
    OBVIOUS
  <2>2. h \in Seq(Builds) /\ Apt(r, h, a)
    BY <2>1, RequestFacts
  <2>3. \A i \in 1..Len(h) : Up(h[i])'
    BY <1>3, <2>2 DEF Apt
  <2>4. Apt(r, h, a)'
    BY <1>2, <2>2, <2>3, AptStays
  <2>5. request'[r].hops = h /\ request'[r].reply = a
    BY <1>2, <2>1
  <2> QED  BY <2>4, <2>5
<1> QED  BY <1>1, <1>4 DEF ShardsInv, RequestInv

\* What passed the build that ends goes back to where it was before.
LEMMA CrashesKeeps ==
  ASSUME ShardsInv, NEW b \in Builds, Crashes(b)
  PROVE  ShardsInv'
<1>1. /\ crashes \in 0..MaxCrashes /\ crashes < MaxCrashes /\ crashes' = crashes + 1
      /\ setup' = setup /\ setup \in Setups
      /\ server' = [server EXCEPT ![b] = Down] /\ server \in [Builds -> Servers]
  BY DEF Crashes, ShardsInv, TypeOK, Servers
<1>2. server' \in [Builds -> Servers] /\ crashes' \in 0..MaxCrashes
  BY <1>1, DownIs, BoundsAssumption
<1>3. ASSUME NEW c \in Builds PROVE Fit(c, server[c])'
  <2>1. CASE c = b
    BY <1>1, <2>1 DEF Down, Fit
  <2>2. CASE c # b
    BY <1>1, <2>2, FitStays DEF ShardsInv, BuildInv
  <2> QED  BY <2>1, <2>2
<1>4. \A c \in Builds : c # b /\ Up(c) => Up(c)'
  BY <1>1 DEF Up
<1>5. ASSUME NEW r \in Requests
      PROVE  /\ request'[r] \in [hops : Seq(Builds), reply : Replied]
             /\ Apt(r, request[r].hops, request[r].reply)'
  <2> DEFINE hops == request[r].hops
             at == {i \in 1..Len(hops) : hops[i] = b}
  <2>1. /\ hops \in Seq(Builds) /\ Apt(r, hops, request[r].reply)
        /\ request[r] \in [hops : Seq(Builds), reply : Replied]
    BY RequestFacts DEF ShardsInv, TypeOK, Replied
  <2>2. request'[r] = IF at = {} THEN request[r]
                      ELSE [hops |-> SubSeq(hops, 1, (CHOOSE i \in at : \A j \in at : i <= j) - 1),
                            reply |-> Failed]
    BY DEF Crashes
  <2>3. Failed \in Replied /\ Failed # None
    BY AnswersAssumption DEF Replied
  <2>4. PICK h, a : /\ request'[r] = [hops |-> h, reply |-> a] /\ Apt(r, h, a)
                    /\ h \in Seq(Builds) /\ a \in Replied
                    /\ \A i \in 1..Len(h) : h[i] # b
    <3>1. CASE at = {}
      BY <2>1, <2>2, <3>1
    <3>2. CASE at # {}
      <4> DEFINE first == CHOOSE i \in at : \A j \in at : i <= j
      <4>1. at \in SUBSET Nat
        OBVIOUS
      <4>2. first \in at /\ \A j \in at : first <= j
        BY <3>2, <4>1, Least
      <4>3. request'[r] = [hops |-> SubSeq(hops, 1, first - 1), reply |-> Failed]
        BY <2>2, <3>2
      <4>4. first - 1 \in 0..Len(hops)
        BY <2>1, <4>2
      <4>5. \A i \in 1..first - 1 : hops[i] # b
        <5>1. ASSUME NEW i \in 1..first - 1, hops[i] = b PROVE FALSE
          <6>1. i \in 1..Len(hops) /\ i < first
            BY <2>1, <4>2
          <6>2. i \in at
            BY <5>1, <6>1
          <6>3. first <= i /\ first \in Nat /\ i \in Nat
            BY <4>2, <6>1, <6>2
          <6> HIDE DEF first
          <6> QED  BY <6>1, <6>3
        <5> QED  BY <5>1
      <4> HIDE DEF first
      <4>6. /\ SubSeq(hops, 1, first - 1) \in Seq(Builds)
            /\ Len(SubSeq(hops, 1, first - 1)) = first - 1
            /\ \A i \in 1..first - 1 : SubSeq(hops, 1, first - 1)[i] = hops[i]
        BY <2>1, <4>4, Cut
      <4>7. Apt(r, SubSeq(hops, 1, first - 1), Failed)
        BY <2>3, <4>4, CutFits
      <4> HIDE DEF hops
      <4> QED  BY <2>3, <4>3, <4>5, <4>6, <4>7
    <3> QED  BY <3>1, <3>2
  <2>5. \A i \in 1..Len(h) : Up(h[i])'
    BY <1>4, <2>4 DEF Apt
  <2>6. Apt(r, h, a)'
    BY <1>1, <2>4, <2>5, AptStays
  <2>7. request'[r].hops = h /\ request'[r].reply = a
    BY <2>4
  <2> QED  BY <2>4, <2>6, <2>7
<1>6. request' \in [Requests -> [hops : Seq(Builds), reply : Replied]]
  <2>1. request' = [r \in Requests |-> request'[r]]
    BY DEF Crashes
  <2> QED  BY <1>5, <2>1
<1>7. TypeOK'
  BY <1>1, <1>2, <1>6 DEF TypeOK, Servers, Replied
<1> QED  BY <1>3, <1>5, <1>7 DEF ShardsInv, BuildInv, RequestInv

-----------------------------------------------------------------------------
(* The invariant, and what follows from it *)

LEMMA ShardsInit == Init => ShardsInv
<1> SUFFICES ASSUME Init PROVE ShardsInv
  OBVIOUS
<1> DEFINE none == <<>>
<1>1. /\ server = [b \in Builds |-> Down] /\ setup \in Setups /\ crashes = 0
      /\ request = [r \in Requests |-> [hops |-> none, reply |-> None]]
  BY DEF Init
<1>2. none \in Seq(Builds) /\ Len(none) = 0
  OBVIOUS
<1> HIDE DEF none
<1>3. TypeOK
  BY <1>1, <1>2, DownIs, BoundsAssumption DEF TypeOK, Servers
<1>4. Down.phase = "down"
  BY DEF Down
<1>5. BuildInv
  BY <1>1, <1>4 DEF BuildInv, Fit
<1>6. RequestInv
  <2> SUFFICES ASSUME NEW r \in Requests PROVE Apt(r, request[r].hops, request[r].reply)
    BY DEF RequestInv
  <2>1. request[r].hops = none /\ request[r].reply = None
    BY <1>1
  <2> QED  BY <1>2, <2>1 DEF Apt
<1> QED  BY <1>3, <1>5, <1>6 DEF ShardsInv

LEMMA ShardsNext == ShardsInv /\ [Next]_vars => ShardsInv'
<1> SUFFICES ASSUME ShardsInv, [Next]_vars PROVE ShardsInv'
  OBVIOUS
<1>1. ASSUME NEW r \in Requests, NEW b \in Builds,
             Handles(r, b) \/ Forwards(r, b) \/ CannotForward(r, b) \/ Sends(r, b)
      PROVE  ShardsInv'
  BY <1>1, HandlesFits, ForwardsFits, CannotForwardFits, SendsFits
<1>2. ASSUME NEW r \in Requests, Serving(r) PROVE ShardsInv'
  BY <1>1, <1>2, RepliesFits DEF Serving
<1>3. ASSUME NEW r \in Requests, Waiting(r) PROVE ShardsInv'
  BY <1>3, TimesOutFits DEF Waiting
<1>4. CASE UNCHANGED vars
  <2>1. /\ setup' = setup /\ server' = server /\ request' = request /\ crashes' = crashes
    BY <1>4 DEF vars
  <2>2. TypeOK'
    BY <2>1 DEF ShardsInv, TypeOK
  <2>3. BuildInv'
    BY <2>1, FitStays DEF ShardsInv, BuildInv
  <2>4. ASSUME NEW r \in Requests PROVE Apt(r, request[r].hops, request[r].reply)'
    <3>1. PICK h, a : h = request[r].hops /\ a = request[r].reply
      OBVIOUS
    <3>2. Apt(r, h, a) /\ \A i \in 1..Len(h) : Up(h[i])'
      BY <2>1, <3>1, RequestFacts DEF Apt, Up
    <3>3. Apt(r, h, a)'
      BY <2>1, <3>2, AptStays
    <3>4. request'[r].hops = h /\ request'[r].reply = a
      BY <2>1, <3>1
    <3> QED  BY <3>3, <3>4
  <2> QED  BY <2>2, <2>3, <2>4 DEF ShardsInv, RequestInv
<1> QED  BY <1>1, <1>2, <1>3, <1>4, LoadingKeeps, CrashesKeeps DEF Next

\* Whatever processes end and requests time out, what is said of builds and of requests
\* holds: the base of all that follows (project_loader.py:119-267).
THEOREM ShardsInvHolds == Spec => []ShardsInv
BY ShardsInit, ShardsNext, PTL DEF Spec

\* A build starts if and only if the declared paths of the whole project are disjoint,
\* whichever modules it includes: each build claims the paths of those it proxies, too
\* (project_loader.py:40-66, 186-189, 248-267).
THEOREM VerdictShared == Spec => []VerdictIsShared
<1>1. ShardsInv => VerdictIsShared
  <2> SUFFICES ASSUME ShardsInv, NEW b \in Builds
      PROVE  (Up(b) => Disjoint) /\ (server[b].phase = "refused" => ~Disjoint)
    BY DEF VerdictIsShared
  <2>1. ASSUME Up(b) PROVE Disjoint
    BY <2>1, UpFacts DEF ShardsInv, Claims, Disjoint
  <2> QED  BY <2>1 DEF ShardsInv, BuildInv, Fit
<1> QED  BY <1>1, ShardsInvHolds, PTL

\* Everything is listed where a build is up, and what it includes has a page.
LEMMA LandingIs ==
  ASSUME ShardsInv, NEW b \in Builds, Up(b), setup.include[b] # {}
  PROVE  /\ Landing(b) \in server[b].pages
         /\ (\E m \in setup.include[b] : setup.type[m] = "site")
              => setup.type[Landing(b)] = "site"
<1> DEFINE nav == server[b].nav
           sites == {i \in Reachable(b) : setup.type[nav[i]] = "site"}
           places == IF sites # {} THEN sites ELSE Reachable(b)
           place == CHOOSE i \in places : \A j \in places : i <= j
<1>1. /\ Done(server[b]) = Modules /\ Paged(b, server[b])
      /\ setup.include[b] \in SUBSET Modules
  BY UpFacts, SetupFacts DEF ShardsInv, TypeOK
<1>2. \A m \in setup.include[b] : \E i \in Reachable(b) : nav[i] = m
  BY <1>1 DEF Paged, Reachable, Included
<1>3. places # {} /\ places \in SUBSET Nat /\ places \subseteq Reachable(b)
  BY <1>2 DEF Reachable
<1>4. place \in places
  <2> HIDE DEF places
  <2>1. \E i \in places : \A j \in places : i <= j
    BY <1>3, Least
  <2> QED  BY <2>1
<1>5. Landing(b) = nav[place]
  BY <1>3 DEF Landing
<1> HIDE DEF place
<1>6. nav[place] \in server[b].pages
  BY <1>1, <1>3, <1>4 DEF Paged, Reachable
<1>7. ASSUME NEW m \in setup.include[b], setup.type[m] = "site"
      PROVE  setup.type[nav[place]] = "site"
  <2>1. sites # {}
    BY <1>2, <1>7
  <2> QED  BY <1>4, <2>1
<1> QED  BY <1>5, <1>6, <1>7

\* Where the raw address leads to is a page that the build serves (server.py:118-141).
THEOREM LandingServed == Spec => []LandingIsServed
<1>1. ShardsInv => LandingIsServed
  BY LandingIs DEF LandingIsServed
<1> QED  BY <1>1, ShardsInvHolds, PTL

\* Where routes are discoverable, references direct and imports sound, a request is
\* forwarded once at most: the second build takes it to be for the module that the first
\* took it to be for (project_loader.py:186-197, module.py:44-80).
THEOREM HopsOnce == Spec => []OneHop
<1>1. ShardsInv => OneHop
  BY DEF ShardsInv, RequestInv, Apt, OneHop
<1> QED  BY <1>1, ShardsInvHolds, PTL

-----------------------------------------------------------------------------
(* The promise of Api *)

ReplyOf(r) == IF request[r].hops = <<>> THEN request[r].reply ELSE None

\* The caller has no answer until the request has gone back all its hops.
LEMMA AnswerComes ==
  ASSUME ShardsInv, Shown, NEW r \in Requests, NEW h, NEW a,
         request'[r] = [hops |-> h, reply |-> a],
         request[r].hops # <<>> \/ request[r].reply = None,
         h = <<>> => a \in {request[r].reply, Failed} /\ a # None
  PROVE  \/ ReplyOf(r) = None /\ ReplyOf(r)' \in Due(r) \cup {Failed}
         \/ ReplyOf(r)' = ReplyOf(r)
<1>1. request'[r].hops = h /\ request'[r].reply = a
  OBVIOUS
<1>2. request[r].reply \in Due(r) \cup {None, Failed}
  BY RequestFacts DEF Apt
<1> QED  BY <1>1, <1>2 DEF ReplyOf

LEMMA AnswersPromised ==
  ASSUME ShardsInv, Shown, NEW r \in Requests, NEW h, NEW a, Answers(r, h, a),
         request[r].hops # <<>> \/ request[r].reply = None,
         h = <<>> => a \in {request[r].reply, Failed} /\ a # None,
         NEW q \in Requests
  PROVE  \/ ReplyOf(q) = None /\ ReplyOf(q)' \in Due(q) \cup {Failed}
         \/ ReplyOf(q)' = ReplyOf(q)
<1>1. request' = [request EXCEPT ![r] = [hops |-> h, reply |-> a]]
  BY DEF Answers
<1>2. CASE q = r
  <2>1. request'[r] = [hops |-> h, reply |-> a]
    BY <1>1 DEF ShardsInv, TypeOK
  <2> QED  BY <1>2, <2>1, AnswerComes
<1>3. CASE q # r
  <2>1. request'[q] = request[q]
    BY <1>1, <1>3 DEF ShardsInv, TypeOK
  <2> QED  BY <2>1 DEF ReplyOf
<1> QED  BY <1>2, <1>3

LEMMA StepsPromised ==
  ASSUME ShardsInv, Shown, Next, NEW q \in Requests
  PROVE  \/ ReplyOf(q) = None /\ ReplyOf(q)' \in Due(q) \cup {Failed}
         \/ ReplyOf(q)' = ReplyOf(q)
<1> DEFINE Promised == \/ ReplyOf(q) = None /\ ReplyOf(q)' \in Due(q) \cup {Failed}
                       \/ ReplyOf(q)' = ReplyOf(q)
<1> HIDE DEF Promised
<1>1. ASSUME NEW b \in Builds, Loading(b) PROVE Promised
  BY <1>1, LoadingIs DEF Becomes, ReplyOf, Promised
<1>2. ASSUME NEW b \in Builds, Crashes(b) PROVE Promised
  <2>1. \/ request'[q] = request[q]
        \/ \E h : request'[q] = [hops |-> h, reply |-> Failed] /\ request[q].hops # <<>>
    <3> DEFINE hops == request[q].hops
               at == {i \in 1..Len(hops) : hops[i] = b}
    <3>1. request'[q] = IF at = {} THEN request[q]
                        ELSE [hops |-> SubSeq(hops, 1,
                                              (CHOOSE i \in at : \A j \in at : i <= j) - 1),
                              reply |-> Failed]
      BY <1>2 DEF Crashes
    <3>2. at # {} => hops # <<>>
      BY RequestFacts
    <3> HIDE DEF at
    <3> QED  BY <3>1, <3>2
  <2>2. CASE request'[q] = request[q]
    BY <2>2 DEF ReplyOf, Promised
  <2>3. ASSUME NEW h, request'[q] = [hops |-> h, reply |-> Failed], request[q].hops # <<>>
        PROVE  Promised
    BY <2>3, AnswersAssumption, AnswerComes DEF Promised
  <2> QED  BY <2>1, <2>2, <2>3
<1>3. ASSUME NEW r \in Requests, NEW b \in Builds, Sends(r, b) PROVE Promised
  <2>1. PICK h : h = <<b>>
    OBVIOUS
  <2>2. h # <<>> /\ Answers(r, h, None) /\ request[r].reply = None
    BY <1>3, <2>1 DEF Sends
  <2> QED  BY <2>2, AnswersPromised DEF Promised
<1>4. ASSUME NEW r \in Requests, NEW b \in Builds,
             Handles(r, b) \/ Forwards(r, b) \/ CannotForward(r, b)
      PROVE  Promised
  <2>1. PICK h, a : /\ Answers(r, h, a)
                    /\ h \in {request[r].hops, Append(request[r].hops, Target(r, b))}
    BY <1>4 DEF Handles, Forwards, CannotForward
  <2>2. Arrived(r, b)
    BY <1>4 DEF Handles, Forwards, CannotForward, Routed
  <2>3. request[r].hops \in Seq(Builds) /\ Len(request[r].hops) \in Nat \ {0}
    BY <2>2, ArrivedFacts
  <2>4. request[r].hops # <<>> /\ Append(request[r].hops, Target(r, b)) # <<>>
    BY <2>3
  <2> QED  BY <2>1, <2>4, AnswersPromised DEF Promised
<1>5. ASSUME NEW r \in Requests, Replies(r) PROVE Promised
  <2>1. /\ Answers(r, Front(request[r].hops), request[r].reply)
        /\ request[r].reply # None /\ request[r].hops # <<>>
    BY <1>5 DEF Replies
  <2> QED  BY <2>1, AnswersPromised DEF Promised
<1>6. ASSUME NEW r \in Requests, NEW i \in 1..MaxHops, TimesOut(r, i) PROVE Promised
  <2>1. /\ Answers(r, SubSeq(request[r].hops, 1, i), Failed) /\ request[r].reply = None
        /\ Failed # None
    BY <1>6, AnswersAssumption DEF TimesOut
  <2>2. request[r].hops \in Seq(Builds) /\ i \in 1..Len(request[r].hops)
    BY <1>6, RequestFacts, BoundsAssumption DEF TimesOut
  <2> QED  BY <2>1, <2>2, AnswersPromised DEF Promised
<1>7. Promised
  BY <1>1, <1>2, <1>3, <1>4, <1>5, <1>6 DEF Next, Serving, Waiting
<1> QED  BY <1>7 DEF Promised

LEMMA KeepsPromise ==
  ASSUME ShardsInv, Shown, [Next]_vars
  PROVE  [Whole!Next]_Whole!vars /\ Shown'
<1> DEFINE due == [r \in Requests |-> Due(r)]
           answer == [r \in Requests |-> ReplyOf(r)]
<1>1. setup' = setup
  <2>1. \A b \in Builds : Loading(b) => setup' = setup
    BY LoadingIs DEF Becomes
  <2> QED  BY <2>1 DEF Next, vars, Crashes, Serving, Waiting, Sends, Replies, Handles, Forwards,
              CannotForward, TimesOut, Answers
<1>2. due' = due /\ Shown'
  <2>1. \A r \in Requests : Due(r)' = Due(r)
    BY <1>1, SameProject
  <2> QED  BY <1>1, <2>1, SameProject
<1>3. CASE Next
  <2>1. \A r \in Requests :
          \/ answer[r] = None /\ answer'[r] \in due[r] \cup {Failed}
          \/ answer'[r] = answer[r]
    BY <1>3, StepsPromised
  <2>2. Whole!Next
    BY <1>2, <2>1 DEF Whole!Next, Whole!Answers, Due, ReplyOf
  <2> QED  BY <1>2, <2>2
<1>4. CASE UNCHANGED vars
  <2>1. answer' = answer
    BY <1>4 DEF vars, ReplyOf
  <2> QED  BY <1>2, <2>1 DEF Whole!vars, Due, ReplyOf
<1> QED  BY <1>3, <1>4

\* No request gets an answer that the project in one process would not give, if no router
\* has routes that its syntax tree does not show.  References may lead anywhere, builds
\* may crash at any time, and imports may fail in some builds and not in others
\* (project_loader.py:119-167, 201-269).
THEOREM AnsweredAsMonolith == Spec /\ Shown => ServesAsMonolith
<1>1. Init => Whole!Init
  BY DEF Init, Whole!Init
<1>2. ShardsInv /\ Shown /\ [Next]_vars => [Whole!Next]_Whole!vars /\ Shown'
  BY KeepsPromise
<1>3. Shown /\ []ShardsInv /\ [][Next]_vars => [][Whole!Next]_Whole!vars
  BY <1>2, PTL
<1> QED  BY <1>1, <1>3, ShardsInvHolds, PTL DEF Spec, ServesAsMonolith, Whole!Spec

-----------------------------------------------------------------------------
(* Trees *)

\* What is under a path is in every set that has the path, and the children of what it
\* has of these.
LEMMA UnderInduction ==
  ASSUME NEW p \in DataPaths, NEW S \in SUBSET DataPaths, p \in S,
         \A r \in Below : Parent[r] \in S \cap Under[p] => r \in S
  PROVE  Under[p] \subseteq S
<1> DEFINE T == S \cap Under[p]
<1>1. p \in T
  BY DEF Under
<1>2. \A r \in Below : Parent[r] \in T => r \in T
  BY DEF Under, DataPaths
<1>3. T \in SUBSET DataPaths
  OBVIOUS
<1>4. \A q \in Under[p] : \A Q \in SUBSET DataPaths :
        p \in Q /\ (\A r \in Below : Parent[r] \in Q => r \in Q) => q \in Q
  BY DEF Under
<1> QED
  BY <1>1, <1>2, <1>3, <1>4

LEMMA UnderClosed ==
  ASSUME NEW p \in DataPaths
  PROVE  /\ p \in Under[p]
         /\ Under[p] \subseteq DataPaths
         /\ \A r \in Below : Parent[r] \in Under[p] => r \in Under[p]
BY DEF Under, DataPaths

\* Whatever is under a path, and is not the path, is in a directory under it.
LEMMA UnderParent ==
  ASSUME NEW p \in DataPaths, NEW q \in Under[p], q # p
  PROVE  q \in Below /\ Parent[q] \in Under[p]
<1> DEFINE S == {r \in Under[p] : r = p \/ (r \in Below /\ Parent[r] \in Under[p])}
<1>1. p \in S /\ S \in SUBSET DataPaths
  BY UnderClosed
<1>2. \A r \in Below : Parent[r] \in S \cap Under[p] => r \in S
  BY UnderClosed
<1>3. Under[p] \subseteq S
  <2> HIDE DEF S
  <2> QED BY <1>1, <1>2, UnderInduction
<1> QED
  BY <1>3

\* A directory, and what is under its children.
LEMMA UnderChildren ==
  ASSUME NEW p \in DataPaths, NEW q \in Under[p], q # p
  PROVE  \E c \in Below : Parent[c] = p /\ q \in Under[c]
<1> DEFINE S == {r \in Under[p] : r = p \/ \E c \in Below : Parent[c] = p /\ r \in Under[c]}
<1>1. p \in S /\ S \in SUBSET DataPaths
  BY UnderClosed
<1>2. ASSUME NEW r \in Below, Parent[r] \in S \cap Under[p]
      PROVE  r \in S
  <2>1. r \in Under[p]
    BY <1>2, UnderClosed
  <2>2. CASE Parent[r] = p
    BY <2>1, <2>2, UnderClosed DEF DataPaths
  <2>3. ASSUME NEW c \in Below, Parent[c] = p, Parent[r] \in Under[c]
        PROVE  r \in S
    BY <2>1, <2>3, UnderClosed DEF DataPaths
  <2> QED
    BY <1>2, <2>2, <2>3
<1>3. Under[p] \subseteq S
  <2> HIDE DEF S
  <2> QED BY <1>1, <1>2, UnderInduction
<1> QED
  BY <1>3

\* Above something is a directory.
LEMMA DirAbove ==
  ASSUME NEW t, IsTree(t), NEW p \in DataPaths, NEW q \in Under[p], q # p, t[q] # "none"
  PROVE  t[p] = "dir"
<1> DEFINE S == {r \in Under[p] : r = p \/ (t[r] # "none" => t[p] = "dir")}
<1>1. p \in S /\ S \in SUBSET DataPaths
  BY UnderClosed
<1>2. \A r \in Below : Parent[r] \in S \cap Under[p] => r \in S
  BY UnderClosed DEF IsTree
<1>3. Under[p] \subseteq S
  <2> HIDE DEF S
  <2> QED BY <1>1, <1>2, UnderInduction
<1> QED
  BY <1>3

LEMMA UnderBelow ==
  ASSUME NEW p \in Below
  PROVE  Under[p] \subseteq Below
BY UnderParent DEF DataPaths

LEMMA UnderOfParent ==
  ASSUME NEW p \in Below
  PROVE  Under[p] \subseteq Under[Parent[p]]
<1> DEFINE S == Under[Parent[p]]
<1>1. Parent[p] \in DataPaths /\ p \in DataPaths
  BY DataPathsAssumption DEF DataPaths
<1>2. p \in S /\ S \in SUBSET DataPaths
  BY <1>1, UnderClosed
<1>3. \A r \in Below : Parent[r] \in S \cap Under[p] => r \in S
  BY <1>1, UnderClosed
<1> QED
  <2> HIDE DEF S
  <2>1. Under[p] \subseteq S
    BY <1>1, <1>2, <1>3, UnderInduction
  <2> QED BY <2>1 DEF S

\* What a step does to a tree leaves it one.
LEMMA TreeWithout ==
  ASSUME NEW k, NEW t \in Tree(k), NEW p \in Below, Children(p, t) = {}, "none" \in k
  PROVE  [t EXCEPT ![p] = "none"] \in Tree(k)
BY DataPathsAssumption DEF Tree, IsTree, Children, DataPaths

LEMMA TreeWithFile ==
  ASSUME NEW k, NEW t \in Tree(k), NEW p \in Below, t[Parent[p]] = "dir", t[p] # "dir",
         NEW c \in k
  PROVE  [t EXCEPT ![p] = c] \in Tree(k)
BY DataPathsAssumption DEF Tree, IsTree, DataPaths

LEMMA TreeWithDirs ==
  ASSUME NEW k, NEW t \in Tree(k), NEW p \in Below, \A q \in Above(p) : ~IsFile(q, t),
         "dir" \in k
  PROVE  [q \in DataPaths |-> IF q \in Above(p) THEN "dir" ELSE t[q]] \in Tree(k)
<1> DEFINE n == [q \in DataPaths |-> IF q \in Above(p) THEN "dir" ELSE t[q]]
<1>1. n \in [DataPaths -> k]
  BY DEF Tree
<1>2. n[Root] \in {"none", "dir"}
  BY DEF Tree, IsTree, DataPaths
<1>3. ASSUME NEW r \in Below, n[r] # "none"
      PROVE  n[Parent[r]] = "dir"
  <2>1. r \in DataPaths /\ Parent[r] \in DataPaths
    BY DataPathsAssumption DEF DataPaths
  <2>2. CASE r \in Above(p)
    BY <2>1, <2>2, UnderOfParent DEF Above
  <2>3. CASE r \notin Above(p)
    BY <1>3, <2>1, <2>3 DEF Tree, IsTree
  <2> QED BY <2>2, <2>3
<1> QED
  BY <1>1, <1>2, <1>3 DEF Tree, IsTree

LEMMA TreeWithRoot ==
  ASSUME NEW k, NEW t \in Tree(k), "dir" \in k
  PROVE  [t EXCEPT ![Root] = "dir"] \in Tree(k)
BY DataPathsAssumption DEF Tree, IsTree, DataPaths

-----------------------------------------------------------------------------
(* Calls *)

CallsOf == [dir : DataPaths, loop : 1..2, todo : SUBSET Below]

Dir(w, i) == frames[w][i].dir
Loop(w, i) == frames[w][i].loop
Todo(w, i) == frames[w][i].todo

FramesTyped == frames \in [Processes -> Seq(CallsOf)]

\* The other processes' calls are left alone.
LEMMA OthersCalls ==
  ASSUME NEW w \in Processes, FramesTyped, NEW s, frames' = [frames EXCEPT ![w] = s]
  PROVE  \A u \in Processes \ {w} :
           /\ frames[u]' = frames[u] /\ Depth(u)' = Depth(u)
           /\ \A i : Dir(u, i)' = Dir(u, i) /\ Loop(u, i)' = Loop(u, i) /\ Todo(u, i)' = Todo(u, i)
BY DEF FramesTyped, Depth, Dir, Loop, Todo

\* Calls of which the innermost one has other items.
Having(s, T) == [s EXCEPT ![Len(s)].todo = T]

LEMMA WithTodo ==
  ASSUME NEW s \in Seq(CallsOf), s # <<>>, NEW T \in SUBSET Below
  PROVE  /\ Having(s, T) \in Seq(CallsOf)
         /\ Len(Having(s, T)) = Len(s)
         /\ \A i \in 1..Len(s) :
              /\ Having(s, T)[i].dir = s[i].dir
              /\ Having(s, T)[i].loop = s[i].loop
              /\ Having(s, T)[i].todo = IF i = Len(s) THEN T ELSE s[i].todo
<1> DEFINE c == [s[Len(s)] EXCEPT !.todo = T]
<1>1. Len(s) \in 1..Len(s)
  BY EmptySeq, LenProperties
<1>2. s[Len(s)] \in CallsOf /\ c \in CallsOf /\ c.dir = s[Len(s)].dir /\ c.loop = s[Len(s)].loop
      /\ c.todo = T
  <2>1. s[Len(s)] \in CallsOf
    BY <1>1, ElementOfSeq
  <2>2. \A r \in CallsOf :
          /\ [r EXCEPT !.todo = T] \in CallsOf /\ [r EXCEPT !.todo = T].dir = r.dir
          /\ [r EXCEPT !.todo = T].loop = r.loop /\ [r EXCEPT !.todo = T].todo = T
    BY DEF CallsOf
  <2> QED BY <2>1, <2>2
<1>3. Having(s, T) = [s EXCEPT ![Len(s)] = c]
  BY DEF Having
<1> HIDE DEF c
<1>4. [s EXCEPT ![Len(s)] = c] \in Seq(CallsOf) /\ Len([s EXCEPT ![Len(s)] = c]) = Len(s)
      /\ \A i \in 1..Len(s) : [s EXCEPT ![Len(s)] = c][i] = IF i = Len(s) THEN c ELSE s[i]
  BY <1>1, <1>2, ExceptSeq
<1> QED
  BY <1>2, <1>3, <1>4

\* The innermost call takes an item: what it still has, and nothing else, changes.
LEMMA ItemTaken ==
  ASSUME FramesTyped, NEW w \in Processes, frames[w] # <<>>, NEW p,
         frames' = [frames EXCEPT ![w] = Without(w, p)]
  PROVE  /\ FramesTyped'
         /\ \A u \in Processes :
              /\ (frames[u] = <<>>)' <=> frames[u] = <<>>
              /\ Depth(u)' = Depth(u)
              /\ \A i \in 1..Depth(u) :
                   /\ Dir(u, i)' = Dir(u, i) /\ Loop(u, i)' = Loop(u, i)
                   /\ Todo(u, i)' =
                        IF u = w /\ i = Depth(w) THEN Todo(u, i) \ {p} ELSE Todo(u, i)
<1> DEFINE T == frames[w][Len(frames[w])].todo \ {p}
<1>1. frames[w] \in Seq(CallsOf) /\ Len(frames[w]) \in Nat
  BY LenProperties DEF FramesTyped
<1>2. frames[w][Len(frames[w])] \in CallsOf
  BY <1>1, EmptySeq, LenProperties, ElementOfSeq
<1>3. T \in SUBSET Below
  BY <1>2 DEF CallsOf
<1>4. frames[w]' = Having(frames[w], T)
  BY DEF FramesTyped, Without, Depth, Having
<1> HIDE DEF T
<1>5. /\ frames[w]' \in Seq(CallsOf)
      /\ Len(frames[w])' = Len(frames[w])
      /\ \A i \in 1..Len(frames[w]) :
           /\ frames[w]'[i].dir = frames[w][i].dir
           /\ frames[w]'[i].loop = frames[w][i].loop
           /\ frames[w]'[i].todo = IF i = Len(frames[w]) THEN T ELSE frames[w][i].todo
  <2>1. PICK s \in Seq(CallsOf) : s = frames[w]
    BY <1>1
  <2>2. PICK t \in SUBSET Below : t = T
    BY <1>3
  <2>3. s # <<>>
    BY <2>1
  <2> QED
    BY <1>4, <2>1, <2>2, <2>3, WithTodo
<1>6. \A u \in Processes : u # w => frames[u]' = frames[u]
  BY DEF FramesTyped
<1>7. FramesTyped'
  BY <1>5, <1>6 DEF FramesTyped, Without
<1>8. ASSUME NEW u \in Processes
      PROVE  /\ (frames[u] = <<>>)' <=> frames[u] = <<>>
             /\ Depth(u)' = Depth(u)
             /\ \A i \in 1..Depth(u) :
                  /\ Dir(u, i)' = Dir(u, i) /\ Loop(u, i)' = Loop(u, i)
                  /\ Todo(u, i)' =
                       IF u = w /\ i = Depth(w) THEN Todo(u, i) \ {p} ELSE Todo(u, i)
  <2>1. CASE u # w
    BY <1>6, <2>1 DEF Depth, Dir, Loop, Todo
  <2>2. CASE u = w
    <3>1. frames[w]' # <<>>
      BY <1>1, <1>5, EmptySeq, LenProperties
    <3> QED
      BY <1>5, <2>2, <3>1 DEF Depth, Dir, Loop, Todo, T
  <2> QED BY <2>1, <2>2
<1> QED
  BY <1>7, <1>8

LEMMA CallTyped ==
  ASSUME NEW d \in DataPaths, NEW t
  PROVE  /\ Call(d, t) \in CallsOf
         /\ Call(d, t).dir = d /\ Call(d, t).loop = 1 /\ Call(d, t).todo = Children(d, t)
BY DEF Call, CallsOf, Children

\* ... and a call for the item begins.
LEMMA Descended ==
  ASSUME FramesTyped, NEW w \in Processes, frames[w] # <<>>, NEW p \in DataPaths,
         frames' = [frames EXCEPT ![w] = Append(Without(w, p), Call(p, dst))]
  PROVE  /\ FramesTyped'
         /\ Depth(w)' = Depth(w) + 1 /\ frames[w]' # <<>>
         /\ \A i \in 1..Depth(w) :
              /\ Dir(w, i)' = Dir(w, i) /\ Loop(w, i)' = Loop(w, i)
              /\ Todo(w, i)' = IF i = Depth(w) THEN Todo(w, i) \ {p} ELSE Todo(w, i)
         /\ \A i : i = Depth(w) + 1 =>
              Dir(w, i)' = p /\ Loop(w, i)' = 1 /\ Todo(w, i)' = Children(p, dst)
<1> DEFINE T == frames[w][Len(frames[w])].todo \ {p}
           s == Having(frames[w], T)
           c == Call(p, dst)
           n == Len(frames[w])
<1>1. frames[w] \in Seq(CallsOf) /\ n \in Nat
  BY LenProperties DEF FramesTyped
<1>2. frames[w][Len(frames[w])] \in CallsOf
  BY <1>1, EmptySeq, LenProperties, ElementOfSeq
<1>3. T \in SUBSET Below
  BY <1>2 DEF CallsOf
<1>4. frames[w]' = Append(s, c)
  BY DEF FramesTyped, Without, Depth, Having
<1>5. c \in CallsOf /\ c.dir = p /\ c.loop = 1 /\ c.todo = Children(p, dst)
  BY CallTyped
<1> HIDE DEF T, c
<1>6. /\ s \in Seq(CallsOf)
      /\ Len(s) = n
      /\ \A i \in 1..n :
           /\ s[i].dir = frames[w][i].dir /\ s[i].loop = frames[w][i].loop
           /\ s[i].todo = IF i = n THEN T ELSE frames[w][i].todo
  <2>1. PICK q \in Seq(CallsOf) : q = frames[w]
    BY <1>1
  <2>2. PICK t \in SUBSET Below : t = T
    BY <1>3
  <2>3. q # <<>>
    BY <2>1
  <2> QED
    BY <2>1, <2>2, <2>3, WithTodo
<1> HIDE DEF s
<1>7. /\ frames[w]' \in Seq(CallsOf) /\ frames[w]' # <<>>
      /\ Len(frames[w]') = n + 1
      /\ \A i \in 1..n : frames[w]'[i] = s[i]
      /\ frames[w]'[n + 1] = c
  <2>1. PICK q \in Seq(CallsOf) : q = s
    BY <1>6
  <2>2. PICK e \in CallsOf : e = c
    BY <1>5
  <2>3. /\ Append(q, e) \in Seq(CallsOf) /\ Append(q, e) # <<>>
        /\ Len(Append(q, e)) = Len(q) + 1
        /\ \A i \in 1..Len(q) : Append(q, e)[i] = q[i]
        /\ Append(q, e)[Len(q) + 1] = e
    BY AppendProperties
  <2> QED
    BY <1>4, <1>6, <2>1, <2>2, <2>3
<1>8. \A u \in Processes : u # w => frames[u]' = frames[u]
  BY DEF FramesTyped
<1>9. FramesTyped'
  BY <1>7, <1>8 DEF FramesTyped
<1>10. \A i \in 1..n :
         /\ frames[w]'[i].dir = frames[w][i].dir /\ frames[w]'[i].loop = frames[w][i].loop
         /\ frames[w]'[i].todo = IF i = n THEN T ELSE frames[w][i].todo
  BY <1>6, <1>7
<1> HIDE DEF n
<1>11. frames[w]'[n + 1].dir = p /\ frames[w]'[n + 1].loop = 1
       /\ frames[w]'[n + 1].todo = Children(p, dst)
  BY <1>5, <1>7
<1> QED
  BY <1>7, <1>9, <1>10, <1>11 DEF Depth, Dir, Loop, Todo, T, n

LEMMA CallListed ==
  ASSUME FramesTyped, NEW w \in Processes, frames[w] # <<>>, NEW T \in SUBSET Below,
         frames' = [frames EXCEPT ![w][Depth(w)] = [dir |-> @.dir, loop |-> 2, todo |-> T]]
  PROVE  /\ FramesTyped'
         /\ Depth(w)' = Depth(w) /\ frames[w]' # <<>>
         /\ \A i \in 1..Depth(w) :
              /\ Dir(w, i)' = Dir(w, i)
              /\ Loop(w, i)' = IF i = Depth(w) THEN 2 ELSE Loop(w, i)
              /\ Todo(w, i)' = IF i = Depth(w) THEN T ELSE Todo(w, i)
<1> DEFINE n == Len(frames[w])
           c == [dir |-> frames[w][n].dir, loop |-> 2, todo |-> T]
<1>1. frames[w] \in Seq(CallsOf) /\ n \in Nat /\ n \in 1..n
  BY LenProperties, EmptySeq DEF FramesTyped
<1>2. frames[w][n] \in CallsOf
  BY <1>1, ElementOfSeq
<1>3. c \in CallsOf /\ c.dir = frames[w][n].dir /\ c.loop = 2 /\ c.todo = T
  BY <1>2 DEF CallsOf
<1>4. frames[w]' = [frames[w] EXCEPT ![n] = c]
  BY DEF FramesTyped, Depth
<1> HIDE DEF c, n
<1>5. /\ frames[w]' \in Seq(CallsOf) /\ Len(frames[w]') = n
      /\ \A i \in 1..n : frames[w]'[i] = IF i = n THEN c ELSE frames[w][i]
  <2>1. PICK q \in Seq(CallsOf) : q = frames[w]
    BY <1>1
  <2>2. PICK e \in CallsOf : e = c
    BY <1>3
  <2>3. Len(q) = n
    BY <2>1 DEF n
  <2>6. PICK m \in 1..Len(q) : m = n
    BY <1>1, <2>3
  <2>4. /\ [q EXCEPT ![m] = e] \in Seq(CallsOf) /\ Len([q EXCEPT ![m] = e]) = Len(q)
        /\ \A i \in 1..Len(q) : [q EXCEPT ![m] = e][i] = IF i = m THEN e ELSE q[i]
    BY ExceptSeq
  <2>5. frames[w]' = [q EXCEPT ![m] = e]
    BY <1>4, <2>1, <2>2, <2>6
  <2> QED
    BY <2>2, <2>3, <2>4, <2>5, <2>6, <2>1
<1>6. frames[w]' # <<>>
  BY <1>1, <1>5, LenProperties, EmptySeq
<1>7. \A u \in Processes : u # w => frames[u]' = frames[u]
  BY DEF FramesTyped
<1>8. FramesTyped'
  BY <1>5, <1>7 DEF FramesTyped
<1>9. \A i \in 1..n :
        /\ frames[w]'[i].dir = frames[w][i].dir
        /\ frames[w]'[i].loop = IF i = n THEN 2 ELSE frames[w][i].loop
        /\ frames[w]'[i].todo = IF i = n THEN T ELSE frames[w][i].todo
  BY <1>3, <1>5
<1> QED
  BY <1>5, <1>6, <1>8, <1>9 DEF Depth, Dir, Loop, Todo, n

LEMMA Returned ==
  ASSUME FramesTyped, NEW w \in Processes, frames[w] # <<>>,
         frames' = [frames EXCEPT ![w] = SubSeq(@, 1, Depth(w) - 1)]
  PROVE  /\ FramesTyped'
         /\ Depth(w) \in Nat \ {0} /\ Depth(w)' = Depth(w) - 1
         /\ frames[w]' = <<>> <=> Depth(w) = 1
         /\ \A i \in 1..Depth(w) - 1 :
              Dir(w, i)' = Dir(w, i) /\ Loop(w, i)' = Loop(w, i) /\ Todo(w, i)' = Todo(w, i)
<1> DEFINE n == Len(frames[w])
<1>1. frames[w] \in Seq(CallsOf) /\ n \in Nat /\ n \in 1..n
  BY LenProperties, EmptySeq DEF FramesTyped
<1>2. frames[w]' = SubSeq(frames[w], 1, n - 1)
  BY DEF FramesTyped, Depth
<1>3. /\ frames[w]' \in Seq(CallsOf) /\ Len(frames[w]') = n - 1
      /\ \A i \in 1..n - 1 : frames[w]'[i] = frames[w][i]
  <2>1. PICK q \in Seq(CallsOf) : q = frames[w]
    BY <1>1
  <2>2. \A k \in Nat : k \in 1..k => k - 1 \in Nat /\ k - 1 <= k
    OBVIOUS
  <2>3. PICK m \in Nat : m = n - 1 /\ m <= Len(q)
    BY <1>1, <2>1, <2>2
  <2>4. /\ SubSeq(q, 1, m) \in Seq(CallsOf) /\ Len(SubSeq(q, 1, m)) = m
        /\ \A i \in 1..m : SubSeq(q, 1, m)[i] = q[i]
    BY <2>3, ElementOfSeq, SubSeqProperties
  <2> QED
    BY <1>1, <1>2, <2>1, <2>3, <2>4
<1>4. frames[w]' = <<>> <=> n = 1
  <2>1. \A s \in Seq(CallsOf) : s = <<>> <=> Len(s) = 0
    BY EmptySeq
  <2>2. frames[w]' = <<>> <=> Len(frames[w]') = 0
    BY <1>3, <2>1
  <2> HIDE DEF n
  <2> QED
    BY <1>1, <1>3, <2>2
<1>5. \A u \in Processes : u # w => frames[u]' = frames[u]
  BY DEF FramesTyped
<1>6. FramesTyped'
  BY <1>3, <1>5 DEF FramesTyped
<1> QED
  BY <1>1, <1>3, <1>4, <1>6 DEF Depth, Dir, Loop, Todo

LEMMA Called ==
  ASSUME FramesTyped, NEW w \in Processes, NEW d \in DataPaths, NEW t,
         frames' = [frames EXCEPT ![w] = <<Call(d, t)>>]
  PROVE  /\ FramesTyped' /\ frames[w]' # <<>>
         /\ Depth(w)' = 1
         /\ Dir(w, 1)' = d /\ Loop(w, 1)' = 1 /\ Todo(w, 1)' = Children(d, t)
<1> DEFINE c == Call(d, t)
<1>1. c \in CallsOf /\ c.dir = d /\ c.loop = 1 /\ c.todo = Children(d, t)
  BY CallTyped
<1>2. frames[w]' = <<c>>
  BY DEF FramesTyped
<1> HIDE DEF c
<1>3. <<c>> \in Seq(CallsOf) /\ Len(<<c>>) = 1 /\ <<c>>[1] = c /\ <<c>> # <<>>
  BY <1>1
<1>4. \A u \in Processes : u # w => frames[u]' = frames[u]
  BY DEF FramesTyped
<1> QED
  BY <1>1, <1>2, <1>3, <1>4 DEF FramesTyped, Depth, Dir, Loop, Todo

-----------------------------------------------------------------------------
(* Types *)

JobTyped == job \in [Processes -> Jobs]

LEMMA NewJobs ==
  ASSUME NEW p \in Below
  PROVE  NoJob \in Jobs /\ Removal(p) \in Jobs /\ Copy(p) \in Jobs
BY UnderBelow DEF NoJob, Removal, Copy, Jobs, Subtree

LEMMA NoJobTyped == NoJob \in Jobs
BY DEF NoJob, Jobs

\* What a step changes of its process's job.
LEMMA OthersJobs ==
  ASSUME JobTyped, NEW w \in Processes, NEW j, job' = [job EXCEPT ![w] = j]
  PROVE  job'[w] = j /\ \A u \in Processes : u # w => job'[u] = job[u]
BY DEF JobTyped

LEMMA LeftTaken ==
  ASSUME JobTyped, NEW w \in Processes, NEW D, job' = [job EXCEPT ![w].left = @ \ D]
  PROVE  /\ JobTyped'
         /\ job'[w].left = job[w].left \ D /\ job'[w].op = job[w].op
         /\ job'[w].dirs = job[w].dirs /\ job'[w].open = job[w].open
         /\ job'[w].failed = job[w].failed
         /\ \A u \in Processes : u # w => job'[u] = job[u]
BY DEF JobTyped, Jobs

LEMMA Opened ==
  ASSUME JobTyped, NEW w \in Processes, NEW p \in Below, job' = [job EXCEPT ![w].open = p]
  PROVE  /\ JobTyped'
         /\ job'[w].left = job[w].left /\ job'[w].op = job[w].op
         /\ job'[w].dirs = job[w].dirs /\ job'[w].open = p
         /\ job'[w].failed = job[w].failed
         /\ \A u \in Processes : u # w => job'[u] = job[u]
BY DEF JobTyped, Jobs

LEMMA Filled ==
  ASSUME JobTyped, NEW w \in Processes, NEW p,
         job' = [job EXCEPT ![w] = [job[w] EXCEPT !.open = NoPath, !.left = @ \ {p}]]
  PROVE  /\ JobTyped'
         /\ job'[w].left = job[w].left \ {p} /\ job'[w].op = job[w].op
         /\ job'[w].dirs = job[w].dirs /\ job'[w].open = NoPath
         /\ job'[w].failed = job[w].failed
         /\ \A u \in Processes : u # w => job'[u] = job[u]
<1>1. \A j \in Jobs :
        LET n == [j EXCEPT !.open = NoPath, !.left = @ \ {p}]
        IN  /\ n \in Jobs /\ n.left = j.left \ {p} /\ n.op = j.op /\ n.dirs = j.dirs
            /\ n.open = NoPath /\ n.failed = j.failed
  BY DEF Jobs
<1> QED
  BY <1>1 DEF JobTyped

LEMMA Skipped ==
  ASSUME JobTyped, NEW w \in Processes, NEW D,
         job' = [job EXCEPT ![w] = [job[w] EXCEPT !.failed = TRUE, !.left = @ \ D]]
  PROVE  /\ JobTyped'
         /\ job'[w].left = job[w].left \ D /\ job'[w].op = job[w].op
         /\ job'[w].dirs = job[w].dirs /\ job'[w].open = job[w].open
         /\ job'[w].failed = TRUE
         /\ \A u \in Processes : u # w => job'[u] = job[u]
<1>1. \A j \in Jobs :
        LET n == [j EXCEPT !.failed = TRUE, !.left = @ \ D]
        IN  /\ n \in Jobs /\ n.left = j.left \ D /\ n.op = j.op /\ n.dirs = j.dirs
            /\ n.open = j.open /\ n.failed = TRUE
  BY DEF Jobs
<1> QED
  BY <1>1 DEF JobTyped

LEMMA SyncTypeInit == SyncInit => SyncTypeOK
<1> SUFFICES ASSUME SyncInit PROVE SyncTypeOK
  OBVIOUS
<1>1. src \in Tree({"none", "dir"} \cup FileContents)
  BY MachinesAssumption DEF SyncInit, Sources, Tree
<1>2. dst \in Tree({"none", "dir", Partial} \cup FileContents)
  BY DEF SyncInit, Tree, IsTree, DataPaths
<1>3. frames \in [Processes -> Seq(CallsOf)]
  BY DEF SyncInit
<1> QED
  BY <1>1, <1>2, <1>3, NoJobTyped DEF SyncInit, SyncTypeOK, CallsOf

LEMMA StopTyped ==
  ASSUME SyncTypeOK, NEW w \in Processes, NEW next \in {"down", "failed"}, Stop(w, next)
  PROVE  SyncTypeOK'
<1>1. frames \in [Processes -> Seq(CallsOf)]
  BY DEF SyncTypeOK, CallsOf
<1>2. <<>> \in Seq(CallsOf)
  OBVIOUS
<1>3. frames' \in [Processes -> Seq(CallsOf)]
  BY <1>1, <1>2 DEF Stop
<1> QED
  BY <1>3, NoJobTyped DEF SyncTypeOK, Stop, CallsOf

LEMMA SyncTypeNext ==
  ASSUME SyncTypeOK, [SyncNext]_syncVars
  PROVE  SyncTypeOK'
<1> DEFINE Kinds == {"none", "dir", Partial} \cup FileContents
<1>0. /\ FramesTyped /\ JobTyped
      /\ machine \in Machines /\ machine.processes \subseteq Processes
      /\ machine.names \subseteq Below /\ machine.contents \subseteq FileContents
  BY MachinesAssumption DEF SyncTypeOK, FramesTyped, JobTyped, CallsOf
<1>1. CASE EditsData
  <2>1. src' \in Tree({"none", "dir"} \cup FileContents)
    <3>1. PICK p \in DataPaths, k \in {"none", "dir"} \cup FileContents :
            src' = [src EXCEPT ![p] = k] /\ IsTree(src')
      BY <1>0, <1>1 DEF EditsData, Changed, DataPaths
    <3>2. src \in [DataPaths -> {"none", "dir"} \cup FileContents]
      BY DEF SyncTypeOK, Tree
    <3>3. src' \in [DataPaths -> {"none", "dir"} \cup FileContents]
      BY <3>1, <3>2
    <3> QED BY <3>1, <3>3 DEF Tree
  <2> QED BY <1>1, <2>1 DEF EditsData, SyncTypeOK
<1>2. CASE ModuleWrites
  <2>1. dst' \in Tree(Kinds)
    <3>1. PICK p \in DataPaths, k \in Kinds : dst' = [dst EXCEPT ![p] = k] /\ IsTree(dst')
      BY <1>0, <1>2 DEF ModuleWrites, Changed, DataPaths
    <3>2. dst \in [DataPaths -> Kinds]
      BY DEF SyncTypeOK, Tree
    <3>3. dst' \in [DataPaths -> Kinds]
      BY <3>1, <3>2
    <3> QED BY <3>1, <3>3 DEF Tree
  <2> QED BY <1>2, <2>1 DEF ModuleWrites, SyncTypeOK
<1>3. ASSUME NEW w \in machine.processes, Launch(w)
      PROVE  SyncTypeOK'
  <2>1. dst' \in Tree(Kinds)
    BY <1>3, TreeWithRoot DEF Launch, SyncTypeOK
  <2>2. frames' \in [Processes -> Seq(CallsOf)]
    BY <1>0, <1>3, Called DEF Launch, FramesTyped, DataPaths
  <2>3. /\ stage' \in [Processes -> {"down", "syncing", "running", "failed"}]
        /\ touched' \subseteq Processes /\ overlapped' \subseteq Processes
    BY <1>0, <1>3 DEF Launch, SyncTypeOK, Others
  <2> QED
    BY <1>3, <2>1, <2>2, <2>3 DEF Launch, SyncTypeOK, CallsOf
<1>4. ASSUME NEW w \in machine.processes, Crash(w)
      PROVE  SyncTypeOK'
  BY <1>0, <1>4, StopTyped DEF Crash
<1>5. ASSUME NEW w \in machine.processes, NEW p \in Below, FirstLoop(w, p) \/ SecondLoop(w, p)
      PROVE  SyncTypeOK'
  <2>1. frames' \in [Processes -> Seq(CallsOf)]
    BY <1>0, <1>5, ItemTaken, Descended
       DEF FirstLoop, SecondLoop, Drops, Descends, Keeps, Copies, Agrees, Working, FramesTyped,
           DataPaths
  <2>2. job' \in [Processes -> Jobs]
    BY <1>0, <1>5, NewJobs
       DEF FirstLoop, SecondLoop, Drops, Descends, Keeps, Copies, Agrees, JobTyped
  <2>3. UNCHANGED <<src, dst, stage, history>>
    BY <1>5 DEF FirstLoop, SecondLoop, Drops, Descends, Keeps, Copies, Agrees
  <2> QED
    BY <2>1, <2>2, <2>3 DEF SyncTypeOK, CallsOf, history
<1>6. ASSUME NEW w \in machine.processes, ListsSource(w)
      PROVE  SyncTypeOK'
  <2>1. CASE Stop(w, "failed")
    BY <1>0, <2>1, StopTyped
  <2>2. CASE ~Stop(w, "failed")
    <3>1. frames' = [frames EXCEPT ![w][Depth(w)] =
                       [dir |-> @.dir, loop |-> 2, todo |-> Children(@.dir, src)]]
      BY <1>6, <2>2 DEF ListsSource
    <3>2. frames' \in [Processes -> Seq(CallsOf)]
      <4>1. PICK T \in SUBSET Below : T = Children(frames[w][Depth(w)].dir, src)
        BY DEF Children
      <4>2. frames' = [frames EXCEPT ![w][Depth(w)] = [dir |-> @.dir, loop |-> 2, todo |-> T]]
        BY <3>1, <4>1
      <4> QED
        BY <1>0, <1>6, <4>2, CallListed DEF ListsSource, Working, FramesTyped
    <3> QED
      BY <1>6, <2>2, <3>2 DEF ListsSource, SyncTypeOK, CallsOf, history
  <2> QED BY <2>1, <2>2
<1>7. ASSUME NEW w \in machine.processes, Returns(w)
      PROVE  SyncTypeOK'
  <2>1. frames' \in [Processes -> Seq(CallsOf)]
    BY <1>0, <1>7, Returned DEF Returns, Working, FramesTyped
  <2> QED
    BY <1>7, <2>1 DEF Returns, SyncTypeOK, CallsOf, history
<1>8. ASSUME NEW w \in machine.processes, EndsJob(w)
      PROVE  SyncTypeOK'
  <2>1. CASE Stop(w, "failed")
    BY <1>0, <2>1, StopTyped
  <2>2. CASE ~Stop(w, "failed")
    BY <1>8, <2>2, NoJobTyped DEF EndsJob, SyncTypeOK, history
  <2> QED BY <2>1, <2>2
<1>9. ASSUME NEW w \in machine.processes, NEW p \in Below, JobStep(w, p)
      PROVE  SyncTypeOK'
  <2>1. CASE CannotRemove(w, p)
    BY <1>0, <2>1, StopTyped DEF CannotRemove
  <2>2. CASE ~CannotRemove(w, p)
    <3>1. job' \in [Processes -> Jobs]
      BY <1>0, <1>9, <2>2, LeftTaken, Opened, Filled, Skipped
         DEF JobStep, RemovesOne, MakesDirectory, OpensFile, FillsFile, CopiesInto, CannotCopy,
             JobTyped
    <3>2. dst' \in Tree(Kinds)
      <4>1. CASE RemovesOne(w, p)
        BY <4>1, TreeWithout DEF RemovesOne, Removable, SyncTypeOK
      <4>2. CASE MakesDirectory(w, p)
        BY <4>2, TreeWithDirs DEF MakesDirectory, Copyable, SyncTypeOK
      <4>3. CASE OpensFile(w, p)
        BY <4>3, TreeWithFile DEF OpensFile, Copyable, SyncTypeOK
      <4>4. CASE FillsFile(w, p)
        <5>1. PICK c \in FileContents :
                dst' = IF IsFile(p, dst) THEN [dst EXCEPT ![p] = c] ELSE dst
          BY <4>4 DEF FillsFile, IsFile, SyncTypeOK, Tree, DataPaths
        <5>2. IsFile(p, dst) => dst[Parent[p]] = "dir" /\ dst[p] # "dir"
          BY DEF IsFile, SyncTypeOK, Tree, IsTree
        <5> QED
          BY <5>1, <5>2, TreeWithFile DEF SyncTypeOK
      <4>5. CASE CopiesInto(w, p) \/ CannotCopy(w, p)
        BY <4>5 DEF CopiesInto, CannotCopy, SyncTypeOK
      <4> QED
        BY <1>9, <2>2, <4>1, <4>2, <4>3, <4>4, <4>5 DEF JobStep
    <3>3. UNCHANGED <<src, stage, frames, history>>
      BY <1>9, <2>2
         DEF JobStep, RemovesOne, MakesDirectory, OpensFile, FillsFile, CopiesInto, CannotCopy
    <3> QED
      BY <3>1, <3>2, <3>3 DEF SyncTypeOK, history
  <2> QED BY <2>1, <2>2
<1>10. CASE UNCHANGED syncVars
  BY <1>10 DEF syncVars, SyncTypeOK
<1> QED
  BY <1>1, <1>2, <1>3, <1>4, <1>5, <1>6, <1>7, <1>8, <1>9, <1>10 DEF SyncNext, SyncStep

-----------------------------------------------------------------------------
(* Calls and jobs of a process that syncs *)

Live == {w \in Processes : stage[w] \in {"syncing", "running"}}

\* A job is a part of a sync; only copies have a file open, and fail in parts.
JobInv ==
  \A w \in Processes :
    /\ stage[w] # "syncing" => frames[w] = <<>> /\ job[w] = NoJob
    /\ stage[w] = "syncing" => frames[w] # <<>>
    /\ job[w].op = "none" => job[w] = NoJob
    /\ job[w].op # "copy" => job[w].open = NoPath /\ ~job[w].failed
    /\ job[w].open # NoPath => job[w].open \in job[w].left \ job[w].dirs

\* Who syncs beside another one knows.
SharingInv ==
  /\ \A w \in Processes : stage[w] # "down" => w \in machine.processes
  /\ \A w \in Live : dst[Root] = "dir"
  /\ \A v, w \in Syncing : v # w => v \in overlapped

CallsInv == SyncTypeOK /\ JobInv /\ SharingInv

LEMMA CallsInit == SyncInit => CallsInv
<1>1. NoJob.op = "none" /\ NoJob.open = NoPath /\ ~NoJob.failed
  BY DEF NoJob
<1> QED
  BY <1>1, SyncTypeInit DEF SyncInit, CallsInv, JobInv, SharingInv, Live, Syncing

LEMMA JobNext ==
  ASSUME CallsInv, [SyncNext]_syncVars
  PROVE  JobInv'
<1>0. FramesTyped /\ JobTyped /\ machine.processes \subseteq Processes /\ JobInv
  BY MachinesAssumption DEF CallsInv, SyncTypeOK, FramesTyped, JobTyped, CallsOf
<1>a. /\ NoJob.op = "none" /\ NoJob.left = {} /\ NoJob.dirs = {} /\ NoJob.open = NoPath
      /\ ~NoJob.failed
  BY DEF NoJob
<1>b. \A p : /\ Removal(p).op = "remove" /\ Removal(p).open = NoPath /\ ~Removal(p).failed
             /\ Copy(p).op = "copy" /\ Copy(p).open = NoPath /\ ~Copy(p).failed
  BY DEF Removal, Copy, NoJob
<1>c. \A w \in Processes : stage[w] \in {"down", "syncing", "running", "failed"}
  BY DEF CallsInv, SyncTypeOK
<1>d. stage \in [Processes -> {"down", "syncing", "running", "failed"}]
  BY DEF CallsInv, SyncTypeOK
<1>1. CASE EditsData \/ ModuleWrites \/ UNCHANGED syncVars
  BY <1>0, <1>1 DEF EditsData, ModuleWrites, syncVars, JobInv
<1>2. ASSUME NEW w \in Processes, NEW next \in {"down", "failed"}, Stop(w, next)
      PROVE  JobInv'
  <2>1. \A u \in Processes : u # w => frames'[u] = frames[u] /\ stage'[u] = stage[u]
    BY <1>0, <1>2, <1>d DEF Stop, FramesTyped
  <2>2. frames'[w] = <<>> /\ stage'[w] = next /\ job'[w] = NoJob
        /\ \A u \in Processes : u # w => job'[u] = job[u]
    BY <1>0, <1>2, <1>d DEF Stop, FramesTyped, JobTyped
  <2> QED
    BY <1>0, <1>a, <2>1, <2>2 DEF JobInv
<1>3. ASSUME NEW w \in Processes, Launch(w)
      PROVE  JobInv'
  <2>1. job' = job /\ job[w] = NoJob
    BY <1>0, <1>3 DEF Launch, JobInv
  <2>2. CASE src[Root] = "dir"
    <3>1. frames'[w] # <<>> /\ stage'[w] = "syncing"
      BY <1>0, <1>3, <1>d, <2>2, Called DEF Launch, FramesTyped, DataPaths
    <3>2. \A u \in Processes : u # w => frames'[u] = frames[u] /\ stage'[u] = stage[u]
      BY <1>0, <1>3, <1>d, <2>2 DEF Launch, FramesTyped
    <3> QED
      BY <1>0, <1>a, <2>1, <3>1, <3>2 DEF JobInv
  <2>3. CASE src[Root] # "dir"
    <3>1. /\ stage[w] # "syncing" /\ frames' = frames /\ stage'[w] = "running"
          /\ \A u \in Processes : u # w => stage'[u] = stage[u]
      BY <1>3, <1>d, <2>3 DEF Launch
    <3> QED
      BY <1>0, <2>1, <3>1 DEF JobInv
  <2> QED BY <2>2, <2>3
<1>4. ASSUME NEW w \in Processes, NEW p \in Below, FirstLoop(w, p) \/ SecondLoop(w, p)
      PROVE  JobInv'
  <2>1. stage' = stage /\ stage[w] = "syncing"
    BY <1>4 DEF FirstLoop, SecondLoop, Drops, Descends, Keeps, Copies, Agrees, Working
  <2>2. frames'[w] # <<>>
    BY <1>0, <1>4, ItemTaken, Descended
       DEF FirstLoop, SecondLoop, Drops, Descends, Keeps, Copies, Agrees, Working, DataPaths
  <2>3. \A u \in Processes : u # w => frames'[u] = frames[u]
    BY <1>0, <1>4
       DEF FirstLoop, SecondLoop, Drops, Descends, Keeps, Copies, Agrees, FramesTyped
  <2>4. /\ \A u \in Processes : u # w => job'[u] = job[u]
        /\ job'[w] = job[w] \/ job'[w] = Removal(p) \/ job'[w] = Copy(p)
    BY <1>0, <1>4
       DEF FirstLoop, SecondLoop, Drops, Descends, Keeps, Copies, Agrees, JobTyped
  <2> QED
    BY <1>0, <1>b, <2>1, <2>2, <2>3, <2>4 DEF JobInv
<1>5. ASSUME NEW w \in Processes, ListsSource(w), ~Stop(w, "failed")
      PROVE  JobInv'
  <2>1. PICK T \in SUBSET Below : T = Children(frames[w][Depth(w)].dir, src)
    BY DEF Children
  <2>2. /\ stage' = stage /\ job' = job /\ stage[w] = "syncing" /\ frames[w] # <<>>
        /\ frames' = [frames EXCEPT ![w][Depth(w)] = [dir |-> @.dir, loop |-> 2, todo |-> T]]
    BY <1>5, <2>1 DEF ListsSource, Working
  <2>3. frames'[w] # <<>>
    BY <1>0, <2>2, CallListed
  <2>4. \A u \in Processes : u # w => frames'[u] = frames[u]
    BY <1>0, <2>2 DEF FramesTyped
  <2> QED
    BY <1>0, <2>2, <2>3, <2>4 DEF JobInv
<1>6. ASSUME NEW w \in Processes, Returns(w)
      PROVE  JobInv'
  <2>1. job' = job /\ job[w] = NoJob /\ stage[w] = "syncing" /\ frames[w] # <<>>
    BY <1>0, <1>6 DEF Returns, Working, JobInv
  <2>2. frames'[w] = <<>> <=> Depth(w) = 1
    BY <1>0, <1>6, <2>1, Returned DEF Returns
  <2>3. \A u \in Processes : u # w => frames'[u] = frames[u] /\ stage'[u] = stage[u]
    BY <1>0, <1>6, <1>d DEF Returns, FramesTyped
  <2>4. stage'[w] = IF Depth(w) = 1 THEN "running" ELSE "syncing"
    BY <1>6, <1>d, <2>1 DEF Returns
  <2> QED
    BY <1>0, <1>a, <2>1, <2>2, <2>3, <2>4 DEF JobInv
<1>7. ASSUME NEW w \in Processes, EndsJob(w), ~Stop(w, "failed")
      PROVE  JobInv'
  <2>1. /\ job'[w] = NoJob /\ stage' = stage /\ frames' = frames
        /\ \A u \in Processes : u # w => job'[u] = job[u]
    BY <1>0, <1>7 DEF EndsJob, JobTyped
  <2> QED
    BY <1>0, <1>a, <2>1 DEF JobInv
<1>8. ASSUME NEW w \in Processes, NEW p \in Below, JobStep(w, p), ~CannotRemove(w, p)
      PROVE  JobInv'
  <2>1. stage' = stage /\ frames' = frames
    BY <1>8 DEF JobStep, RemovesOne, MakesDirectory, OpensFile, FillsFile, CopiesInto, CannotCopy
  <2>2. job[w].op # "none" /\ stage[w] = "syncing"
    <3>1. p # NoPath
      BY DataPathsAssumption DEF DataPaths
    <3> QED
      BY <1>0, <1>8, <1>a, <3>1
         DEF JobStep, RemovesOne, MayRemove, MakesDirectory, OpensFile, MayCopy, FillsFile,
             CopiesInto, CannotCopy, JobInv
  <2>3. \A u \in Processes : u # w => job'[u] = job[u]
    BY <1>0, <1>8
       DEF JobStep, RemovesOne, MakesDirectory, OpensFile, FillsFile, CopiesInto, CannotCopy,
           JobTyped
  <2>4. CASE RemovesOne(w, p)
    <3>1. job'[w].op = "remove" /\ job'[w].open = NoPath /\ ~job'[w].failed
      BY <1>0, <2>4, LeftTaken DEF RemovesOne, MayRemove, JobInv
    <3> QED BY <1>0, <2>1, <2>2, <2>3, <3>1 DEF JobInv
  <2>5. CASE MakesDirectory(w, p) \/ CopiesInto(w, p)
    <3>1. job'[w].op = "copy" /\ job'[w].open = NoPath
      BY <1>0, <2>5, LeftTaken DEF MakesDirectory, CopiesInto, MayCopy, JobInv
    <3> QED BY <1>0, <2>1, <2>2, <2>3, <3>1 DEF JobInv
  <2>6. CASE OpensFile(w, p)
    <3>1. job'[w].op = "copy" /\ job'[w].open = p /\ p \in job'[w].left \ job'[w].dirs
      BY <1>0, <2>6, Opened DEF OpensFile, MayCopy
    <3> QED BY <1>0, <2>1, <2>2, <2>3, <3>1 DEF JobInv
  <2>7. CASE FillsFile(w, p)
    <3>1. p # NoPath
      BY DataPathsAssumption DEF DataPaths
    <3>2. job'[w].op = "copy" /\ job'[w].open = NoPath
      BY <1>0, <2>7, <3>1, Filled DEF FillsFile, JobInv
    <3> QED BY <1>0, <2>1, <2>2, <2>3, <3>2 DEF JobInv
  <2>8. CASE CannotCopy(w, p)
    <3>1. job'[w].op = "copy" /\ job'[w].open = NoPath
      BY <1>0, <2>8, Skipped DEF CannotCopy, MayCopy
    <3> QED BY <1>0, <2>1, <2>2, <2>3, <3>1 DEF JobInv
  <2> QED BY <1>8, <2>4, <2>5, <2>6, <2>7, <2>8 DEF JobStep
<1>9. \A w \in machine.processes : w \in Processes
  BY <1>0
<1> QED
  BY <1>1, <1>2, <1>3, <1>4, <1>5, <1>6, <1>7, <1>8, <1>9
     DEF SyncNext, SyncStep, Crash, CannotRemove, JobStep

LEMMA SharingNext ==
  ASSUME CallsInv, [SyncNext]_syncVars
  PROVE  SharingInv'
<1>0. /\ machine.processes \subseteq Processes /\ machine.names \subseteq Below
      /\ SharingInv /\ Root \notin Below
      /\ stage \in [Processes -> {"down", "syncing", "running", "failed"}]
      /\ overlapped \subseteq Processes
      /\ dst \in [DataPaths -> {"none", "dir", Partial} \cup FileContents]
  BY MachinesAssumption, DataPathsAssumption DEF CallsInv, SyncTypeOK, Tree
<1>1. CASE EditsData \/ UNCHANGED syncVars
  BY <1>0, <1>1 DEF EditsData, syncVars, SharingInv, Live, Syncing
<1>2. CASE ModuleWrites
  <2>1. dst'[Root] = dst[Root]
    BY <1>0, <1>2 DEF ModuleWrites, Changed, DataPaths
  <2> QED
    BY <1>0, <1>2, <2>1 DEF ModuleWrites, SharingInv, Live, Syncing
<1>3. ASSUME NEW w \in machine.processes, Launch(w)
      PROVE  SharingInv'
  <2>1. dst'[Root] = "dir" /\ machine' = machine
    BY <1>0, <1>3 DEF Launch, DataPaths
  <2>2. /\ stage'[w] \in {"syncing", "running"}
        /\ \A u \in Processes : u # w => stage'[u] = stage[u]
    BY <1>0, <1>3 DEF Launch
  <2>3. ASSUME NEW u \in Syncing', NEW v \in Syncing', u # v
        PROVE  u \in overlapped'
    <3>1. \A x \in Syncing' : x = w \/ x \in Others(w)
      BY <2>2 DEF Syncing, Others
    <3>2. CASE Others(w) = {}
      BY <2>3, <3>1, <3>2
    <3>3. CASE Others(w) # {}
      BY <1>3, <3>1, <3>3 DEF Launch
    <3> QED BY <3>2, <3>3
  <2> QED
    BY <1>0, <2>1, <2>2, <2>3 DEF SharingInv, Live
<1>4. ASSUME NEW w \in machine.processes, NEW next \in {"down", "failed"}, Stop(w, next)
      PROVE  SharingInv'
  BY <1>0, <1>4 DEF Stop, SharingInv, Live, Syncing
<1>5. ASSUME NEW w \in machine.processes, Returns(w)
      PROVE  SharingInv'
  BY <1>0, <1>5 DEF Returns, Working, SharingInv, Live, Syncing, history
<1>6. ASSUME UNCHANGED <<stage, history>>, dst'[Root] = dst[Root]
      PROVE  SharingInv'
  BY <1>0, <1>6 DEF SharingInv, Live, Syncing, history
<1>7. ASSUME NEW w \in machine.processes, NEW p \in Below,
             FirstLoop(w, p) \/ SecondLoop(w, p) \/ JobStep(w, p), ~CannotRemove(w, p)
      PROVE  UNCHANGED <<stage, history>> /\ dst'[Root] = dst[Root]
  <2>1. UNCHANGED <<stage, history>>
    BY <1>7
       DEF FirstLoop, SecondLoop, JobStep, Drops, Descends, Keeps, Copies, Agrees, RemovesOne,
           MakesDirectory, OpensFile, FillsFile, CopiesInto, CannotCopy
  <2>2. CASE MakesDirectory(w, p)
    <3>1. Root \in Above(p)
      BY DataPathsAssumption DEF Above, DataPaths
    <3>2. \A q \in Below : dst[q] # "none" => dst[Parent[q]] = "dir"
      BY DEF CallsInv, SyncTypeOK, Tree, IsTree
    <3>3. dst'[Root] = "dir"
      BY <2>2, <3>1 DEF MakesDirectory, DataPaths
    <3>4. w \in Syncing
      <4>1. job[w] # NoJob
        BY <2>2 DEF MakesDirectory, MayCopy, NoJob
      <4> QED
        BY <1>0, <4>1 DEF CallsInv, JobInv, Syncing
    <3>5. dst[Root] = "dir"
      BY <1>0, <3>4 DEF SharingInv, Live, Syncing
    <3> QED
      BY <2>1, <3>3, <3>5
  <2>3. CASE ~MakesDirectory(w, p)
    BY <1>0, <1>7, <2>3
       DEF FirstLoop, SecondLoop, JobStep, Drops, Descends, Keeps, Copies, Agrees, RemovesOne,
           OpensFile, FillsFile, CopiesInto, CannotCopy, DataPaths
  <2> QED BY <2>1, <2>2, <2>3
<1>8. ASSUME NEW w \in machine.processes, ListsSource(w) \/ EndsJob(w), ~Stop(w, "failed")
      PROVE  SharingInv'
  BY <1>6, <1>8 DEF ListsSource, EndsJob, history
<1> QED
  BY <1>1, <1>2, <1>3, <1>4, <1>5, <1>6, <1>7, <1>8
     DEF SyncNext, SyncStep, Crash, CannotRemove, JobStep

LEMMA CallsNext ==
  ASSUME CallsInv, [SyncNext]_syncVars
  PROVE  CallsInv'
BY SyncTypeNext, JobNext, SharingNext DEF CallsInv

\* What the steps of jobs have in common, but for a removal that fails.
LEMMA JobSteps ==
  ASSUME CallsInv, NEW w \in Processes, NEW p \in Below, JobStep(w, p), ~CannotRemove(w, p)
  PROVE  /\ w \in Syncing /\ job[w].op # "none" /\ p \in job[w].left
         /\ UNCHANGED <<src, stage, frames, history>>
         /\ job'[w].op = job[w].op /\ job'[w].dirs = job[w].dirs
         /\ job'[w].left \subseteq job[w].left /\ job'[w].open \in {NoPath, p}
         /\ job[w].failed => job'[w].failed
         /\ \A u \in Processes : u # w => job'[u] = job[u]
<1>0. JobTyped /\ JobInv /\ p # NoPath /\ job[w].failed \in BOOLEAN
  BY DataPathsAssumption DEF CallsInv, SyncTypeOK, JobTyped, DataPaths, Jobs
<1>1. UNCHANGED <<src, stage, frames, history>>
  BY DEF JobStep, RemovesOne, MakesDirectory, OpensFile, FillsFile, CopiesInto, CannotCopy
<1>2. \A u \in Processes : u # w => job'[u] = job[u]
  BY <1>0
     DEF JobStep, RemovesOne, MakesDirectory, OpensFile, FillsFile, CopiesInto, CannotCopy,
         JobTyped
<1>3. w \in Syncing /\ job[w].op # "none" /\ p \in job[w].left
  <2>1. NoJob.op = "none" /\ NoJob.open = NoPath
    BY DEF NoJob
  <2>2. job[w].op # "none" /\ p \in job[w].left
    BY <1>0, <2>1
       DEF JobStep, RemovesOne, MakesDirectory, OpensFile, FillsFile, CopiesInto, CannotCopy,
           MayRemove, MayCopy, JobInv
  <2> QED BY <1>0, <2>1, <2>2 DEF JobInv, Syncing
<1>4. CASE RemovesOne(w, p)
  <2>1. job' = [job EXCEPT ![w].left = @ \ {p}] /\ job[w].open = NoPath
    BY <1>0, <1>4 DEF RemovesOne, MayRemove, JobInv
  <2> QED BY <1>0, <1>1, <1>2, <1>3, <2>1, LeftTaken
<1>5. CASE MakesDirectory(w, p) \/ CopiesInto(w, p)
  <2>1. job' = [job EXCEPT ![w].left = @ \ {p}] /\ job[w].open = NoPath
    BY <1>5 DEF MakesDirectory, CopiesInto, MayCopy
  <2> QED BY <1>0, <1>1, <1>2, <1>3, <2>1, LeftTaken
<1>6. CASE OpensFile(w, p)
  <2>1. job' = [job EXCEPT ![w].open = p]
    BY <1>6 DEF OpensFile
  <2> QED BY <1>0, <1>1, <1>2, <1>3, <2>1, Opened
<1>7. CASE FillsFile(w, p)
  <2>1. job' = [job EXCEPT ![w] = [job[w] EXCEPT !.open = NoPath, !.left = @ \ {p}]]
    BY <1>7 DEF FillsFile
  <2> QED BY <1>0, <1>1, <1>2, <1>3, <2>1, Filled
<1>8. CASE CannotCopy(w, p)
  <2>1. /\ job' = [job EXCEPT ![w] = [job[w] EXCEPT !.failed = TRUE, !.left = @ \ Under[p]]]
        /\ job[w].open = NoPath
    BY <1>8 DEF CannotCopy, MayCopy
  <2> QED BY <1>0, <1>1, <1>2, <1>3, <2>1, Skipped
<1> QED
  BY <1>4, <1>5, <1>6, <1>7, <1>8 DEF JobStep

\* Of its steps along the items, only those of a new job change a process's job.
LEMMA Walks ==
  ASSUME CallsInv, NEW w \in Processes, NEW p \in Below, FirstLoop(w, p) \/ SecondLoop(w, p)
  PROVE  /\ w \in Syncing /\ frames[w] # <<>> /\ job[w] = NoJob /\ p \in Todo(w, Depth(w))
         /\ UNCHANGED <<src, dst, stage, history>>
         /\ \A u \in Processes : u # w => job'[u] = job[u]
         /\ Drops(w, p) => job'[w] = Removal(p)
         /\ Copies(w, p) => job'[w] = Copy(p)
         /\ Keeps(w, p) \/ Descends(w, p) \/ Agrees(w, p) => job' = job
         /\ ~Descends(w, p) => frames' = [frames EXCEPT ![w] = Without(w, p)]
<1>1. JobTyped /\ JobInv
  BY DEF CallsInv, SyncTypeOK, JobTyped
<1> QED
  BY <1>1
     DEF FirstLoop, SecondLoop, Drops, Descends, Keeps, Copies, Agrees, Working, Todo, Top, Syncing,
         JobInv, JobTyped

-----------------------------------------------------------------------------
(* The stack of calls *)

\* Each call is for an item of the one before it, and no directory has two.
Stacked(w) ==
  /\ Dir(w, 1) = Root
  /\ \A i \in 1..Depth(w) : i > 1 => Dir(w, i) \in Below /\ Parent[Dir(w, i)] = Dir(w, i - 1)
  /\ \A i \in 1..Depth(w) : \A c \in Todo(w, i) : c \in Below /\ Parent[c] = Dir(w, i)
  /\ \A i, j \in 1..Depth(w) : Dir(w, i) = Dir(w, j) => i = j

StackInv == \A w \in Syncing : Stacked(w)

LEMMA StackInit == SyncInit => StackInv
BY DEF SyncInit, StackInv, Syncing

LEMMA DepthNat ==
  ASSUME FramesTyped, NEW w \in Processes, frames[w] # <<>>
  PROVE  Depth(w) \in Nat /\ Depth(w) >= 1 /\ Depth(w) \in 1..Depth(w)
<1>1. \A s \in Seq(CallsOf) : s # <<>> => Len(s) \in Nat /\ Len(s) >= 1
  BY EmptySeq
<1>2. Depth(w) \in Nat /\ Depth(w) >= 1
  BY <1>1 DEF FramesTyped, Depth
<1> QED BY <1>2

\* The same directories, with other items of theirs.
LEMMA StackKept ==
  ASSUME FramesTyped, NEW w \in Processes, frames[w] # <<>>, Stacked(w), Depth(w)' = Depth(w),
         \A i \in 1..Depth(w) :
           Dir(w, i)' = Dir(w, i) /\ \A c \in Todo(w, i)' : c \in Below /\ Parent[c] = Dir(w, i)
  PROVE  Stacked(w)'
<1>1. PICK n \in Nat : n = Depth(w) /\ n >= 1
  BY DepthNat
<1>2. \A i \in 1..n : Dir(w, i)' = Dir(w, i) /\ (i > 1 => i - 1 \in 1..n)
  BY <1>1
<1>3. Dir(w, 1)' = Root
  BY <1>1, <1>2 DEF Stacked
<1>4. \A i \in 1..n : i > 1 => Dir(w, i)' \in Below /\ Parent[Dir(w, i)'] = Dir(w, i - 1)'
  BY <1>1, <1>2 DEF Stacked
<1>5. \A i \in 1..n : \A c \in Todo(w, i)' : c \in Below /\ Parent[c] = Dir(w, i)'
  BY <1>1, <1>2
<1>6. \A i, j \in 1..n : Dir(w, i)' = Dir(w, j)' => i = j
  BY <1>1, <1>2 DEF Stacked
<1> QED
  BY <1>1, <1>3, <1>4, <1>5, <1>6 DEF Stacked

LEMMA StackNext ==
  ASSUME CallsInv, StackInv, [SyncNext]_syncVars
  PROVE  StackInv'
<1>0. /\ machine.processes \subseteq Processes /\ FramesTyped /\ JobInv
      /\ stage \in [Processes -> {"down", "syncing", "running", "failed"}]
  BY MachinesAssumption DEF CallsInv, SyncTypeOK, FramesTyped, CallsOf
<1>1. ASSUME NEW w \in Processes, frames' = frames
      PROVE  Stacked(w) => Stacked(w)'
  BY <1>1 DEF Stacked, Dir, Todo, Depth
<1>2. ASSUME NEW w \in Processes, NEW s, frames' = [frames EXCEPT ![w] = s]
      PROVE  \A u \in Processes : u # w /\ Stacked(u) => Stacked(u)'
  <2>1. \A u \in Processes : u # w => frames'[u] = frames[u]
    BY <1>0, <1>2 DEF FramesTyped
  <2> QED BY <2>1 DEF Stacked, Dir, Todo, Depth
<1>3. CASE frames' = frames /\ Syncing' \subseteq Syncing
  BY <1>1, <1>3 DEF StackInv, Syncing
<1>4. ASSUME NEW w \in Processes, NEW next \in {"down", "failed"}, Stop(w, next)
      PROVE  StackInv'
  <2>1. Syncing' \subseteq Syncing \ {w}
    BY <1>0, <1>4 DEF Stop, Syncing
  <2>2. frames' = [frames EXCEPT ![w] = <<>>]
    BY <1>4 DEF Stop
  <2> QED BY <1>2, <2>1, <2>2 DEF StackInv, Syncing
<1>5. ASSUME NEW w \in Processes, Launch(w)
      PROVE  StackInv'
  <2>1. CASE src[Root] # "dir"
    BY <1>0, <1>3, <1>5, <2>1 DEF Launch, Syncing
  <2>2. CASE src[Root] = "dir"
    <3>1. frames' = [frames EXCEPT ![w] = <<Call(Root, dst)>>]
      BY <1>5, <2>2 DEF Launch
    <3>2. Depth(w)' = 1 /\ Dir(w, 1)' = Root /\ Todo(w, 1)' = Children(Root, dst)
      BY <1>0, <3>1, Called DEF DataPaths
    <3>3. Stacked(w)'
      BY <3>2 DEF Stacked, Children
    <3>4. Syncing' \subseteq Syncing \cup {w}
      BY <1>0, <1>5 DEF Launch, Syncing
    <3> QED BY <1>2, <3>1, <3>3, <3>4 DEF StackInv, Syncing
  <2> QED BY <2>1, <2>2
<1>6. ASSUME NEW w \in Processes, NEW p \in Below, FirstLoop(w, p) \/ SecondLoop(w, p),
             ~Descends(w, p)
      PROVE  StackInv'
  <2>1. Syncing' = Syncing /\ w \in Syncing /\ frames[w] # <<>>
        /\ frames' = [frames EXCEPT ![w] = Without(w, p)]
    BY <1>6, Walks DEF Syncing
  <2>2. /\ Depth(w)' = Depth(w)
        /\ \A i \in 1..Depth(w) : Dir(w, i)' = Dir(w, i) /\ Todo(w, i)' \subseteq Todo(w, i)
    BY <1>0, <2>1, ItemTaken
  <2>3. Stacked(w)'
    BY <1>0, <2>1, <2>2, StackKept DEF StackInv, Stacked
  <2> QED BY <1>2, <2>1, <2>3 DEF StackInv, Syncing
<1>7. ASSUME NEW w \in Processes, NEW p \in Below, Descends(w, p)
      PROVE  StackInv'
  <2>1. Syncing' = Syncing /\ w \in Syncing /\ frames[w] # <<>> /\ p \in Todo(w, Depth(w))
        /\ frames' = [frames EXCEPT ![w] = Append(Without(w, p), Call(p, dst))]
    BY <1>7, Walks DEF Syncing, FirstLoop, Descends
  <2>2. PICK n \in Nat : n = Depth(w) /\ n >= 1
    BY <1>0, <2>1, DepthNat
  <2>3. /\ Depth(w)' = n + 1
        /\ \A i \in 1..n :
             Dir(w, i)' = Dir(w, i)
             /\ Todo(w, i)' = IF i = n THEN Todo(w, i) \ {p} ELSE Todo(w, i)
        /\ Dir(w, n + 1)' = p /\ Todo(w, n + 1)' = Children(p, dst)
    <3>1. /\ FramesTyped'
          /\ Depth(w)' = Depth(w) + 1 /\ frames[w]' # <<>>
          /\ \A i \in 1..Depth(w) :
               /\ Dir(w, i)' = Dir(w, i) /\ Loop(w, i)' = Loop(w, i)
               /\ Todo(w, i)' = IF i = Depth(w) THEN Todo(w, i) \ {p} ELSE Todo(w, i)
          /\ \A i : i = Depth(w) + 1 =>
               Dir(w, i)' = p /\ Loop(w, i)' = 1 /\ Todo(w, i)' = Children(p, dst)
      <4>1. p \in DataPaths
        BY DEF DataPaths
      <4> QED
        BY <1>0, <2>1, <4>1, Descended
    <3>2. n + 1 = Depth(w) + 1
      BY <2>2
    <3>3. Dir(w, n + 1)' = p /\ Todo(w, n + 1)' = Children(p, dst)
      BY <3>1, <3>2
    <3> QED BY <2>2, <3>1, <3>3
  <2>4. Stacked(w) /\ Parent[p] = Dir(w, n)
    BY <2>1, <2>2 DEF StackInv, Stacked
  <2>5. \A i \in 1..n : p # Dir(w, i)
    <3>1. SUFFICES ASSUME NEW i \in 1..n, p = Dir(w, i) PROVE FALSE
      OBVIOUS
    <3>2. i > 1
      BY <2>4, <3>1, DataPathsAssumption DEF Stacked
    <3>3. Dir(w, i - 1) = Dir(w, n) /\ i - 1 \in 1..n /\ n \in 1..n
      BY <2>2, <2>4, <3>1, <3>2 DEF Stacked
    <3> QED BY <2>2, <2>4, <3>3 DEF Stacked
  <2>6. Stacked(w)'
    <3>1. Dir(w, 1)' = Root
      BY <2>2, <2>3, <2>4 DEF Stacked
    <3>2. ASSUME NEW i \in 1..n + 1, i > 1
          PROVE  Dir(w, i)' \in Below /\ Parent[Dir(w, i)'] = Dir(w, i - 1)'
      <4>1. CASE i = n + 1
        BY <2>2, <2>3, <2>4, <4>1
      <4>2. CASE i # n + 1
        <5>1. i \in 1..n /\ i - 1 \in 1..n
          BY <2>2, <3>2, <4>2
        <5> QED BY <2>2, <2>3, <2>4, <3>2, <5>1 DEF Stacked
      <4> QED BY <4>1, <4>2
    <3>3. ASSUME NEW i \in 1..n + 1, NEW c \in Todo(w, i)'
          PROVE  c \in Below /\ Parent[c] = Dir(w, i)'
      <4>1. CASE i = n + 1
        BY <2>3, <3>3, <4>1 DEF Children
      <4>2. CASE i # n + 1
        <5>1. i \in 1..n
          BY <2>2, <4>2
        <5> QED BY <2>2, <2>3, <2>4, <3>3, <5>1 DEF Stacked
      <4> QED BY <4>1, <4>2
    <3>4. ASSUME NEW i \in 1..n + 1, NEW j \in 1..n + 1, Dir(w, i)' = Dir(w, j)'
          PROVE  i = j
      <4>1. \A k \in 1..n + 1 : k = n + 1 \/ k \in 1..n
        OBVIOUS
      <4> QED BY <2>2, <2>3, <2>4, <2>5, <3>4, <4>1 DEF Stacked
    <3> QED BY <2>3, <3>1, <3>2, <3>3, <3>4 DEF Stacked
  <2> QED BY <1>2, <2>1, <2>6 DEF StackInv, Syncing
<1>8. ASSUME NEW w \in Processes, ListsSource(w), ~Stop(w, "failed")
      PROVE  StackInv'
  <2>1. PICK T \in SUBSET Below : T = Children(frames[w][Depth(w)].dir, src)
    BY DEF Children
  <2>2. /\ Syncing' = Syncing /\ w \in Syncing /\ frames[w] # <<>>
        /\ frames' = [frames EXCEPT ![w][Depth(w)] = [dir |-> @.dir, loop |-> 2, todo |-> T]]
    BY <1>8, <2>1 DEF ListsSource, Working, Syncing
  <2>3. \A c \in T : Parent[c] = Dir(w, Depth(w))
    BY <2>1 DEF Children, Dir
  <2>4. /\ Depth(w)' = Depth(w)
        /\ \A i \in 1..Depth(w) :
             Dir(w, i)' = Dir(w, i) /\ Todo(w, i)' = IF i = Depth(w) THEN T ELSE Todo(w, i)
    BY <1>0, <2>2, CallListed
  <2>5. Stacked(w)'
    BY <1>0, <2>2, <2>3, <2>4, StackKept DEF StackInv, Stacked
  <2> QED
    BY <1>2, <2>2, <2>5 DEF StackInv, Syncing
<1>9. ASSUME NEW w \in Processes, Returns(w)
      PROVE  StackInv'
  <2>1. w \in Syncing /\ frames[w] # <<>>
        /\ frames' = [frames EXCEPT ![w] = SubSeq(@, 1, Depth(w) - 1)]
    BY <1>9 DEF Returns, Working, Syncing
  <2>2. Syncing' \subseteq Syncing /\ (Depth(w) = 1 => w \notin Syncing')
    BY <1>0, <1>9 DEF Returns, Syncing
  <2>3. PICK n \in Nat \ {0} : n = Depth(w) /\ n - 1 \in Nat
    BY <1>0, <2>1, DepthNat
  <2>4. Depth(w)' = n - 1
        /\ \A i \in 1..n - 1 : Dir(w, i)' = Dir(w, i) /\ Todo(w, i)' = Todo(w, i)
    BY <1>0, <2>1, <2>3, Returned
  <2>5. n > 1 => Stacked(w)'
    <3>1. Stacked(w) /\ \A i \in 1..n - 1 : i \in 1..n /\ (i > 1 => i - 1 \in 1..n - 1)
      BY <2>1 DEF StackInv
    <3>2. n > 1 => Dir(w, 1)' = Root
      BY <2>3, <2>4, <3>1 DEF Stacked
    <3>3. \A i \in 1..n - 1 : i > 1 => Dir(w, i)' \in Below /\ Parent[Dir(w, i)'] = Dir(w, i - 1)'
      BY <2>3, <2>4, <3>1 DEF Stacked
    <3>4. \A i \in 1..n - 1 : \A c \in Todo(w, i)' : c \in Below /\ Parent[c] = Dir(w, i)'
      BY <2>3, <2>4, <3>1 DEF Stacked
    <3>5. \A i, j \in 1..n - 1 : Dir(w, i)' = Dir(w, j)' => i = j
      BY <2>3, <2>4, <3>1 DEF Stacked
    <3> QED BY <2>4, <3>2, <3>3, <3>4, <3>5 DEF Stacked
  <2>6. n = 1 \/ n > 1
    OBVIOUS
  <2> QED BY <1>2, <2>1, <2>2, <2>3, <2>5, <2>6 DEF StackInv, Syncing
<1>10. ASSUME NEW w \in Processes, NEW p \in Below, JobStep(w, p), ~CannotRemove(w, p)
       PROVE  StackInv'
  BY <1>3, <1>10, JobSteps DEF Syncing
<1>11. ASSUME NEW w \in Processes, EndsJob(w), ~Stop(w, "failed")
       PROVE  StackInv'
  BY <1>3, <1>11 DEF EndsJob, Syncing
<1>12. CASE EditsData \/ ModuleWrites \/ UNCHANGED syncVars
  BY <1>3, <1>12 DEF EditsData, ModuleWrites, syncVars, Syncing
<1>13. \A w \in machine.processes : w \in Processes
  BY <1>0
<1> QED
  BY <1>4, <1>5, <1>6, <1>7, <1>8, <1>9, <1>10, <1>11, <1>12, <1>13
     DEF SyncNext, SyncStep, Crash, CannotRemove, FirstLoop

-----------------------------------------------------------------------------
(* What syncs do to the copy when nobody else changes a tree *)

\* Nobody has edited the source, or written to the copy, since it was launched.
Stable(w) == machine.busy => w \notin touched

\* What the copy has and the source does not, or has as another kind.
Wrong(p) ==
  \/ src[p] = "none" /\ dst[p] # "none"
  \/ src[p] = "dir" /\ IsFile(p, dst)
  \/ IsFile(p, src) /\ dst[p] = "dir"

\* Calls are for directories of both, and have listed what the source has.
DirsInv(w) ==
  \A i \in 1..Depth(w) :
    /\ src[Dir(w, i)] = "dir" /\ dst[Dir(w, i)] = "dir"
    /\ Loop(w, i) = 2 => \A c \in Todo(w, i) : src[c] # "none"

\* A removal is of what is wrong, as long as it is what it was.
RemovalInv(w) ==
  job[w].op = "remove" =>
    \A p \in job[w].left : src[p] # "none" => (p \in job[w].dirs <=> src[p] # "dir")

\* A copy has left whole trees of the source, in directories that are there.
CopyInv(w) ==
  job[w].op = "copy" =>
    /\ \A p \in job[w].left :
         /\ src[p] # "none" /\ (p \in job[w].dirs <=> src[p] = "dir")
         /\ Parent[p] \in job[w].left \/ dst[Parent[p]] = "dir"
         /\ p \notin job[w].dirs => dst[p] # "dir"
         /\ \A q \in Below : Parent[q] = p /\ src[q] # "none" => q \in job[w].left
    /\ job[w].open # NoPath =>
         IsFile(job[w].open, dst) /\ Parent[job[w].open] \notin job[w].left

StableInv == \A w \in Syncing : Stable(w) => DirsInv(w) /\ RemovalInv(w) /\ CopyInv(w)

\* A sync that began since the last edit knows of nobody that missed it.
FreshInv ==
  \A w \in Live \ touched : w \in Syncing \cup overlapped => \A v \in Syncing : Stable(v)

\* At most one path changes, and only what is wrong is removed.
SyncWrites(p) ==
  /\ \A q \in DataPaths : q # p => dst'[q] = dst[q]
  /\ \/ dst'[p] = dst[p]
     \/ dst'[p] = "none" /\ Wrong(p)
     \/ dst'[p] = "dir" /\ dst[p] = "none" /\ src[p] = "dir"
     \/ dst'[p] \notin {"none", "dir"} /\ dst[p] # "dir" /\ IsFile(p, src)

LEMMA AllStable ==
  ASSUME FreshInv, NEW w \in Syncing, Stable(w), NEW v \in Syncing
  PROVE  Stable(v)
BY DEF FreshInv, Stable, Syncing, Live

LEMMA JobWrites ==
  ASSUME CallsInv, NEW v \in Processes, NEW p \in Below, JobStep(v, p), ~CannotRemove(v, p),
         RemovalInv(v), CopyInv(v)
  PROVE  SyncWrites(p)
<1>0. /\ JobInv /\ p \in DataPaths /\ IsTree(dst)
      /\ dst \in [DataPaths -> {"none", "dir", Partial} \cup FileContents]
      /\ src \in [DataPaths -> {"none", "dir"} \cup FileContents]
  BY DEF CallsInv, SyncTypeOK, Tree, DataPaths
<1>1. CASE RemovesOne(v, p)
  <2>1. Wrong(p)
    BY <1>1 DEF RemovesOne, MayRemove, Removable, RemovalInv, Wrong, IsFile
  <2> QED
    BY <1>0, <1>1, <2>1 DEF RemovesOne, SyncWrites
<1>2. CASE MakesDirectory(v, p)
  <2>1. src[p] = "dir" /\ dst[p] = "none" /\ dst[Parent[p]] = "dir" /\ Parent[p] \in DataPaths
    BY <1>2, DataPathsAssumption DEF MakesDirectory, Copyable, MayCopy, CopyInv
  <2>2. ASSUME NEW q \in Above(p), q # p
        PROVE  dst[q] = "dir"
    <3>1. q \in DataPaths /\ p \in Under[q] /\ Parent[p] \in Under[q]
      BY <2>2, UnderParent DEF Above
    <3> QED
      BY <1>0, <2>1, <3>1, DirAbove
  <2>3. dst'[p] = "dir"
    BY <1>0, <1>2, UnderClosed DEF MakesDirectory, Above
  <2> QED
    BY <1>2, <2>1, <2>2, <2>3 DEF MakesDirectory, SyncWrites
<1>3. CASE OpensFile(v, p)
  BY <1>0, <1>3, FileContentsAssumption DEF OpensFile, Copyable, SyncWrites
<1>4. CASE FillsFile(v, p)
  <2>1. p # NoPath
    BY DataPathsAssumption DEF DataPaths
  <2>2. IsFile(p, src) /\ IsFile(p, dst)
    BY <1>0, <1>4, <2>1 DEF FillsFile, JobInv, CopyInv, IsFile
  <2>3. dst' = [dst EXCEPT ![p] = src[p]]
    BY <1>4, <2>2 DEF FillsFile
  <2> QED
    BY <1>0, <2>2, <2>3 DEF SyncWrites, IsFile
<1>5. CASE CopiesInto(v, p) \/ CannotCopy(v, p)
  BY <1>5 DEF CopiesInto, CannotCopy, SyncWrites
<1> QED
  BY <1>1, <1>2, <1>3, <1>4, <1>5 DEF JobStep

LEMMA Writing ==
  ASSUME NEW p, SyncWrites(p), NEW q \in DataPaths
  PROVE  /\ src[q] = "dir" /\ dst[q] = "dir" => dst'[q] = "dir"
         /\ IsFile(q, src) /\ dst[q] # "dir" => dst'[q] # "dir"
         /\ IsFile(q, src) /\ IsFile(q, dst) => IsFile(q, dst')
BY DEF SyncWrites, Wrong, IsFile

LEMMA CallTypes ==
  ASSUME FramesTyped, NEW w \in Processes, NEW i \in 1..Depth(w)
  PROVE  Dir(w, i) \in DataPaths /\ Loop(w, i) \in 1..2 /\ Todo(w, i) \subseteq Below
<1>1. frames[w][i] \in CallsOf
  BY ElementOfSeq DEF FramesTyped, Depth
<1> QED
  BY <1>1 DEF CallsOf, Dir, Loop, Todo

\* What one sync writes leaves the others what they rely on.
LEMMA OthersStable ==
  ASSUME CallsInv, NEW u \in Processes, DirsInv(u), RemovalInv(u), CopyInv(u),
         NEW p \in Below, SyncWrites(p), src' = src, frames'[u] = frames[u], job'[u] = job[u]
  PROVE  DirsInv(u)' /\ RemovalInv(u)' /\ CopyInv(u)'
<1>0. /\ FramesTyped /\ JobTyped /\ JobInv /\ Parent \in [Below -> DataPaths]
      /\ \A q \in Below : src[q] # "none" => src[Parent[q]] = "dir"
  BY DataPathsAssumption
     DEF CallsInv, SyncTypeOK, FramesTyped, JobTyped, CallsOf, Tree, IsTree
<1>1. DirsInv(u)'
  BY <1>0, Writing, CallTypes DEF DirsInv, Dir, Loop, Todo, Depth
<1>2. RemovalInv(u)'
  BY DEF RemovalInv
<1>3. ASSUME job[u].op = "copy"
      PROVE  CopyInv(u)'
  <2>1. job[u].left \subseteq Below
    BY <1>0 DEF JobTyped, Jobs
  <2>2. ASSUME NEW q \in job[u].left
        PROVE  /\ Parent[q] \in job[u].left \/ dst'[Parent[q]] = "dir"
               /\ q \notin job[u].dirs => dst'[q] # "dir"
    <3>1. /\ Parent[q] \in job[u].left \/ dst[Parent[q]] = "dir"
          /\ q \notin job[u].dirs => dst[q] # "dir" /\ IsFile(q, src)
          /\ src[Parent[q]] = "dir" /\ Parent[q] \in DataPaths /\ q \in DataPaths
      BY <1>0, <1>3, <2>1 DEF CopyInv, IsFile, DataPaths
    <3> QED BY <3>1, Writing
  <2>3. job[u].open # NoPath => IsFile(job[u].open, dst')
    <3>1. SUFFICES ASSUME job[u].open # NoPath PROVE IsFile(job[u].open, dst')
      OBVIOUS
    <3>2. job[u].open \in job[u].left \ job[u].dirs /\ job[u].open \in DataPaths
      BY <1>0, <2>1, <3>1 DEF JobInv, DataPaths
    <3>3. IsFile(job[u].open, src) /\ IsFile(job[u].open, dst)
      BY <1>3, <3>1, <3>2 DEF CopyInv, IsFile
    <3> QED BY <3>2, <3>3, Writing
  <2> QED BY <1>3, <2>2, <2>3 DEF CopyInv
<1>4. job[u].op # "copy" => CopyInv(u)'
  BY DEF CopyInv
<1> QED
  BY <1>1, <1>2, <1>3, <1>4

\* ... and itself, too.
LEMMA OwnStable ==
  ASSUME CallsInv, NEW w \in Processes, DirsInv(w), RemovalInv(w), CopyInv(w),
         NEW p \in Below, JobStep(w, p), ~CannotRemove(w, p)
  PROVE  DirsInv(w)' /\ RemovalInv(w)' /\ CopyInv(w)'
<1>0. /\ FramesTyped /\ JobTyped /\ JobInv /\ p # NoPath
      /\ Parent \in [Below -> DataPaths] /\ Parent[p] \in DataPaths /\ p \in DataPaths
      /\ \A q \in Below : src[q] # "none" => src[Parent[q]] = "dir"
      /\ job[w].left \subseteq Below
      /\ dst \in [DataPaths -> {"none", "dir", Partial} \cup FileContents]
  BY DataPathsAssumption
     DEF CallsInv, SyncTypeOK, FramesTyped, JobTyped, CallsOf, Tree, IsTree, DataPaths, Jobs
<1>1. SyncWrites(p)
  BY JobWrites
<1>2. /\ src' = src /\ frames' = frames /\ job'[w].op = job[w].op /\ job'[w].dirs = job[w].dirs
      /\ job'[w].left \subseteq job[w].left
  BY JobSteps
<1>3. DirsInv(w)'
  BY <1>0, <1>1, <1>2, Writing, CallTypes DEF DirsInv, Dir, Loop, Todo, Depth
<1>4. RemovalInv(w)'
  BY <1>2 DEF RemovalInv
<1>5. CASE job[w].op # "copy"
  BY <1>2, <1>3, <1>4, <1>5 DEF CopyInv
<1>6. CASE job[w].op = "copy"
  <2>1. \A q \in job'[w].left :
          /\ src[q] # "none" /\ (q \in job[w].dirs <=> src[q] = "dir")
          /\ q \notin job[w].dirs => dst'[q] # "dir"
    BY <1>0, <1>1, <1>2, <1>6, Writing DEF CopyInv, IsFile, DataPaths
  \* What has left is a directory that has been made, a file, or all of a tree.
  <2>2. ASSUME NEW q \in job'[w].left, Parent[q] \in job[w].left, Parent[q] \notin job'[w].left
        PROVE  dst'[Parent[q]] = "dir"
    <3>1. src[Parent[q]] = "dir" /\ Parent[q] \in job[w].dirs /\ q \in Below
      BY <1>0, <1>2, <1>6, <2>2 DEF CopyInv
    <3>2. CASE MakesDirectory(w, p)
      <4>1. job'[w].left = job[w].left \ {p}
        BY <1>0, <3>2, LeftTaken DEF MakesDirectory
      <4>2. Parent[q] = p /\ p \in Above(p)
        BY <1>0, <2>2, <4>1, UnderClosed DEF Above
      <4> QED BY <1>0, <3>2, <4>2 DEF MakesDirectory
    <3>3. CASE CopiesInto(w, p)
      <4>1. job'[w].left = job[w].left \ {p} /\ p \notin job[w].dirs
        BY <1>0, <3>3, LeftTaken DEF CopiesInto
      <4> QED BY <2>2, <3>1, <4>1
    <3>4. CASE FillsFile(w, p)
      <4>1. job'[w].left = job[w].left \ {p} /\ p \notin job[w].dirs
        BY <1>0, <3>4, Filled DEF FillsFile, JobInv
      <4> QED BY <2>2, <3>1, <4>1
    <3>5. CASE OpensFile(w, p)
      <4>1. job'[w].left = job[w].left
        BY <1>0, <3>5, Opened DEF OpensFile
      <4> QED BY <2>2, <4>1
    <3>6. CASE CannotCopy(w, p)
      <4>1. job'[w].left = job[w].left \ Under[p]
        BY <1>0, <3>6, Skipped DEF CannotCopy
      <4>2. q \in Under[p]
        BY <1>0, <2>2, <3>1, <4>1, UnderClosed
      <4> QED BY <2>2, <4>1, <4>2
    <3> QED
      BY <1>6, <3>2, <3>3, <3>4, <3>5, <3>6 DEF JobStep, RemovesOne, MayRemove
  <2>3. \A q \in job'[w].left : Parent[q] \in job'[w].left \/ dst'[Parent[q]] = "dir"
    <3>1. SUFFICES ASSUME NEW q \in job'[w].left, Parent[q] \notin job'[w].left
                   PROVE  dst'[Parent[q]] = "dir"
      OBVIOUS
    <3>2. CASE Parent[q] \in job[w].left
      BY <2>2, <3>1, <3>2
    <3>3. CASE Parent[q] \notin job[w].left
      <4>1. dst[Parent[q]] = "dir" /\ src[Parent[q]] = "dir" /\ Parent[q] \in DataPaths
        BY <1>0, <1>2, <1>6, <3>1, <3>3 DEF CopyInv
      <4> QED BY <1>1, <4>1, Writing
    <3> QED BY <3>2, <3>3
  <2>4. Parent[p] \notin job[w].left
    BY <1>0, <1>6
       DEF JobStep, RemovesOne, MayRemove, MakesDirectory, OpensFile, FillsFile, CopiesInto,
           CannotCopy, MayCopy, CopyInv
  <2>5. ASSUME NEW r \in job'[w].left, NEW q \in Below, Parent[q] = r, src[q] # "none"
        PROVE  q \in job'[w].left
    <3>1. q \in job[w].left /\ q # p
      BY <1>2, <1>6, <2>4, <2>5 DEF CopyInv
    <3>2. CASE CannotCopy(w, p)
      <4>1. job'[w].left = job[w].left \ Under[p]
        BY <1>0, <3>2, Skipped DEF CannotCopy
      <4>2. q \notin Under[p]
        BY <1>0, <2>5, <3>1, <4>1, UnderParent
      <4> QED BY <3>1, <4>1, <4>2
    <3>3. CASE ~CannotCopy(w, p)
      <4>1. job[w].left \ {p} \subseteq job'[w].left
        <5>1. CASE MakesDirectory(w, p) \/ CopiesInto(w, p)
          <6>1. job'[w].left = job[w].left \ {p}
            BY <1>0, <5>1, LeftTaken DEF MakesDirectory, CopiesInto
          <6> QED BY <6>1
        <5>2. CASE OpensFile(w, p)
          BY <1>0, <5>2, Opened DEF OpensFile
        <5>3. CASE FillsFile(w, p)
          <6>1. job'[w].left = job[w].left \ {p}
            BY <1>0, <5>3, Filled DEF FillsFile
          <6> QED BY <6>1
        <5> QED
          BY <1>6, <3>3, <5>1, <5>2, <5>3 DEF JobStep, RemovesOne, MayRemove
      <4> QED BY <3>1, <4>1
    <3> QED BY <3>2, <3>3
  <2>6. job'[w].open # NoPath => IsFile(job'[w].open, dst') /\ Parent[job'[w].open] \notin job'[w].left
    <3>1. CASE OpensFile(w, p)
      <4>1. job'[w].open = p /\ dst'[p] = Partial
        BY <1>0, <3>1, Opened DEF OpensFile
      <4> QED BY <1>2, <2>4, <4>1, FileContentsAssumption DEF IsFile
    <3>2. CASE MakesDirectory(w, p)
      BY <1>0, <3>2, LeftTaken DEF MakesDirectory, MayCopy
    <3>3. CASE FillsFile(w, p)
      BY <1>0, <3>3, Filled DEF FillsFile, MayCopy
    <3>4. CASE CopiesInto(w, p)
      BY <1>0, <3>4, LeftTaken DEF CopiesInto, MayCopy
    <3>5. CASE CannotCopy(w, p)
      BY <1>0, <3>5, Skipped DEF CannotCopy, MayCopy
    <3> QED
      BY <1>6, <3>1, <3>2, <3>3, <3>4, <3>5 DEF JobStep, RemovesOne, MayRemove
  <2> QED
    BY <1>2, <1>3, <1>4, <1>6, <2>1, <2>3, <2>5, <2>6 DEF CopyInv
<1> QED
  BY <1>5, <1>6

LEMMA Undisturbed ==
  ASSUME NEW u \in Processes, src' = src, dst' = dst, frames'[u] = frames[u], job'[u] = job[u],
         DirsInv(u), RemovalInv(u), CopyInv(u)
  PROVE  DirsInv(u)' /\ RemovalInv(u)' /\ CopyInv(u)'
BY DEF DirsInv, RemovalInv, CopyInv, Dir, Loop, Todo, Depth

\* What a removal or a copy starts with.
LEMMA NewRemoval ==
  ASSUME CallsInv, NEW p \in Below, Obsolete(p), NEW q \in Removal(p).left, src[q] # "none"
  PROVE  q \in Removal(p).dirs <=> src[q] # "dir"
<1>1. IsTree(src) /\ IsTree(dst) /\ p \in DataPaths /\ p \in Under[p]
  BY UnderClosed DEF CallsInv, SyncTypeOK, Tree, DataPaths
<1>2. /\ Removal(p).left = {p} \cup Subtree(p, dst)
      /\ Removal(p).dirs = {r \in Subtree(p, dst) : dst[r] = "dir"}
  BY DEF Removal, NoJob
<1>3. CASE q = p
  BY <1>1, <1>2, <1>3 DEF Subtree, Obsolete, IsFile
<1>4. CASE q # p
  <2>1. q \in Under[p] /\ dst[q] # "none"
    BY <1>2, <1>4 DEF Subtree
  <2>2. src[p] = "dir" /\ dst[p] = "dir"
    BY <1>1, <1>4, <2>1, DirAbove
  <2> QED BY <2>2 DEF Obsolete, IsFile
<1> QED BY <1>3, <1>4

LEMMA NewCopy ==
  ASSUME CallsInv, NEW p \in Below, Differs(p), src[p] # "none", dst[Parent[p]] = "dir",
         NEW q \in Copy(p).left
  PROVE  /\ q \in Below
         /\ src[q] # "none" /\ (q \in Copy(p).dirs <=> src[q] = "dir")
         /\ Parent[q] \in Copy(p).left \/ dst[Parent[q]] = "dir"
         /\ q \notin Copy(p).dirs => dst[q] # "dir"
         /\ \A r \in Below : Parent[r] = q /\ src[r] # "none" => r \in Copy(p).left
<1>1. IsTree(src) /\ IsTree(dst) /\ p \in DataPaths /\ p \in Under[p]
  BY UnderClosed DEF CallsInv, SyncTypeOK, Tree, DataPaths
<1>2. /\ Copy(p).left = {p} \cup Subtree(p, src)
      /\ Copy(p).dirs = {r \in Subtree(p, src) : src[r] = "dir"}
  BY DEF Copy, NoJob
<1>3. q \in Under[p] /\ q \in Below /\ src[q] # "none"
  BY <1>1, <1>2, UnderBelow DEF Subtree
<1>4. q \in Copy(p).dirs <=> src[q] = "dir"
  BY <1>2, <1>3 DEF Subtree
<1>5. Parent[q] \in Copy(p).left \/ dst[Parent[q]] = "dir"
  <2>1. q # p => Parent[q] \in Under[p] /\ src[Parent[q]] = "dir"
    BY <1>1, <1>3, UnderParent DEF IsTree
  <2> QED BY <1>2, <2>1 DEF Subtree
<1>6. q \notin Copy(p).dirs => dst[q] # "dir"
  <2>1. q # p => src[p] = "dir" /\ (dst[q] # "none" => dst[p] = "dir")
    BY <1>1, <1>3, DirAbove
  <2> QED BY <1>3, <1>4, <2>1 DEF Differs, IsFile
<1>7. ASSUME NEW r \in Below, Parent[r] = q, src[r] # "none"
      PROVE  r \in Copy(p).left
  BY <1>1, <1>2, <1>3, <1>7, UnderClosed DEF Subtree
<1> QED
  BY <1>3, <1>4, <1>5, <1>6, <1>7

\* The innermost call's directory is in both trees while nobody else changes them.
LEMMA TodoKnown ==
  ASSUME CallsInv, StackInv, NEW w \in Syncing, DirsInv(w), frames[w] # <<>>,
         NEW p \in Todo(w, Depth(w))
  PROVE  /\ p \in Below /\ Parent[p] = Dir(w, Depth(w))
         /\ src[Parent[p]] = "dir" /\ dst[Parent[p]] = "dir"
         /\ Loop(w, Depth(w)) = 2 => src[p] # "none"
<1>1. Depth(w) \in 1..Depth(w)
  BY DepthNat DEF CallsInv, SyncTypeOK, FramesTyped, CallsOf, Syncing
<1> QED BY <1>1 DEF StackInv, Stacked, DirsInv

LEMMA StableNext ==
  ASSUME CallsInv, StackInv, StableInv, FreshInv, [SyncNext]_syncVars
  PROVE  StableInv'
<1>0. /\ machine.processes \subseteq Processes /\ FramesTyped /\ JobTyped /\ JobInv
      /\ stage \in [Processes -> {"down", "syncing", "running", "failed"}]
      /\ dst \in [DataPaths -> {"none", "dir", Partial} \cup FileContents]
      /\ Root \in DataPaths
  BY MachinesAssumption
     DEF CallsInv, SyncTypeOK, FramesTyped, JobTyped, CallsOf, Tree, DataPaths
<1>a. NoJob.op = "none" /\ \A p : Removal(p).op = "remove" /\ Copy(p).op = "copy"
                                  /\ Removal(p).open = NoPath /\ Copy(p).open = NoPath
  BY DEF NoJob, Removal, Copy
<1>1. CASE EditsData \/ ModuleWrites
  <2>1. touched' = Processes /\ machine' = machine /\ stage' = stage
        /\ (machine.busy \/ \A w \in Processes : stage[w] = "down")
    BY <1>1 DEF EditsData, ModuleWrites
  <2> QED BY <2>1 DEF StableInv, Stable, Syncing
<1>2. CASE UNCHANGED syncVars
  <2>1. Syncing' = Syncing /\ \A u \in Processes : Stable(u)' => Stable(u)
    BY <1>2 DEF syncVars, Syncing, Stable
  <2>2. src' = src /\ dst' = dst /\ \A u \in Processes : frames'[u] = frames[u] /\ job'[u] = job[u]
    BY <1>2 DEF syncVars
  <2> QED BY <2>1, <2>2, Undisturbed DEF StableInv, Syncing
\* The actor's own invariants, when the trees are left alone.
<1>3. ASSUME NEW w \in Processes, src' = src, dst' = dst, machine' = machine,
             touched \subseteq touched', Syncing' \subseteq Syncing,
             \A u \in Processes : u # w => frames'[u] = frames[u] /\ job'[u] = job[u],
             w \in Syncing' /\ Stable(w) => DirsInv(w)' /\ RemovalInv(w)' /\ CopyInv(w)'
      PROVE  StableInv'
  <2>1. SUFFICES ASSUME NEW u \in Syncing', Stable(u)'
                 PROVE  DirsInv(u)' /\ RemovalInv(u)' /\ CopyInv(u)'
    BY DEF StableInv
  <2>2. u \in Processes /\ u \in Syncing /\ Stable(u)
    BY <1>3, <2>1 DEF Syncing, Stable
  <2>3. DirsInv(u) /\ RemovalInv(u) /\ CopyInv(u)
    BY <2>2 DEF StableInv
  <2>4. u # w => DirsInv(u)' /\ RemovalInv(u)' /\ CopyInv(u)'
    BY <1>3, <2>2, <2>3, Undisturbed
  <2> QED BY <1>3, <2>1, <2>2, <2>4
<1>4. ASSUME NEW w \in Processes, NEW next \in {"down", "failed"}, Stop(w, next)
      PROVE  StableInv'
  <2>1. Syncing' \subseteq Syncing \ {w} /\ touched \subseteq touched'
    BY <1>0, <1>4 DEF Stop, Syncing
  <2>2. \A u \in Processes : u # w => frames'[u] = frames[u] /\ job'[u] = job[u]
    BY <1>0, <1>4 DEF Stop, FramesTyped, JobTyped
  <2> QED BY <1>3, <1>4, <2>1, <2>2 DEF Stop
<1>5. ASSUME NEW w \in Processes, Launch(w)
      PROVE  StableInv'
  <2>1. SUFFICES ASSUME NEW u \in Syncing', Stable(u)'
                 PROVE  DirsInv(u)' /\ RemovalInv(u)' /\ CopyInv(u)'
    BY DEF StableInv
  <2>2. src' = src /\ job' = job /\ machine' = machine /\ dst' = [dst EXCEPT ![Root] = "dir"]
    BY <1>5 DEF Launch
  <2>3. CASE u # w
    <3>1. u \in Processes /\ u \in Syncing /\ Stable(u) /\ frames'[u] = frames[u]
      BY <1>0, <1>5, <2>1, <2>3 DEF Launch, Syncing, Stable, FramesTyped
    <3>2. dst[Root] = "dir"
      BY <3>1 DEF CallsInv, SharingInv, Live, Syncing
    <3>3. dst' = dst
      BY <1>0, <2>2, <3>2
    <3>4. DirsInv(u) /\ RemovalInv(u) /\ CopyInv(u)
      BY <3>1 DEF StableInv
    <3> QED BY <2>2, <3>1, <3>3, <3>4, Undisturbed
  <2>4. CASE u = w
    <3>1. stage[w] # "syncing" /\ job'[w] = NoJob
      BY <1>0, <1>5, <2>2 DEF Launch, JobInv
    <3>2. src[Root] = "dir" /\ frames' = [frames EXCEPT ![w] = <<Call(Root, dst)>>]
      BY <1>0, <1>5, <2>1, <2>4 DEF Launch, Syncing
    <3>3. Depth(w)' = 1 /\ Dir(w, 1)' = Root /\ Loop(w, 1)' = 1
      BY <1>0, <3>2, Called
    <3>4. DirsInv(w)'
      BY <1>0, <2>2, <3>2, <3>3 DEF DirsInv
    <3> QED BY <1>a, <2>4, <3>1, <3>4 DEF RemovalInv, CopyInv
  <2> QED BY <2>3, <2>4
<1>6. ASSUME NEW w \in Processes, NEW p \in Below, FirstLoop(w, p) \/ SecondLoop(w, p)
      PROVE  StableInv'
  <2>1. /\ w \in Syncing /\ frames[w] # <<>> /\ job[w] = NoJob /\ p \in Todo(w, Depth(w))
        /\ UNCHANGED <<src, dst, stage, history>>
        /\ \A u \in Processes : u # w => job'[u] = job[u]
        /\ Drops(w, p) => job'[w] = Removal(p)
        /\ Copies(w, p) => job'[w] = Copy(p)
        /\ Keeps(w, p) \/ Descends(w, p) \/ Agrees(w, p) => job' = job
        /\ ~Descends(w, p) => frames' = [frames EXCEPT ![w] = Without(w, p)]
    BY <1>6, Walks
  <2>2. \A u \in Processes : u # w => frames'[u] = frames[u]
    BY <1>0, <1>6, <2>1 DEF Descends, FramesTyped
  <2>3. SUFFICES ASSUME Stable(w)
                 PROVE  DirsInv(w)' /\ RemovalInv(w)' /\ CopyInv(w)'
    BY <1>3, <2>1, <2>2 DEF history, Syncing
  <2>4. DirsInv(w) /\ src' = src /\ dst' = dst
    BY <2>1, <2>3 DEF StableInv
  <2>5. CASE ~Descends(w, p)
    <3>1. /\ Depth(w)' = Depth(w)
          /\ \A i \in 1..Depth(w) :
               Dir(w, i)' = Dir(w, i) /\ Loop(w, i)' = Loop(w, i) /\ Todo(w, i)' \subseteq Todo(w, i)
      BY <1>0, <2>1, <2>5, ItemTaken
    <3>2. DirsInv(w)'
      BY <2>4, <3>1 DEF DirsInv
    <3>3. CASE Drops(w, p)
      <4>1. \A q \in Removal(p).left : src[q] # "none" => (q \in Removal(p).dirs <=> src[q] # "dir")
        BY <3>3, NewRemoval DEF Drops
      <4> QED BY <1>a, <2>1, <2>4, <3>2, <3>3, <4>1 DEF RemovalInv, CopyInv
    <3>4. CASE Copies(w, p)
      <4>1. Differs(p) /\ src[p] # "none" /\ dst[Parent[p]] = "dir"
        BY <2>1, <2>4, <3>4, TodoKnown DEF Copies, Top, Loop
      <4>2. \A q \in Copy(p).left :
              /\ q \in Below
              /\ src[q] # "none" /\ (q \in Copy(p).dirs <=> src[q] = "dir")
              /\ Parent[q] \in Copy(p).left \/ dst[Parent[q]] = "dir"
              /\ q \notin Copy(p).dirs => dst[q] # "dir"
              /\ \A r \in Below : Parent[r] = q /\ src[r] # "none" => r \in Copy(p).left
        BY <4>1, NewCopy
      <4>3. CopyInv(w)'
        BY <1>a, <2>1, <2>4, <3>4, <4>2 DEF CopyInv
      <4>4. RemovalInv(w)'
        BY <1>a, <2>1, <3>4 DEF RemovalInv
      <4> QED BY <3>2, <4>3, <4>4
    <3>5. CASE Keeps(w, p) \/ Agrees(w, p)
      BY <1>a, <2>1, <3>2, <3>5 DEF RemovalInv, CopyInv
    <3> QED BY <1>6, <2>5, <3>3, <3>4, <3>5 DEF FirstLoop, SecondLoop
  <2>6. CASE Descends(w, p)
    <3>1. frames' = [frames EXCEPT ![w] = Append(Without(w, p), Call(p, dst))]
          /\ src[p] = "dir" /\ dst[p] = "dir" /\ p \in DataPaths
      BY <2>6 DEF Descends, DataPaths
    <3>2. /\ Depth(w)' = Depth(w) + 1
          /\ \A i \in 1..Depth(w) :
               /\ Dir(w, i)' = Dir(w, i) /\ Loop(w, i)' = Loop(w, i)
               /\ Todo(w, i)' = IF i = Depth(w) THEN Todo(w, i) \ {p} ELSE Todo(w, i)
          /\ \A i : i = Depth(w) + 1 =>
               Dir(w, i)' = p /\ Loop(w, i)' = 1 /\ Todo(w, i)' = Children(p, dst)
      BY <1>0, <2>1, <3>1, Descended
    <3>3. PICK n \in Nat : n = Depth(w)
      BY <1>0, <2>1, DepthNat
    <3>4. \A i \in 1..n + 1 : i = n + 1 \/ i \in 1..n
      OBVIOUS
    <3>5. ASSUME NEW i \in 1..n + 1
          PROVE  /\ src[Dir(w, i)'] = "dir" /\ dst[Dir(w, i)'] = "dir"
                 /\ Loop(w, i)' = 2 => \A c \in Todo(w, i)' : src[c] # "none"
      <4>1. CASE i = n + 1
        BY <3>1, <3>2, <3>3, <4>1
      <4>2. CASE i \in 1..n
        BY <2>4, <3>2, <3>3, <4>2 DEF DirsInv
      <4> QED BY <3>4, <4>1, <4>2
    <3>6. DirsInv(w)'
      BY <2>4, <3>2, <3>3, <3>5 DEF DirsInv
    <3> QED BY <1>a, <2>1, <2>6, <3>6 DEF RemovalInv, CopyInv
  <2> QED BY <2>5, <2>6
<1>7. ASSUME NEW w \in Processes, ListsSource(w), ~Stop(w, "failed")
      PROVE  StableInv'
  <2>1. PICK T \in SUBSET Below : T = Children(frames[w][Depth(w)].dir, src)
    BY DEF Children
  <2>2. /\ UNCHANGED <<src, dst, stage, job, history>> /\ w \in Syncing /\ frames[w] # <<>>
        /\ frames' = [frames EXCEPT ![w][Depth(w)] = [dir |-> @.dir, loop |-> 2, todo |-> T]]
        /\ job[w].op = "none"
    BY <1>7, <2>1 DEF ListsSource, Working, Syncing
  <2>3. /\ Depth(w)' = Depth(w)
        /\ \A i \in 1..Depth(w) :
             /\ Dir(w, i)' = Dir(w, i)
             /\ Loop(w, i)' = IF i = Depth(w) THEN 2 ELSE Loop(w, i)
             /\ Todo(w, i)' = IF i = Depth(w) THEN T ELSE Todo(w, i)
    BY <1>0, <2>2, CallListed
  <2>4. \A u \in Processes : u # w => frames'[u] = frames[u] /\ job'[u] = job[u]
    BY <1>0, <2>2 DEF FramesTyped
  <2>5. \A c \in T : src[c] # "none"
    BY <2>1 DEF Children
  <2>6. Stable(w) => DirsInv(w)'
    BY <2>2, <2>3, <2>5 DEF DirsInv, StableInv
  <2>7. RemovalInv(w)' /\ CopyInv(w)'
    BY <2>2 DEF RemovalInv, CopyInv
  <2> QED BY <1>3, <2>2, <2>4, <2>6, <2>7 DEF history, Syncing
<1>8. ASSUME NEW w \in Processes, Returns(w)
      PROVE  StableInv'
  <2>1. /\ UNCHANGED <<src, dst, job, history>> /\ w \in Syncing /\ frames[w] # <<>>
        /\ frames' = [frames EXCEPT ![w] = SubSeq(@, 1, Depth(w) - 1)]
        /\ job[w].op = "none" /\ Syncing' \subseteq Syncing
    BY <1>0, <1>8 DEF Returns, Working, Syncing
  <2>r. /\ FramesTyped'
        /\ Depth(w) \in Nat \ {0} /\ Depth(w)' = Depth(w) - 1
        /\ frames[w]' = <<>> <=> Depth(w) = 1
        /\ \A i \in 1..Depth(w) - 1 :
             Dir(w, i)' = Dir(w, i) /\ Loop(w, i)' = Loop(w, i) /\ Todo(w, i)' = Todo(w, i)
    BY <1>0, <2>1, Returned
  <2>2. PICK n \in Nat : n = Depth(w) /\ Depth(w)' = n - 1 /\ n >= 1
        /\ \A i \in 1..n - 1 :
             Dir(w, i)' = Dir(w, i) /\ Loop(w, i)' = Loop(w, i) /\ Todo(w, i)' = Todo(w, i)
    BY <2>r
  <2>3. \A i \in 1..n - 1 : i \in 1..n
    OBVIOUS
  <2>4. Stable(w) => DirsInv(w)'
    BY <2>1, <2>2, <2>3 DEF DirsInv, StableInv
  <2>5. \A u \in Processes : u # w => frames'[u] = frames[u] /\ job'[u] = job[u]
    BY <1>0, <2>1 DEF FramesTyped
  <2>6. RemovalInv(w)' /\ CopyInv(w)'
    BY <2>1 DEF RemovalInv, CopyInv
  <2> QED BY <1>3, <2>1, <2>4, <2>5, <2>6 DEF history
<1>9. ASSUME NEW w \in Processes, NEW p \in Below, JobStep(w, p), ~CannotRemove(w, p)
      PROVE  StableInv'
  <2>1. /\ w \in Syncing /\ UNCHANGED <<src, stage, frames, history>>
        /\ \A u \in Processes : u # w => job'[u] = job[u]
    BY <1>9, JobSteps
  <2>2. SUFFICES ASSUME NEW u \in Syncing', Stable(u)'
                 PROVE  DirsInv(u)' /\ RemovalInv(u)' /\ CopyInv(u)'
    BY DEF StableInv
  <2>3. u \in Processes /\ u \in Syncing /\ Stable(u)
    BY <2>1, <2>2 DEF Syncing, Stable, history
  <2>4. Stable(w)
    BY <2>1, <2>3, AllStable
  <2>5. DirsInv(u) /\ RemovalInv(u) /\ CopyInv(u) /\ DirsInv(w) /\ RemovalInv(w) /\ CopyInv(w)
    BY <2>1, <2>3, <2>4 DEF StableInv
  <2>6. SyncWrites(p)
    BY <1>9, <2>5, JobWrites
  <2>7. CASE u = w
    BY <1>9, <2>5, <2>7, OwnStable
  <2>8. CASE u # w
    BY <2>1, <2>3, <2>5, <2>6, <2>8, OthersStable
  <2> QED BY <2>7, <2>8
<1>10. ASSUME NEW w \in Processes, EndsJob(w), ~Stop(w, "failed")
       PROVE  StableInv'
  <2>1. /\ UNCHANGED <<src, dst, stage, frames, history>> /\ job'[w] = NoJob
        /\ \A u \in Processes : u # w => job'[u] = job[u]
    BY <1>0, <1>10 DEF EndsJob, JobTyped
  <2>2. w \in Syncing' /\ Stable(w) => DirsInv(w)'
    BY <2>1 DEF StableInv, DirsInv, Dir, Loop, Todo, Depth, Syncing
  <2>3. RemovalInv(w)' /\ CopyInv(w)'
    BY <1>a, <2>1 DEF RemovalInv, CopyInv
  <2> QED BY <1>3, <2>1, <2>2, <2>3 DEF history, Syncing
<1>11. \A w \in machine.processes : w \in Processes
  BY <1>0
<1> QED
  BY <1>1, <1>2, <1>4, <1>5, <1>6, <1>7, <1>8, <1>9, <1>10, <1>11
     DEF SyncNext, SyncStep, Crash, CannotRemove

\* The steps that leave alone who syncs, and what is known of whom.
LEMMA Quiet ==
  ASSUME CallsInv, NEW w \in machine.processes, SyncStep(w)
  PROVE  Stop(w, "failed") \/ Returns(w) \/ UNCHANGED <<stage, history>>
BY DEF SyncStep, ListsSource, EndsJob, FirstLoop, SecondLoop, JobStep, Drops, Descends, Keeps,
       Copies, Agrees, RemovesOne, CannotRemove, MakesDirectory, OpensFile, FillsFile, CopiesInto,
       CannotCopy

LEMMA FreshNext ==
  ASSUME CallsInv, FreshInv, [SyncNext]_syncVars
  PROVE  FreshInv'
<1>0. /\ machine.processes \subseteq Processes
      /\ stage \in [Processes -> {"down", "syncing", "running", "failed"}]
  BY MachinesAssumption DEF CallsInv, SyncTypeOK
<1>1. machine' = machine
  <2>1. \A w \in machine.processes : Launch(w) \/ Crash(w) \/ Returns(w) => machine' = machine
    BY DEF Launch, Crash, Stop, Returns, history
  <2>2. \A w \in machine.processes : SyncStep(w) => machine' = machine
    BY <2>1, Quiet DEF Stop, history
  <2>3. EditsData \/ ModuleWrites \/ UNCHANGED syncVars => machine' = machine
    BY DEF EditsData, ModuleWrites, syncVars
  <2> QED BY <2>1, <2>2, <2>3 DEF SyncNext
<1>2. SUFFICES ASSUME machine.busy, NEW w \in Live', w \notin touched',
                      w \in Syncing' \/ w \in overlapped', NEW v \in Syncing'
               PROVE  v \notin touched'
  BY <1>1 DEF FreshInv, Stable
<1>3. ASSUME w \in Live, w \notin touched, w \in Syncing \/ w \in overlapped
      PROVE  \A u \in Syncing : u \notin touched
  BY <1>2, <1>3 DEF FreshInv, Stable
<1>4. w \in Processes /\ v \in Processes
  BY <1>2 DEF Live, Syncing
<1>5. CASE EditsData \/ ModuleWrites
  BY <1>2, <1>4, <1>5 DEF EditsData, ModuleWrites
<1>6. CASE UNCHANGED <<stage, history>>
  BY <1>2, <1>3, <1>6 DEF history, Live, Syncing
<1>7. ASSUME NEW u \in Processes, Launch(u)
      PROVE  v \notin touched'
  <2>1. /\ touched' = IF machine.busy /\ Others(u) \cap touched # {} THEN touched \cup {u}
                      ELSE touched \ {u}
        /\ overlapped' = IF Others(u) = {} THEN overlapped \ {u}
                         ELSE overlapped \cup {u} \cup Others(u)
    BY <1>7 DEF Launch
  <2>2. \A x \in Processes : x # u => stage'[x] = stage[x]
    BY <1>0, <1>7 DEF Launch
  <2>3. Others(u) = Syncing \ {u} /\ u \notin Syncing
    BY <1>7 DEF Others, Syncing, Launch
  <2>4. v # u => v \in Syncing
    BY <1>2, <1>4, <2>2 DEF Syncing
  <2>5. CASE w = u
    BY <1>2, <2>1, <2>3, <2>4, <2>5
  <2>6. CASE w # u
    <3>1. w \in Live /\ w \notin touched /\ (w \in Syncing \/ w \in overlapped)
      BY <1>2, <1>4, <2>1, <2>2, <2>3, <2>6 DEF Live, Syncing
    <3>2. \A x \in Syncing : x \notin touched
      BY <1>3, <3>1
    <3> QED BY <2>1, <2>3, <2>4, <3>2
  <2> QED BY <2>5, <2>6
<1>8. ASSUME NEW u \in Processes, NEW next \in {"down", "failed"}, Stop(u, next)
      PROVE  v \notin touched'
  <2>1. /\ Live' \subseteq Live \ {u} /\ Syncing' = Syncing \ {u} /\ overlapped' = overlapped
        /\ touched' = IF u \in Syncing /\ u \in overlapped THEN touched \cup (overlapped \ {u})
                      ELSE touched
    BY <1>0, <1>8 DEF Stop, Live, Syncing
  <2>2. w \in Live /\ w \notin touched /\ (w \in Syncing \/ w \in overlapped) /\ w # u
    BY <1>2, <2>1
  <2>3. v \notin touched
    BY <1>2, <1>3, <2>1, <2>2
  <2>4. CASE u \in Syncing /\ u \in overlapped
    <3>1. w \in Syncing /\ w \notin overlapped
      BY <1>2, <2>1, <2>2, <2>4
    <3> QED BY <2>2, <2>4, <3>1 DEF CallsInv, SharingInv
  <2> QED BY <2>1, <2>3, <2>4
<1>9. ASSUME NEW u \in Processes, Returns(u)
      PROVE  v \notin touched'
  <2>1. /\ Syncing' \subseteq Syncing /\ touched' = touched /\ overlapped' = overlapped
        /\ \A x \in Live' : x \in Live
        /\ \A x \in Processes : x # u => stage'[x] = stage[x]
        /\ u \in Syncing
    BY <1>0, <1>9 DEF Returns, Working, Syncing, Live, history
  <2> QED BY <1>2, <1>3, <2>1
<1>10. \A u \in machine.processes : u \in Processes
  BY <1>0
<1>11. UNCHANGED syncVars => UNCHANGED <<stage, history>>
  BY DEF syncVars, history
<1> QED
  BY <1>5, <1>6, <1>7, <1>8, <1>9, <1>10, <1>11, Quiet DEF SyncNext, Crash

-----------------------------------------------------------------------------
(* A sync that nobody disturbs *)

Alone(w) == w \in Syncing /\ w \notin touched \cup overlapped

\* What its first loops have listed is still there.
ItemsThere(w) ==
  \A i \in 1..Depth(w) : Loop(w, i) = 1 => \A c \in Todo(w, i) : dst[c] # "none"

\* It removes whole trees, and none that a loop has still to look at.
RemovesWhole(w) ==
  job[w].op = "remove" =>
    \A p \in job[w].left :
      /\ dst[p] # "none" /\ (p \in job[w].dirs <=> dst[p] = "dir")
      /\ \A q \in Below : Parent[q] = p /\ dst[q] # "none" => q \in job[w].left
      /\ \A i \in 1..Depth(w) : p \notin Todo(w, i)

\* The directories that it has still to make are not there.
CopiesNew(w) ==
  job[w].op = "copy" => \A p \in job[w].left \cap job[w].dirs : dst[p] = "none"

AloneInv == \A w \in Processes : Alone(w) => ItemsThere(w) /\ RemovesWhole(w) /\ CopiesNew(w)

LEMMA StepOf ==
  ASSUME CallsInv, NEW v \in Processes, SyncStep(v)
  PROVE  /\ v \in Syncing /\ src' = src
         /\ Syncing' \subseteq Syncing /\ overlapped' = overlapped /\ touched \subseteq touched'
<1>0. /\ JobInv /\ NoJob.op = "none" /\ NoJob.open = NoPath /\ NoPath \notin Below
      /\ stage \in [Processes -> {"down", "syncing", "running", "failed"}]
  BY DataPathsAssumption DEF CallsInv, SyncTypeOK, NoJob, DataPaths
<1>1. ASSUME NEW next \in {"down", "failed"}, Stop(v, next), v \in Syncing
      PROVE  /\ v \in Syncing /\ src' = src
             /\ Syncing' \subseteq Syncing /\ overlapped' = overlapped /\ touched \subseteq touched'
  BY <1>0, <1>1 DEF Stop, Syncing
<1>2. CASE ListsSource(v) \/ Returns(v)
  BY <1>0, <1>1, <1>2 DEF ListsSource, Returns, Working, history, Syncing
<1>3. CASE EndsJob(v)
  <2>1. v \in Syncing
    BY <1>0, <1>3 DEF EndsJob, JobInv, Syncing
  <2> QED BY <1>1, <1>3, <2>1 DEF EndsJob, history, Syncing
<1>4. ASSUME NEW p \in Below, FirstLoop(v, p) \/ SecondLoop(v, p)
      PROVE  /\ v \in Syncing /\ src' = src
             /\ Syncing' \subseteq Syncing /\ overlapped' = overlapped /\ touched \subseteq touched'
  BY <1>4, Walks DEF history, Syncing
<1>5. ASSUME NEW p \in Below, JobStep(v, p)
      PROVE  /\ v \in Syncing /\ src' = src
             /\ Syncing' \subseteq Syncing /\ overlapped' = overlapped /\ touched \subseteq touched'
  <2>1. CASE CannotRemove(v, p)
    <3>1. v \in Syncing
      BY <1>0, <2>1 DEF CannotRemove, MayRemove, JobInv, Syncing
    <3> QED BY <1>1, <2>1, <3>1 DEF CannotRemove
  <2>2. CASE ~CannotRemove(v, p)
    BY <1>5, <2>2, JobSteps DEF history, Syncing
  <2> QED BY <2>1, <2>2
<1> QED
  BY <1>2, <1>3, <1>4, <1>5 DEF SyncStep

\* Nobody else's step matters to it: another one's would be a sync that overlaps.
LEMMA AloneSteps ==
  ASSUME CallsInv, [SyncNext]_syncVars, NEW w \in Processes, Alone(w)'
  PROVE  \/ Launch(w)
         \/ Alone(w) /\ dst' = dst /\ frames'[w] = frames[w] /\ job'[w] = job[w]
         \/ Alone(w) /\ SyncStep(w)
<1>0. /\ machine.processes \subseteq Processes /\ FramesTyped /\ JobTyped /\ SharingInv
      /\ stage \in [Processes -> {"down", "syncing", "running", "failed"}]
  BY MachinesAssumption DEF CallsInv, SyncTypeOK, FramesTyped, JobTyped, CallsOf
<1>1. w \in Syncing' /\ w \notin touched' /\ w \notin overlapped'
  BY DEF Alone
<1>2. CASE EditsData \/ ModuleWrites
  BY <1>1, <1>2 DEF EditsData, ModuleWrites
<1>3. CASE UNCHANGED syncVars
  BY <1>1, <1>3 DEF syncVars, Alone, Syncing
<1>4. ASSUME NEW v \in Processes, Launch(v), v # w
      PROVE  FALSE
  BY <1>0, <1>1, <1>4 DEF Launch, Others, Syncing
<1>5. ASSUME NEW v \in Processes, Crash(v)
      PROVE  Alone(w) /\ dst' = dst /\ frames'[w] = frames[w] /\ job'[w] = job[w]
  <2>1. v # w
    BY <1>0, <1>1, <1>5 DEF Crash, Stop, Syncing
  <2> QED
    BY <1>0, <1>1, <1>5, <2>1 DEF Crash, Stop, Alone, Syncing, FramesTyped, JobTyped
<1>6. ASSUME NEW v \in Processes, SyncStep(v)
      PROVE  Alone(w) /\ v = w
  <2>1. v \in Syncing /\ w \in Syncing /\ w \notin overlapped /\ w \notin touched
    BY <1>1, <1>6, StepOf
  <2> QED BY <1>0, <2>1 DEF Alone, SharingInv
<1>7. \A v \in machine.processes : v \in Processes
  BY <1>0
<1> QED
  BY <1>2, <1>3, <1>4, <1>5, <1>6, <1>7 DEF SyncNext

LEMMA AloneStable ==
  ASSUME StableInv, NEW w \in Processes, Alone(w)
  PROVE  w \in Syncing /\ DirsInv(w) /\ RemovalInv(w) /\ CopyInv(w)
BY DEF StableInv, Stable, Alone

\* No loop has still to look at what is under an obsolete item.
LEMMA RemovesUnvisited ==
  ASSUME CallsInv, StackInv, NEW w \in Syncing, DirsInv(w), NEW p \in Below, Obsolete(p),
         NEW q \in Under[p], NEW i \in 1..Depth(w), q \in Todo(w, i)
  PROVE  q = p
<1>1. q \in Below /\ Parent[q] = Dir(w, i)
  BY DEF StackInv, Stacked
<1>2. src[Dir(w, i)] = "dir" /\ dst[Dir(w, i)] = "dir"
  BY DEF DirsInv
<1>3. p \in DataPaths /\ IsTree(src) /\ IsTree(dst)
  BY DEF CallsInv, SyncTypeOK, Tree, DataPaths
<1>4. ASSUME q # p
      PROVE  FALSE
  <2>1. Dir(w, i) \in Under[p]
    BY <1>1, <1>3, <1>4, UnderParent
  <2>2. src[p] = "dir" /\ dst[p] = "dir"
    BY <1>2, <1>3, <2>1, DirAbove
  <2> QED BY <2>2 DEF Obsolete, IsFile
<1> QED BY <1>4

LEMMA NewAloneRemoval ==
  ASSUME CallsInv, NEW p \in Below, dst[p] # "none", NEW q \in Removal(p).left
  PROVE  /\ q \in Under[p] /\ dst[q] # "none" /\ (q \in Removal(p).dirs <=> dst[q] = "dir")
         /\ \A r \in Below : Parent[r] = q /\ dst[r] # "none" => r \in Removal(p).left
<1>1. p \in DataPaths /\ p \in Under[p]
  BY UnderClosed DEF DataPaths
<1>2. /\ Removal(p).left = {p} \cup Subtree(p, dst)
      /\ Removal(p).dirs = {r \in Subtree(p, dst) : dst[r] = "dir"}
  BY DEF Removal, NoJob
<1>3. q \in Under[p] /\ dst[q] # "none"
  BY <1>1, <1>2 DEF Subtree
<1>4. ASSUME NEW r \in Below, Parent[r] = q, dst[r] # "none"
      PROVE  r \in Removal(p).left
  BY <1>1, <1>2, <1>3, <1>4, UnderClosed DEF Subtree
<1> QED BY <1>2, <1>3, <1>4 DEF Subtree

LEMMA NewAloneCopy ==
  ASSUME CallsInv, NEW p \in Below, Differs(p), NEW q \in Copy(p).left \cap Copy(p).dirs
  PROVE  dst[q] = "none"
<1>1. IsTree(src) /\ IsTree(dst) /\ p \in DataPaths
  BY DEF CallsInv, SyncTypeOK, Tree, DataPaths
<1>2. Copy(p).dirs = {r \in Subtree(p, src) : src[r] = "dir"}
  BY DEF Copy, NoJob
<1>3. q \in Under[p] /\ src[q] = "dir"
  BY <1>2 DEF Subtree
<1>4. q # p => src[p] = "dir" /\ (dst[q] # "none" => dst[p] = "dir")
  BY <1>1, <1>3, DirAbove
<1> QED BY <1>3, <1>4 DEF Differs, IsFile

\* A step of the removal or the copy.
LEMMA AloneJob ==
  ASSUME CallsInv, NEW w \in Processes, NEW p \in Below, JobStep(w, p), ~CannotRemove(w, p),
         CopyInv(w), RemovalInv(w), ItemsThere(w), RemovesWhole(w), CopiesNew(w)
  PROVE  ItemsThere(w)' /\ RemovesWhole(w)' /\ CopiesNew(w)'
<1>0. /\ FramesTyped /\ JobTyped /\ JobInv /\ p \in DataPaths /\ p # NoPath
      /\ dst \in [DataPaths -> {"none", "dir", Partial} \cup FileContents]
      /\ job[w].left \subseteq Below
  BY DataPathsAssumption
     DEF CallsInv, SyncTypeOK, Tree, DataPaths, FramesTyped, CallsOf, JobTyped, Jobs
<1>1. /\ frames' = frames /\ job'[w].op = job[w].op /\ job'[w].dirs = job[w].dirs
      /\ job'[w].left \subseteq job[w].left
  BY JobSteps
<1>2. \A i : Dir(w, i)' = Dir(w, i) /\ Loop(w, i)' = Loop(w, i) /\ Todo(w, i)' = Todo(w, i)
  BY <1>1 DEF Dir, Loop, Todo
<1>3. Depth(w)' = Depth(w) /\ \A i \in 1..Depth(w) : Todo(w, i) \subseteq Below
  BY <1>0, <1>1, CallTypes DEF Depth
<1>4. CASE RemovesOne(w, p)
  <2>1. /\ dst' = [dst EXCEPT ![p] = "none"] /\ job[w].op = "remove" /\ p \in job[w].left
        /\ job'[w].left = job[w].left \ {p}
    BY <1>0, <1>4, LeftTaken DEF RemovesOne, MayRemove
  <2>2. \A q \in DataPaths : q # p => dst'[q] = dst[q]
    BY <1>0, <2>1
  <2>3. \A q \in Below : q \in DataPaths /\ (dst'[q] # "none" => q # p /\ dst[q] # "none")
    BY <1>0, <2>1, <2>2 DEF DataPaths
  <2>4. ItemsThere(w)'
    <3>1. \A i \in 1..Depth(w) : p \notin Todo(w, i)
      BY <2>1 DEF RemovesWhole
    <3> QED BY <1>2, <1>3, <2>2, <2>3, <3>1 DEF ItemsThere
  <2>5. RemovesWhole(w)'
    BY <1>0, <1>1, <1>2, <1>3, <2>1, <2>2, <2>3 DEF RemovesWhole
  <2> QED BY <1>1, <2>1, <2>4, <2>5 DEF CopiesNew
<1>5. ASSUME job[w].op = "copy", \A q \in DataPaths : dst[q] # "none" => dst'[q] # "none",
             \A q \in (job'[w].left \cap job[w].dirs) : dst'[q] = dst[q]
      PROVE  ItemsThere(w)' /\ RemovesWhole(w)' /\ CopiesNew(w)'
  <2>1. ItemsThere(w)'
    BY <1>2, <1>3, <1>5 DEF ItemsThere, DataPaths
  <2> QED BY <1>1, <1>5, <2>1 DEF RemovesWhole, CopiesNew
<1>6. CASE MakesDirectory(w, p)
  <2>1. job[w].op = "copy" /\ job'[w].left = job[w].left \ {p}
    BY <1>0, <1>6, LeftTaken DEF MakesDirectory, MayCopy
  <2>2. SyncWrites(p)
    BY <1>6, JobWrites DEF JobStep, CannotRemove, MayRemove, MakesDirectory, MayCopy
  <2>3. \A q \in DataPaths : dst[q] # "none" => dst'[q] # "none"
    BY <1>6 DEF MakesDirectory
  <2>4. \A q \in (job'[w].left \cap job[w].dirs) : dst'[q] = dst[q]
    BY <1>0, <2>1, <2>2 DEF SyncWrites, DataPaths
  <2> QED BY <1>5, <2>1, <2>3, <2>4
<1>7. CASE OpensFile(w, p)
  <2>1. job[w].op = "copy" /\ p \notin job[w].dirs /\ dst' = [dst EXCEPT ![p] = Partial]
    BY <1>7 DEF OpensFile, MayCopy
  <2>2. \A q \in DataPaths : dst'[q] = IF q = p THEN Partial ELSE dst[q]
    BY <1>0, <2>1
  <2> QED BY <1>0, <1>1, <1>5, <2>1, <2>2, FileContentsAssumption DEF DataPaths
<1>8. CASE FillsFile(w, p)
  <2>1. job[w].op = "copy" /\ p \notin job[w].dirs
    BY <1>0, <1>8 DEF FillsFile, JobInv
  <2>2. PICK c : c # "none" /\ dst' = IF IsFile(p, dst) THEN [dst EXCEPT ![p] = c] ELSE dst
    BY <1>8, FileContentsAssumption DEF FillsFile, IsFile
  <2>3. \A q \in DataPaths : dst'[q] = dst[q] \/ (q = p /\ dst'[q] = c)
    BY <1>0, <2>2
  <2> QED BY <1>0, <1>1, <1>5, <2>1, <2>2, <2>3 DEF DataPaths
<1>9. CASE CopiesInto(w, p) \/ CannotCopy(w, p)
  <2>1. job[w].op = "copy" /\ dst' = dst
    BY <1>9 DEF CopiesInto, CannotCopy, MayCopy
  <2> QED BY <1>5, <2>1
<1> QED BY <1>4, <1>6, <1>7, <1>8, <1>9 DEF JobStep

LEMMA AloneNext ==
  ASSUME CallsInv, StackInv, StableInv, AloneInv, [SyncNext]_syncVars
  PROVE  AloneInv'
<1>0. /\ machine.processes \subseteq Processes /\ FramesTyped /\ JobTyped /\ JobInv
      /\ stage \in [Processes -> {"down", "syncing", "running", "failed"}]
      /\ dst \in [DataPaths -> {"none", "dir", Partial} \cup FileContents]
      /\ Root \in DataPaths /\ Root \notin Below
  BY MachinesAssumption, DataPathsAssumption
     DEF CallsInv, SyncTypeOK, FramesTyped, JobTyped, CallsOf, Tree, DataPaths
<1>a. NoJob.op = "none" /\ \A p : Removal(p).op = "remove" /\ Copy(p).op = "copy"
  BY DEF NoJob, Removal, Copy
<1>1. SUFFICES ASSUME NEW w \in Processes, Alone(w)'
               PROVE  ItemsThere(w)' /\ RemovesWhole(w)' /\ CopiesNew(w)'
  BY DEF AloneInv
<1>2. ASSUME Alone(w), dst' = dst, frames'[w] = frames[w], job'[w] = job[w]
      PROVE  ItemsThere(w)' /\ RemovesWhole(w)' /\ CopiesNew(w)'
  BY <1>2 DEF AloneInv, ItemsThere, RemovesWhole, CopiesNew, Dir, Loop, Todo, Depth
<1>3. CASE Launch(w)
  <2>1. job'[w].op = "none"
    BY <1>0, <1>3, <1>a DEF Launch, JobInv
  <2>2. frames' = [frames EXCEPT ![w] = <<Call(Root, dst)>>] /\ dst' = [dst EXCEPT ![Root] = "dir"]
    BY <1>0, <1>1, <1>3 DEF Launch, Alone, Syncing
  <2>3. Depth(w)' = 1 /\ Todo(w, 1)' = Children(Root, dst)
    BY <1>0, <2>2, Called
  <2>4. \A c \in Children(Root, dst) : dst'[c] # "none"
    BY <1>0, <2>2 DEF Children, DataPaths
  <2> QED BY <2>1, <2>3, <2>4 DEF ItemsThere, RemovesWhole, CopiesNew
\* What the loops have listed becomes less, or is of what is there.
<1>4. ASSUME Alone(w), dst' = dst, job'[w].op = "none",
             \A i \in 1..Depth(w)' : Loop(w, i)' = 1 => \A c \in Todo(w, i)' : dst[c] # "none"
      PROVE  ItemsThere(w)' /\ RemovesWhole(w)' /\ CopiesNew(w)'
  BY <1>4 DEF ItemsThere, RemovesWhole, CopiesNew
<1>5. ASSUME Alone(w), NEW p \in Below, FirstLoop(w, p) \/ SecondLoop(w, p), ~Descends(w, p)
      PROVE  ItemsThere(w)' /\ RemovesWhole(w)' /\ CopiesNew(w)'
  <2>1. /\ w \in Syncing /\ frames[w] # <<>> /\ job[w] = NoJob /\ p \in Todo(w, Depth(w))
        /\ UNCHANGED <<src, dst, stage, history>>
        /\ \A u \in Processes : u # w => job'[u] = job[u]
        /\ Drops(w, p) => job'[w] = Removal(p)
        /\ Copies(w, p) => job'[w] = Copy(p)
        /\ Keeps(w, p) \/ Descends(w, p) \/ Agrees(w, p) => job' = job
        /\ ~Descends(w, p) => frames' = [frames EXCEPT ![w] = Without(w, p)]
    BY <1>5, Walks
  <2>2. /\ Depth(w)' = Depth(w)
        /\ \A i \in 1..Depth(w) :
             /\ Dir(w, i)' = Dir(w, i) /\ Loop(w, i)' = Loop(w, i)
             /\ Todo(w, i)' =
                  IF w = w /\ i = Depth(w) THEN Todo(w, i) \ {p} ELSE Todo(w, i)
    BY <1>0, <1>5, <2>1, ItemTaken
  <2>3. ItemsThere(w) /\ DirsInv(w) /\ Depth(w) \in 1..Depth(w)
    BY <1>0, <1>5, <2>1, AloneStable, DepthNat DEF AloneInv
  <2>4. ItemsThere(w)'
    BY <2>1, <2>2, <2>3 DEF ItemsThere
  <2>5. CASE Drops(w, p)
    <3>1. Obsolete(p) /\ dst[p] # "none"
      BY <2>1, <2>3, <2>5 DEF Drops, ItemsThere, Top, Loop
    <3>2. ASSUME NEW q \in Removal(p).left
          PROVE  /\ q \in Under[p] /\ dst[q] # "none" /\ (q \in Removal(p).dirs <=> dst[q] = "dir")
                 /\ \A r \in Below : Parent[r] = q /\ dst[r] # "none" => r \in Removal(p).left
      BY <3>1, <3>2, NewAloneRemoval
    <3>3. ASSUME NEW q \in Removal(p).left, NEW i \in 1..Depth(w), q \in Todo(w, i)'
          PROVE  FALSE
      <4>1. q \in Under[p] /\ q \in Todo(w, i)
        BY <2>2, <3>2, <3>3
      <4>2. q = p
        BY <2>1, <2>3, <3>1, <3>3, <4>1, RemovesUnvisited
      <4>3. i # Depth(w)
        BY <2>2, <3>3, <4>2
      <4>4. Parent[p] = Dir(w, i) /\ Parent[p] = Dir(w, Depth(w))
        BY <2>1, <2>3, <4>1, <4>2 DEF StackInv, Stacked
      <4>5. \A k, j \in 1..Depth(w) : Dir(w, k) = Dir(w, j) => k = j
        BY <2>1 DEF StackInv, Stacked
      <4> QED BY <2>3, <4>3, <4>4, <4>5, Zenon
    <3> QED BY <1>a, <2>1, <2>2, <2>4, <2>5, <3>2, <3>3 DEF RemovesWhole, CopiesNew
  <2>6. CASE Copies(w, p)
    <3>1. \A q \in Copy(p).left \cap Copy(p).dirs : dst[q] = "none"
      BY <2>6, NewAloneCopy DEF Copies
    <3> QED BY <1>a, <2>1, <2>4, <2>6, <3>1 DEF RemovesWhole, CopiesNew
  <2>7. CASE Keeps(w, p) \/ Agrees(w, p)
    BY <1>a, <2>1, <2>4, <2>7 DEF RemovesWhole, CopiesNew
  <2> QED BY <1>5, <2>5, <2>6, <2>7 DEF FirstLoop, SecondLoop
<1>6. ASSUME Alone(w), NEW p \in Below, Descends(w, p)
      PROVE  ItemsThere(w)' /\ RemovesWhole(w)' /\ CopiesNew(w)'
  <2>1. /\ frames' = [frames EXCEPT ![w] = Append(Without(w, p), Call(p, dst))]
        /\ dst' = dst /\ job' = job /\ job[w].op = "none" /\ p \in DataPaths /\ frames[w] # <<>>
    BY <1>6 DEF Descends, Working, DataPaths
  <2>2. /\ Depth(w)' = Depth(w) + 1
        /\ \A i \in 1..Depth(w) :
             /\ Dir(w, i)' = Dir(w, i) /\ Loop(w, i)' = Loop(w, i)
             /\ Todo(w, i)' = IF i = Depth(w) THEN Todo(w, i) \ {p} ELSE Todo(w, i)
        /\ \A i : i = Depth(w) + 1 =>
             Dir(w, i)' = p /\ Loop(w, i)' = 1 /\ Todo(w, i)' = Children(p, dst)
    BY <1>0, <2>1, Descended
  <2>3. PICK n \in Nat : n = Depth(w)
    BY <1>0, <2>1, DepthNat
  <2>4. \A i \in 1..n + 1 : i = n + 1 \/ i \in 1..n
    OBVIOUS
  <2>5. ASSUME NEW i \in 1..n + 1, Loop(w, i)' = 1, NEW c \in Todo(w, i)'
        PROVE  dst[c] # "none"
    <3>1. CASE i = n + 1
      BY <2>2, <2>3, <2>5, <3>1 DEF Children
    <3>2. CASE i \in 1..n
      BY <1>6, <2>2, <2>3, <2>5, <3>2 DEF AloneInv, ItemsThere
    <3> QED BY <2>4, <3>1, <3>2
  <2> QED BY <1>4, <1>6, <2>1, <2>2, <2>3, <2>5
<1>7. CASE Alone(w) /\ ListsSource(w)
  <2>1. ~Stop(w, "failed")
    BY <1>0, <1>1 DEF Stop, Alone, Syncing
  <2>2. PICK T \in SUBSET Below : T = Children(frames[w][Depth(w)].dir, src)
    BY DEF Children
  <2>3. /\ dst' = dst /\ job' = job /\ job[w].op = "none" /\ frames[w] # <<>>
        /\ frames' = [frames EXCEPT ![w][Depth(w)] = [dir |-> @.dir, loop |-> 2, todo |-> T]]
    BY <1>7, <2>1, <2>2 DEF ListsSource, Working
  <2>4. /\ Depth(w)' = Depth(w)
        /\ \A i \in 1..Depth(w) :
             /\ Dir(w, i)' = Dir(w, i)
             /\ Loop(w, i)' = IF i = Depth(w) THEN 2 ELSE Loop(w, i)
             /\ Todo(w, i)' = IF i = Depth(w) THEN T ELSE Todo(w, i)
    BY <1>0, <2>3, CallListed
  <2>5. \A i \in 1..Depth(w) : Loop(w, i)' = 1 => \A c \in Todo(w, i)' : dst[c] # "none"
    BY <1>7, <2>4 DEF AloneInv, ItemsThere
  <2> QED BY <1>4, <1>7, <2>3, <2>4, <2>5
<1>8. CASE Alone(w) /\ Returns(w)
  <2>1. /\ dst' = dst /\ job' = job /\ job[w].op = "none" /\ frames[w] # <<>>
        /\ frames' = [frames EXCEPT ![w] = SubSeq(@, 1, Depth(w) - 1)]
    BY <1>8 DEF Returns, Working
  <2>2. /\ Depth(w) \in Nat \ {0} /\ Depth(w)' = Depth(w) - 1
        /\ \A i \in 1..Depth(w) - 1 :
             Dir(w, i)' = Dir(w, i) /\ Loop(w, i)' = Loop(w, i) /\ Todo(w, i)' = Todo(w, i)
    BY <1>0, <2>1, Returned
  <2>3. PICK n \in Nat \ {0} : n = Depth(w)
    BY <2>2
  <2>4. \A i \in 1..n - 1 : i \in 1..n
    OBVIOUS
  <2>5. \A i \in 1..Depth(w)' : Loop(w, i)' = 1 => \A c \in Todo(w, i)' : dst[c] # "none"
    BY <1>8, <2>2, <2>3, <2>4 DEF AloneInv, ItemsThere
  <2> QED BY <1>4, <1>8, <2>1, <2>5
<1>9. CASE Alone(w) /\ EndsJob(w)
  <2>1. ~Stop(w, "failed")
    BY <1>0, <1>1 DEF Stop, Alone, Syncing
  <2>2. dst' = dst /\ frames' = frames /\ job'[w].op = "none"
    BY <1>0, <1>9, <1>a, <2>1 DEF EndsJob, JobTyped
  <2> QED
    BY <1>9, <2>2 DEF AloneInv, ItemsThere, RemovesWhole, CopiesNew, Loop, Todo, Depth
<1>10. ASSUME Alone(w), NEW p \in Below, JobStep(w, p)
       PROVE  ItemsThere(w)' /\ RemovesWhole(w)' /\ CopiesNew(w)'
  <2>1. ~CannotRemove(w, p)
    BY <1>0, <1>1 DEF CannotRemove, Stop, Alone, Syncing
  <2>2. /\ RemovalInv(w) /\ CopyInv(w)
        /\ ItemsThere(w) /\ RemovesWhole(w) /\ CopiesNew(w)
    BY <1>10, AloneStable DEF AloneInv
  <2> QED BY <1>10, <2>1, <2>2, AloneJob
<1> QED
  BY <1>1, <1>2, <1>3, <1>5, <1>6, <1>7, <1>8, <1>9, <1>10, AloneSteps DEF SyncStep

\* A removal or a copy that nobody disturbs does not fail.
LEMMA AloneCanRemove ==
  ASSUME AloneInv, NEW w \in Processes, Alone(w), NEW p \in Below, MayRemove(w, p)
  PROVE  Removable(w, p)
BY DEF AloneInv, RemovesWhole, MayRemove, Removable, Children

LEMMA AloneCanCopy ==
  ASSUME CallsInv, StableInv, AloneInv, NEW w \in Processes, Alone(w), NEW p \in Below,
         MayCopy(w, p)
  PROVE  Copyable(w, p)
<1>1. /\ job[w].op = "copy" /\ p \in job[w].left /\ CopyInv(w) /\ CopiesNew(w)
      /\ dst[Parent[p]] = "dir" /\ Parent[p] \in DataPaths /\ p \in DataPaths /\ IsTree(dst)
  BY AloneStable, DataPathsAssumption
     DEF AloneInv, MayCopy, CopyInv, CallsInv, SyncTypeOK, Tree, DataPaths
<1>2. src[p] # "none" /\ (p \in job[w].dirs <=> src[p] = "dir")
  BY <1>1 DEF CopyInv
<1>3. CASE p \in job[w].dirs
  <2>1. dst[p] = "none"
    BY <1>1, <1>3 DEF CopiesNew
  <2>2. ASSUME NEW q \in Above(p)
        PROVE  ~IsFile(q, dst)
    <3>1. q # p => q \in DataPaths /\ Parent[p] \in Under[q]
      BY UnderParent DEF Above
    <3>2. q # p => dst[q] = "dir"
      BY <1>1, <3>1, DirAbove
    <3> QED BY <2>1, <3>2 DEF IsFile
  <2> QED BY <1>2, <1>3, <2>1, <2>2 DEF Copyable
<1>4. CASE p \notin job[w].dirs
  BY <1>1, <1>2, <1>4 DEF Copyable, IsFile
<1> QED BY <1>3, <1>4

LEMMA FailsNext ==
  ASSUME CallsInv, StackInv, StableInv, AloneInv, FailsOnlyIfTouched, [SyncNext]_syncVars
  PROVE  FailsOnlyIfTouched'
<1>0. /\ machine.processes \subseteq Processes /\ FramesTyped /\ JobTyped /\ JobInv
      /\ stage \in [Processes -> {"down", "syncing", "running", "failed"}]
      /\ ~NoJob.failed /\ NoJob.op = "none"
  BY MachinesAssumption
     DEF CallsInv, SyncTypeOK, FramesTyped, JobTyped, CallsOf, NoJob
<1>1. ASSUME NEW u \in Processes, stage'[u] = "failed" => stage[u] = "failed",
             job'[u].failed => job[u].failed, touched \subseteq touched' \cup {u},
             u \in touched => u \in touched', u \in overlapped => u \in overlapped'
      PROVE  stage'[u] = "failed" \/ job'[u].failed => u \in touched' \cup overlapped'
  BY <1>1 DEF FailsOnlyIfTouched
<1>2. CASE EditsData \/ ModuleWrites
  BY <1>2 DEF EditsData, ModuleWrites, FailsOnlyIfTouched
<1>3. ASSUME NEW w \in Processes, Launch(w)
      PROVE  FailsOnlyIfTouched'
  <2>1. /\ job' = job /\ ~job[w].failed /\ stage'[w] # "failed"
        /\ \A u \in Processes : u # w => stage'[u] = stage[u]
        /\ touched \subseteq touched' \cup {w} /\ overlapped \subseteq overlapped' \cup {w}
    BY <1>0, <1>3 DEF Launch, JobInv
  <2> QED BY <2>1 DEF FailsOnlyIfTouched
<1>4. ASSUME NEW w \in Processes, NEW next \in {"down", "failed"}, Stop(w, next),
             next = "failed" => ~Alone(w) /\ w \in Syncing
      PROVE  FailsOnlyIfTouched'
  <2>1. /\ touched \subseteq touched' /\ overlapped' = overlapped
        /\ \A u \in Processes : u # w => stage'[u] = stage[u] /\ job'[u] = job[u]
        /\ stage'[w] = next /\ job'[w] = NoJob
    BY <1>0, <1>4 DEF Stop, JobTyped
  <2> QED BY <1>0, <1>4, <2>1 DEF FailsOnlyIfTouched, Alone
<1>5. CASE UNCHANGED <<stage, job, touched, overlapped>>
  BY <1>5 DEF FailsOnlyIfTouched
<1>6. ASSUME NEW w \in Processes, ListsSource(w)
      PROVE  FailsOnlyIfTouched'
  <2>1. CASE src[Top(w).dir] = "dir"
    BY <1>5, <1>6, <2>1 DEF ListsSource, history
  <2>2. CASE src[Top(w).dir] # "dir"
    <3>1. Stop(w, "failed") /\ w \in Syncing /\ frames[w] # <<>>
      BY <1>6, <2>2 DEF ListsSource, Working, Syncing
    <3>2. Depth(w) \in 1..Depth(w) /\ src[Dir(w, Depth(w))] # "dir"
      BY <1>0, <2>2, <3>1, DepthNat DEF Top, Dir
    <3>3. ~Alone(w)
      BY <3>2, AloneStable DEF DirsInv
    <3> QED BY <1>4, <3>1, <3>3
  <2> QED BY <2>1, <2>2
<1>7. ASSUME NEW w \in Processes, Returns(w)
      PROVE  FailsOnlyIfTouched'
  <2>1. /\ UNCHANGED <<job, history>>
        /\ \A u \in Processes : stage'[u] = stage[u] \/ stage'[u] = "running"
    BY <1>0, <1>7 DEF Returns
  <2> QED BY <2>1 DEF FailsOnlyIfTouched, history
<1>8. ASSUME NEW w \in Processes, EndsJob(w)
      PROVE  FailsOnlyIfTouched'
  <2>1. w \in Syncing
    BY <1>8, StepOf DEF SyncStep
  <2>2. CASE job[w].failed
    <3>1. Stop(w, "failed") /\ ~Alone(w)
      BY <1>8, <2>2 DEF EndsJob, FailsOnlyIfTouched, Alone
    <3> QED BY <1>4, <2>1, <3>1
  <2>3. CASE ~job[w].failed
    <3>1. /\ UNCHANGED <<stage, history>> /\ job'[w] = NoJob
          /\ \A u \in Processes : u # w => job'[u] = job[u]
      BY <1>0, <1>8, <2>3 DEF EndsJob, JobTyped
    <3> QED BY <1>0, <3>1 DEF FailsOnlyIfTouched, history
  <2> QED BY <2>2, <2>3
<1>9. ASSUME NEW w \in Processes, NEW p \in Below, FirstLoop(w, p) \/ SecondLoop(w, p)
      PROVE  FailsOnlyIfTouched'
  <2>1. /\ UNCHANGED <<stage, history>>
        /\ \A u \in Processes : u # w => job'[u] = job[u]
        /\ job'[w] = job[w] \/ job'[w] = Removal(p) \/ job'[w] = Copy(p)
    BY <1>9, Walks DEF FirstLoop, SecondLoop
  <2>2. ~Removal(p).failed /\ ~Copy(p).failed
    BY DEF Removal, Copy, NoJob
  <2> QED BY <2>1, <2>2 DEF FailsOnlyIfTouched, history
<1>10. ASSUME NEW w \in Processes, NEW p \in Below, JobStep(w, p)
       PROVE  FailsOnlyIfTouched'
  <2>1. CASE CannotRemove(w, p)
    <3>1. w \in Syncing
      BY <1>0, <2>1 DEF CannotRemove, MayRemove, JobInv, Syncing
    <3>2. ~Alone(w)
      BY <2>1, AloneCanRemove DEF CannotRemove
    <3> QED BY <1>4, <2>1, <3>1, <3>2 DEF CannotRemove
  <2>2. CASE CannotCopy(w, p)
    <3>1. ~Alone(w)
      BY <2>2, AloneCanCopy DEF CannotCopy
    <3>2. /\ w \in Syncing /\ UNCHANGED <<stage, history>>
          /\ \A u \in Processes : u # w => job'[u] = job[u]
      BY <1>10, <2>2, JobSteps DEF CannotRemove, CannotCopy, MayRemove, MayCopy
    <3> QED BY <3>1, <3>2 DEF FailsOnlyIfTouched, Alone, history
  <2>3. CASE ~CannotRemove(w, p) /\ ~CannotCopy(w, p)
    <3>1. /\ UNCHANGED <<stage, history>>
          /\ \A u \in Processes : u # w => job'[u] = job[u]
      BY <1>10, <2>3, JobSteps
    <3>2. job'[w].failed = job[w].failed
      BY <1>0, <1>10, <2>3, LeftTaken, Opened, Filled
         DEF JobStep, RemovesOne, MakesDirectory, OpensFile, FillsFile, CopiesInto
    <3> QED BY <3>1, <3>2 DEF FailsOnlyIfTouched, history
  <2> QED BY <2>1, <2>2, <2>3
<1>11. ASSUME NEW w \in Processes, Crash(w)
       PROVE  FailsOnlyIfTouched'
  BY <1>4, <1>11 DEF Crash
<1>12. \A w \in machine.processes : w \in Processes
  BY <1>0
<1>13. UNCHANGED syncVars => UNCHANGED <<stage, job, touched, overlapped>>
  BY DEF syncVars
<1> QED
  BY <1>2, <1>3, <1>5, <1>6, <1>7, <1>8, <1>9, <1>10, <1>11, <1>12, <1>13 DEF SyncNext, SyncStep

-----------------------------------------------------------------------------
(* What the syncs have done *)

\* Only the innermost call is in its second loop, and only first loops remove.
LoopInv ==
  \A w \in Syncing : \A i \in 1..Depth(w) :
    Loop(w, i) = 2 => i = Depth(w) /\ job[w].op # "remove"

LEMMA LoopNext ==
  ASSUME CallsInv, LoopInv, [SyncNext]_syncVars
  PROVE  LoopInv'
<1>0. /\ machine.processes \subseteq Processes /\ FramesTyped /\ JobTyped /\ JobInv
      /\ stage \in [Processes -> {"down", "syncing", "running", "failed"}]
      /\ Root \in DataPaths
  BY MachinesAssumption
     DEF CallsInv, SyncTypeOK, FramesTyped, JobTyped, CallsOf, DataPaths
<1>a. NoJob.op = "none" /\ \A p : Removal(p).op = "remove" /\ Copy(p).op = "copy"
  BY DEF NoJob, Removal, Copy
<1>1. ASSUME NEW w \in Processes,
             \A u \in Processes : u # w => frames'[u] = frames[u] /\ job'[u].op = job[u].op,
             Syncing' \subseteq Syncing \cup {w},
             w \in Syncing' => \A i \in 1..Depth(w)' :
               Loop(w, i)' = 2 => i = Depth(w)' /\ job'[w].op # "remove"
      PROVE  LoopInv'
  <2>1. SUFFICES ASSUME NEW u \in Syncing', NEW i \in 1..Depth(u)', Loop(u, i)' = 2
                 PROVE  i = Depth(u)' /\ job'[u].op # "remove"
    BY DEF LoopInv
  <2>2. CASE u # w
    <3>1. u \in Syncing /\ u \in Processes /\ frames'[u] = frames[u] /\ job'[u].op = job[u].op
      BY <1>1, <2>2 DEF Syncing
    <3> QED BY <2>1, <3>1 DEF LoopInv, Depth, Loop
  <2>3. CASE u = w
    BY <1>1, <2>1, <2>3
  <2> QED BY <2>2, <2>3
<1>2. CASE EditsData \/ ModuleWrites \/ UNCHANGED syncVars
  BY <1>2 DEF EditsData, ModuleWrites, syncVars, LoopInv, Syncing, Loop, Depth
<1>3. ASSUME NEW w \in Processes, Launch(w)
      PROVE  LoopInv'
  <2>1. /\ job' = job /\ Syncing' \subseteq Syncing \cup {w} /\ w \notin Syncing
        /\ \A u \in Processes : u # w => frames'[u] = frames[u]
    BY <1>0, <1>3 DEF Launch, Syncing, FramesTyped
  <2>2. ASSUME w \in Syncing'
        PROVE  Depth(w)' = 1 /\ Loop(w, 1)' = 1
    <3>1. frames' = [frames EXCEPT ![w] = <<Call(Root, dst)>>]
      BY <1>0, <1>3, <2>2 DEF Launch, Syncing
    <3> QED BY <1>0, <3>1, Called
  <2> QED BY <1>1, <2>1, <2>2
<1>4. ASSUME NEW w \in Processes, NEW next \in {"down", "failed"}, Stop(w, next)
      PROVE  LoopInv'
  <2>1. w \notin Syncing' /\ Syncing' \subseteq Syncing
        /\ \A u \in Processes : u # w => frames'[u] = frames[u] /\ job'[u] = job[u]
    BY <1>0, <1>4 DEF Stop, Syncing, FramesTyped, JobTyped
  <2> QED BY <1>1, <2>1
<1>5. ASSUME NEW w \in Processes, NEW p \in Below, FirstLoop(w, p) \/ SecondLoop(w, p)
      PROVE  LoopInv'
  <2>1. /\ w \in Syncing /\ frames[w] # <<>> /\ job[w] = NoJob /\ p \in Todo(w, Depth(w))
        /\ UNCHANGED <<src, dst, stage, history>>
        /\ \A u \in Processes : u # w => job'[u] = job[u]
        /\ Drops(w, p) => job'[w] = Removal(p)
        /\ Copies(w, p) => job'[w] = Copy(p)
        /\ Keeps(w, p) \/ Descends(w, p) \/ Agrees(w, p) => job' = job
        /\ ~Descends(w, p) => frames' = [frames EXCEPT ![w] = Without(w, p)]
    BY <1>5, Walks
  <2>2. Syncing' \subseteq Syncing
        /\ \A u \in Processes : u # w => frames'[u] = frames[u]
    BY <1>0, <1>5, <2>1 DEF Syncing, FramesTyped, Descends
  <2>3. CASE ~Descends(w, p)
    <3>1. /\ Depth(w)' = Depth(w)
          /\ \A i \in 1..Depth(w) : Loop(w, i)' = Loop(w, i)
      BY <1>0, <2>1, <2>3, ItemTaken
    <3>2. Drops(w, p) => Loop(w, Depth(w)) = 1
      BY DEF Drops, Top, Loop
    <3>3. job'[w].op = "remove" => Drops(w, p)
      BY <1>5, <1>a, <2>1 DEF FirstLoop, SecondLoop
    <3>4. \A i \in 1..Depth(w)' : Loop(w, i)' = 2 => i = Depth(w)' /\ job'[w].op # "remove"
      BY <2>1, <3>1, <3>2, <3>3 DEF LoopInv
    <3> QED BY <1>1, <2>1, <2>2, <3>4
  <2>4. CASE Descends(w, p)
    <3>1. /\ frames' = [frames EXCEPT ![w] = Append(Without(w, p), Call(p, dst))]
          /\ p \in DataPaths /\ Loop(w, Depth(w)) = 1 /\ job' = job
      BY <2>4 DEF Descends, DataPaths, Top, Loop
    <3>2. /\ Depth(w)' = Depth(w) + 1
          /\ \A i \in 1..Depth(w) :
               /\ Dir(w, i)' = Dir(w, i) /\ Loop(w, i)' = Loop(w, i)
               /\ Todo(w, i)' = IF i = Depth(w) THEN Todo(w, i) \ {p} ELSE Todo(w, i)
          /\ \A i : i = Depth(w) + 1 =>
               Dir(w, i)' = p /\ Loop(w, i)' = 1 /\ Todo(w, i)' = Children(p, dst)
      BY <1>0, <2>1, <3>1, Descended
    <3>3. PICK n \in Nat : n = Depth(w)
      BY <1>0, <2>1, DepthNat
    <3>4. \A i \in 1..n + 1 : i = n + 1 \/ i \in 1..n
      OBVIOUS
    <3>5. \A i \in 1..n : Loop(w, i) # 2
      BY <2>1, <3>1, <3>3 DEF LoopInv
    <3>6. \A i \in 1..n + 1 : Loop(w, i)' # 2
      BY <3>2, <3>3, <3>4, <3>5
    <3> QED BY <1>1, <2>1, <2>2, <3>2, <3>3, <3>6
  <2> QED BY <2>3, <2>4
<1>6. ASSUME NEW w \in Processes, ListsSource(w), ~Stop(w, "failed")
      PROVE  LoopInv'
  <2>1. PICK T \in SUBSET Below : T = Children(frames[w][Depth(w)].dir, src)
    BY DEF Children
  <2>2. /\ UNCHANGED <<stage, job>> /\ w \in Syncing /\ frames[w] # <<>> /\ job[w].op = "none"
        /\ frames' = [frames EXCEPT ![w][Depth(w)] = [dir |-> @.dir, loop |-> 2, todo |-> T]]
    BY <1>6, <2>1 DEF ListsSource, Working, Syncing
  <2>3. /\ Depth(w)' = Depth(w)
        /\ \A i \in 1..Depth(w) :
             /\ Dir(w, i)' = Dir(w, i)
             /\ Loop(w, i)' = IF i = Depth(w) THEN 2 ELSE Loop(w, i)
             /\ Todo(w, i)' = IF i = Depth(w) THEN T ELSE Todo(w, i)
    BY <1>0, <2>2, CallListed
  <2>4. Syncing' = Syncing /\ \A u \in Processes : u # w => frames'[u] = frames[u]
    BY <1>0, <2>2 DEF Syncing, FramesTyped
  <2>5. \A i \in 1..Depth(w)' : Loop(w, i)' = 2 => i = Depth(w)' /\ job'[w].op # "remove"
    BY <2>2, <2>3 DEF LoopInv
  <2> QED BY <1>1, <2>2, <2>4, <2>5
<1>7. ASSUME NEW w \in Processes, Returns(w)
      PROVE  LoopInv'
  <2>1. /\ job' = job /\ w \in Syncing /\ frames[w] # <<>> /\ Syncing' \subseteq Syncing
        /\ frames' = [frames EXCEPT ![w] = SubSeq(@, 1, Depth(w) - 1)]
    BY <1>0, <1>7 DEF Returns, Working, Syncing
  <2>2. /\ Depth(w) \in Nat \ {0} /\ Depth(w)' = Depth(w) - 1
        /\ \A i \in 1..Depth(w) - 1 :
             Dir(w, i)' = Dir(w, i) /\ Loop(w, i)' = Loop(w, i) /\ Todo(w, i)' = Todo(w, i)
    BY <1>0, <2>1, Returned
  <2>3. PICK n \in Nat \ {0} : n = Depth(w)
    BY <2>2
  <2>4. \A i \in 1..n - 1 : i \in 1..n /\ i # n
    OBVIOUS
  <2>5. \A i \in 1..Depth(w)' : Loop(w, i)' # 2
    BY <2>1, <2>2, <2>3, <2>4 DEF LoopInv
  <2>6. \A u \in Processes : u # w => frames'[u] = frames[u]
    BY <1>0, <2>1 DEF FramesTyped
  <2> QED BY <1>1, <2>1, <2>5, <2>6
<1>8. ASSUME NEW w \in Processes, NEW p \in Below, JobStep(w, p), ~CannotRemove(w, p)
      PROVE  LoopInv'
  <2>1. /\ frames' = frames /\ stage' = stage /\ w \in Syncing
        /\ \A u \in Processes : job'[u].op = job[u].op
    BY <1>8, JobSteps
  <2> QED BY <2>1 DEF LoopInv, Syncing, Loop, Depth
<1>9. ASSUME NEW w \in Processes, EndsJob(w), ~Stop(w, "failed")
      PROVE  LoopInv'
  <2>1. /\ frames' = frames /\ stage' = stage /\ job'[w] = NoJob
        /\ \A u \in Processes : u # w => job'[u] = job[u]
    BY <1>0, <1>9 DEF EndsJob, JobTyped
  <2>2. \A u \in Processes : job'[u].op = "remove" => job[u].op = "remove"
    BY <1>a, <2>1
  <2> QED BY <2>1, <2>2 DEF LoopInv, Syncing, Loop, Depth
<1>10. \A w \in machine.processes : w \in Processes
  BY <1>0
<1> QED
  BY <1>2, <1>3, <1>4, <1>5, <1>6, <1>7, <1>8, <1>9, <1>10
     DEF SyncNext, SyncStep, Crash, CannotRemove

\* A copy under way still has it, or is going to report that it failed.
Copied(p, v) ==
  v \in Syncing /\ job[v].op = "copy" /\ (p \in job[v].left \/ job[v].failed)

Good(p) == dst[p] = src[p] \/ \E v \in Processes : Copied(p, v)

AllGood(c) == \A q \in Under[c] : Good(q)

\* What a first loop leaves behind, and a second loop may count on.
Cleared(c) == ~Wrong(c) /\ (dst[c] = "dir" => AllGood(c))

LEMMA StaysGood ==
  ASSUME src' = src, dst' = dst,
         \A v \in Processes : \A q \in DataPaths : Copied(q, v) => Copied(q, v)'
  PROVE  /\ \A q \in DataPaths : Good(q) => Good(q)'
         /\ \A c \in DataPaths : (AllGood(c) => AllGood(c)') /\ (Cleared(c) => Cleared(c)')
<1>1. \A q \in DataPaths : Good(q) => Good(q)'
  BY DEF Good
<1>2. \A c \in DataPaths : AllGood(c) => AllGood(c)'
  BY <1>1, UnderClosed DEF AllGood
<1>3. \A c \in DataPaths : Wrong(c)' => Wrong(c)
  BY DEF Wrong, IsFile
<1> QED BY <1>1, <1>2, <1>3 DEF Cleared

\* The steps of removals and copies leave what is good so.
LEMMA GoodJob ==
  ASSUME CallsInv, NEW v \in Processes, NEW p \in Below, JobStep(v, p), ~CannotRemove(v, p),
         RemovalInv(v), CopyInv(v), NEW q \in DataPaths, Good(q)
  PROVE  Good(q)'
<1>0. /\ FramesTyped /\ JobTyped /\ JobInv /\ p \in DataPaths /\ p # NoPath
      /\ dst \in [DataPaths -> {"none", "dir", Partial} \cup FileContents]
  BY DataPathsAssumption
     DEF CallsInv, SyncTypeOK, Tree, DataPaths, FramesTyped, CallsOf, JobTyped
<1>1. /\ v \in Syncing /\ Syncing' = Syncing /\ src' = src /\ p \in job[v].left
      /\ job'[v].op = job[v].op /\ (job[v].failed => job'[v].failed)
      /\ \A u \in Processes : u # v => job'[u] = job[u]
  BY JobSteps DEF Syncing
<1>2. SyncWrites(p)
  BY JobWrites
<1>3. \A u \in Processes : u # v /\ Copied(q, u) => Copied(q, u)'
  BY <1>1 DEF Copied
<1>4. ASSUME dst[q] = dst'[q], Copied(q, v) => Copied(q, v)'
      PROVE  Good(q)'
  BY <1>1, <1>3, <1>4 DEF Good
<1>5. CASE RemovesOne(v, p)
  <2>1. Wrong(p) /\ ~Copied(q, v)
    BY <1>5 DEF RemovesOne, MayRemove, Removable, RemovalInv, Wrong, IsFile, Copied
  <2>2. CASE q # p
    BY <1>2, <1>4, <2>1, <2>2 DEF SyncWrites
  <2>3. CASE q = p
    <3>1. dst[q] # src[q]
      BY <2>1, <2>3 DEF Wrong, IsFile
    <3> QED BY <1>3, <2>1, <3>1 DEF Good
  <2> QED BY <2>2, <2>3
<1>6. CASE MakesDirectory(v, p) \/ FillsFile(v, p)
  <2>1. job'[v].left = job[v].left \ {p} /\ job'[v].failed = job[v].failed
    BY <1>0, <1>6, LeftTaken, Filled DEF MakesDirectory, FillsFile
  <2>2. CASE q # p
    <3>1. Copied(q, v) => Copied(q, v)'
      BY <1>1, <2>1, <2>2 DEF Copied
    <3> QED BY <1>2, <1>4, <2>2, <3>1 DEF SyncWrites
  <2>3. dst'[p] = src[p]
    <3>1. CASE MakesDirectory(v, p)
      BY <1>0, <3>1, UnderClosed DEF MakesDirectory, Copyable, Above
    <3>2. CASE FillsFile(v, p)
      <4>1. IsFile(p, src) /\ IsFile(p, dst)
        BY <1>0, <3>2 DEF FillsFile, JobInv, CopyInv, IsFile
      <4> QED BY <1>0, <3>2, <4>1 DEF FillsFile
    <3> QED BY <1>6, <3>1, <3>2
  <2> QED BY <1>1, <2>2, <2>3 DEF Good
<1>7. CASE OpensFile(v, p)
  <2>1. job'[v].left = job[v].left /\ job'[v].failed = job[v].failed /\ job[v].op = "copy"
    BY <1>0, <1>7, Opened DEF OpensFile, MayCopy
  <2>2. q = p => Copied(q, v)'
    BY <1>1, <2>1 DEF Copied
  <2>3. Copied(q, v) => Copied(q, v)'
    BY <1>1, <2>1 DEF Copied
  <2> QED BY <1>2, <1>4, <2>2, <2>3 DEF SyncWrites, Good
<1>8. CASE CopiesInto(v, p)
  BY <1>8 DEF CopiesInto, MayCopy, CopyInv
<1>9. CASE CannotCopy(v, p)
  <2>1. job'[v].failed = TRUE /\ job[v].op = "copy"
    BY <1>0, <1>9, Skipped DEF CannotCopy, MayCopy
  <2>2. Copied(q, v)'
    BY <1>1, <2>1 DEF Copied
  <2> QED BY <2>2 DEF Good
<1> QED BY <1>5, <1>6, <1>7, <1>8, <1>9 DEF JobStep

\* What a copy has left of a directory is all that the source has there.
LEMMA LeftUnder ==
  ASSUME CallsInv, NEW v \in Processes, CopyInv(v), job[v].op = "copy",
         NEW p \in Below, p \in job[v].left, NEW q \in Under[p], src[q] # "none"
  PROVE  q \in job[v].left
<1> DEFINE S == {r \in Under[p] : src[r] # "none" => r \in job[v].left}
<1>1. p \in DataPaths /\ IsTree(src)
  BY DEF CallsInv, SyncTypeOK, Tree, DataPaths
<1>2. p \in S /\ S \in SUBSET DataPaths
  BY <1>1, UnderClosed
<1>3. ASSUME NEW r \in Below, Parent[r] \in S \cap Under[p]
      PROVE  r \in S
  <2>1. r \in Under[p] /\ (src[r] # "none" => src[Parent[r]] # "none")
    BY <1>1, <1>3, UnderClosed DEF IsTree
  <2> QED BY <1>3, <2>1 DEF CopyInv
<1>4. Under[p] \subseteq S
  <2> HIDE DEF S
  <2> QED BY <1>1, <1>2, <1>3, UnderInduction
<1> QED BY <1>4

LEMMA ClearedJob ==
  ASSUME CallsInv, NEW v \in Processes, NEW p \in Below, JobStep(v, p), ~CannotRemove(v, p),
         RemovalInv(v), CopyInv(v), NEW c \in Below
  PROVE  (AllGood(c) => AllGood(c)') /\ (Cleared(c) => Cleared(c)')
<1>0. /\ FramesTyped /\ JobTyped /\ JobInv /\ p \in DataPaths /\ c \in DataPaths
      /\ IsTree(src) /\ IsTree(dst)
      /\ dst \in [DataPaths -> {"none", "dir", Partial} \cup FileContents]
      /\ Under[c] \subseteq DataPaths
  BY UnderClosed DEF CallsInv, SyncTypeOK, Tree, DataPaths, FramesTyped, CallsOf, JobTyped
<1>1. SyncWrites(p) /\ src' = src /\ v \in Syncing /\ Syncing' = Syncing
  BY JobWrites, JobSteps DEF Syncing
<1>2. AllGood(c) => AllGood(c)'
  BY <1>0, GoodJob DEF AllGood
<1>3. Wrong(c)' => Wrong(c)
  BY <1>0, <1>1 DEF Wrong, SyncWrites, IsFile
<1>4. ASSUME dst[c] # "dir", dst'[c] = "dir"
      PROVE  AllGood(c)'
  <2>1. c = p /\ dst[p] = "none" /\ src[p] = "dir"
    BY <1>0, <1>1, <1>4 DEF SyncWrites
  <2>2. MakesDirectory(v, p)
    BY <1>0, <1>4, <2>1, FileContentsAssumption
       DEF JobStep, RemovesOne, OpensFile, FillsFile, CopiesInto, CannotCopy, IsFile
  <2>3. /\ job[v].op = "copy" /\ p \in job[v].left
        /\ job'[v].left = job[v].left \ {p} /\ job'[v].op = job[v].op
    BY <1>0, <2>2, LeftTaken DEF MakesDirectory, MayCopy
  <2>4. ASSUME NEW q \in Under[c]
        PROVE  Good(q)'
    <3>1. CASE q = p
      BY <1>1, <1>4, <2>1, <3>1 DEF Good
    <3>2. CASE q # p /\ src[q] # "none"
      <4>1. q \in job[v].left
        BY <2>1, <2>3, <2>4, <3>2, LeftUnder
      <4>2. Copied(q, v)'
        BY <1>1, <2>3, <3>2, <4>1 DEF Copied
      <4> QED BY <4>2 DEF Good
    <3>3. CASE q # p /\ src[q] = "none"
      <4>1. dst[q] = "none"
        BY <1>0, <2>1, <2>4, <3>3, DirAbove
      <4> QED BY <1>0, <1>1, <2>4, <3>3, <4>1 DEF Good, SyncWrites
    <3> QED BY <3>1, <3>2, <3>3
  <2> QED BY <2>4 DEF AllGood
<1>5. Cleared(c) => Cleared(c)'
  BY <1>2, <1>3, <1>4 DEF Cleared
<1> QED BY <1>2, <1>5

\* A call for it is under way, or it is being removed.
Elsewhere(w, c) ==
  \/ \E j \in 1..Depth(w) : c = Dir(w, j)
  \/ job[w].op = "remove" /\ c \in job[w].left

\* What the loops of a sync have been at.
Visited(w) ==
  \A i \in 1..Depth(w) : \A c \in Below :
    Parent[c] = Dir(w, i) /\ ~Elsewhere(w, c) =>
      /\ Loop(w, i) = 2 \/ c \notin Todo(w, i) => Cleared(c)
      /\ Loop(w, i) = 2 /\ c \notin Todo(w, i) => AllGood(c)

VisitedInv == \A w \in Syncing \ touched : Visited(w)

LEMMA TopChildren ==
  ASSUME StackInv, FramesTyped, NEW w \in Syncing, frames[w] # <<>>, NEW c \in Below,
         Parent[c] = Dir(w, Depth(w))
  PROVE  \A j \in 1..Depth(w) : c # Dir(w, j)
<1>1. PICK n \in Nat : n = Depth(w) /\ n >= 1
  BY DepthNat DEF Syncing
<1>2. Stacked(w)
  BY DEF StackInv
<1>3. SUFFICES ASSUME NEW j \in 1..n, c = Dir(w, j) PROVE FALSE
  BY <1>1
<1>4. j > 1
  BY <1>2, <1>3, DataPathsAssumption DEF Stacked
<1>5. Dir(w, j - 1) = Dir(w, n) /\ j - 1 \in 1..n /\ n \in 1..n
  BY <1>1, <1>2, <1>3, <1>4 DEF Stacked
<1>6. j - 1 = n
  BY <1>1, <1>2, <1>5 DEF Stacked
<1> QED BY <1>3, <1>6

LEMMA VisitedKept ==
  ASSUME NEW u \in Processes, frames'[u] = frames[u], job'[u] = job[u],
         \A c \in Below : (AllGood(c) => AllGood(c)') /\ (Cleared(c) => Cleared(c)'),
         Visited(u)
  PROVE  Visited(u)'
<1>1. /\ Depth(u)' = Depth(u)
      /\ \A i : Dir(u, i)' = Dir(u, i) /\ Loop(u, i)' = Loop(u, i) /\ Todo(u, i)' = Todo(u, i)
  BY DEF Depth, Dir, Loop, Todo
<1>2. \A c : Elsewhere(u, c)' <=> Elsewhere(u, c)
  BY <1>1 DEF Elsewhere
<1> QED BY <1>1, <1>2 DEF Visited

\* A path that is a directory in neither tree, and is good, has only good paths below
\* it.
LEMMA NothingBelow ==
  ASSUME CallsInv, NEW c \in Below, dst[c] # "dir",
         src[c] # "dir", dst[c] = src[c] \/ \E v \in Processes : Copied(c, v)
  PROVE  AllGood(c)
<1>1. IsTree(src) /\ IsTree(dst) /\ c \in DataPaths
  BY DEF CallsInv, SyncTypeOK, Tree, DataPaths
<1>2. \A q \in Under[c] : q # c => dst[q] = "none" /\ src[q] = "none"
  BY <1>1, DirAbove
<1> QED BY <1>2 DEF AllGood, Good

\* The items of the first loop that need no removal and no call.
LEMMA KeptCleared ==
  ASSUME NEW p \in Below, ~Obsolete(p), ~(dst[p] = "dir" /\ src[p] = "dir")
  PROVE  Cleared(p)
BY DEF Obsolete, Cleared, Wrong, IsFile

\* ... and of the second loop.
LEMMA AgreedGood ==
  ASSUME CallsInv, NEW p \in Below, ~Differs(p), Cleared(p)
  PROVE  AllGood(p)
<1>1. CASE dst[p] = "dir"
  BY <1>1 DEF Cleared
<1>2. CASE dst[p] # "dir"
  <2>1. dst[p] = src[p] /\ src[p] # "dir"
    BY <1>2 DEF Differs, Cleared, Wrong, IsFile
  <2> QED BY <1>2, <2>1, NothingBelow
<1> QED BY <1>1, <1>2

\* What is about to be copied, and what is not in the source.
LEMMA CopiedGood ==
  ASSUME CallsInv, NEW w \in Syncing, NEW p \in Below, Differs(p), job'[w] = Copy(p),
         src' = src, dst' = dst, Syncing' = Syncing
  PROVE  AllGood(p)'
<1>1. IsTree(src) /\ IsTree(dst) /\ p \in DataPaths
  BY DEF CallsInv, SyncTypeOK, Tree, DataPaths
<1>2. Copy(p).op = "copy" /\ Copy(p).left = {p} \cup Subtree(p, src)
  BY DEF Copy, NoJob
<1>3. ASSUME NEW q \in Under[p]
      PROVE  Good(q)'
  <2>1. CASE q = p \/ src[q] # "none"
    <3>1. Copied(q, w)'
      BY <1>2, <1>3, <2>1 DEF Copied, Subtree
    <3> QED BY <3>1 DEF Good, Syncing
  <2>2. CASE q # p /\ src[q] = "none"
    <3>1. dst[q] # "none" => dst[p] = "dir"
      BY <1>1, <1>3, <2>2, DirAbove
    <3> QED BY <2>2, <3>1 DEF Good, Differs, IsFile
  <2> QED BY <2>1, <2>2
<1> QED BY <1>3 DEF AllGood

LEMMA GoneGood ==
  ASSUME CallsInv, NEW c \in Below, src[c] = "none", Cleared(c)
  PROVE  AllGood(c)
BY NothingBelow DEF Cleared, Wrong

\* A call that returns has seen to all of its directory.
LEMMA ReturnedGood ==
  ASSUME NEW d \in DataPaths, src[d] = dst[d], \A c \in Below : Parent[c] = d => AllGood(c)
  PROVE  AllGood(d)
BY UnderChildren DEF AllGood, Good

\* A process's own steps along its items.
LEMMA VisitedWalks ==
  ASSUME CallsInv, StackInv, NEW w \in Syncing, DirsInv(w), Visited(w),
         NEW p \in Below, FirstLoop(w, p) \/ SecondLoop(w, p),
         \A c \in Below : (AllGood(c) => AllGood(c)') /\ (Cleared(c) => Cleared(c)')
  PROVE  Visited(w)'
<1>0. /\ FramesTyped /\ JobTyped /\ JobInv /\ w \in Processes /\ p \in DataPaths
      /\ \A r : Removal(r).op = "remove" /\ r \in Removal(r).left /\ Copy(r).op = "copy"
      /\ NoJob.op = "none"
  BY DEF CallsInv, SyncTypeOK, FramesTyped, JobTyped, CallsOf, Syncing, DataPaths, Removal, Copy,
         NoJob
<1>1. /\ frames[w] # <<>> /\ job[w] = NoJob /\ p \in Todo(w, Depth(w))
      /\ UNCHANGED <<src, dst, stage, history>>
      /\ Drops(w, p) => job'[w] = Removal(p)
      /\ Copies(w, p) => job'[w] = Copy(p)
      /\ Keeps(w, p) \/ Descends(w, p) \/ Agrees(w, p) => job' = job
      /\ ~Descends(w, p) => frames' = [frames EXCEPT ![w] = Without(w, p)]
  BY <1>0, Walks
<1>2. PICK n \in Nat : n = Depth(w) /\ n >= 1 /\ n \in 1..n
  BY <1>0, <1>1, DepthNat
<1>3. Parent[p] = Dir(w, n) /\ ~Elsewhere(w, p)
  <2>1. Parent[p] = Dir(w, Depth(w))
    BY <1>1, <1>2 DEF StackInv, Stacked
  <2>2. \A j \in 1..Depth(w) : p # Dir(w, j)
    BY <1>0, <1>1, <2>1, TopChildren
  <2> QED BY <1>0, <1>1, <1>2, <2>1, <2>2 DEF Elsewhere
\* What matters of the item it takes.
<1>4. ASSUME ~Descends(w, p), Drops(w, p) \/ Cleared(p)', Loop(w, n) = 2 => AllGood(p)'
      PROVE  Visited(w)'
  <2>1. /\ Depth(w)' = n
        /\ \A i \in 1..n :
             /\ Dir(w, i)' = Dir(w, i) /\ Loop(w, i)' = Loop(w, i)
             /\ Todo(w, i)' =
                  IF w = w /\ i = n THEN Todo(w, i) \ {p} ELSE Todo(w, i)
    BY <1>0, <1>1, <1>2, <1>4, ItemTaken
  <2>2. \A c : Elsewhere(w, c) => Elsewhere(w, c)'
    BY <1>0, <1>1, <1>2, <2>1 DEF Elsewhere
  <2>3. Drops(w, p) => Elsewhere(w, p)'
    BY <1>0, <1>1 DEF Elsewhere
  <2>4. ASSUME NEW i \in 1..n, NEW c \in Below, Parent[c] = Dir(w, i), ~Elsewhere(w, c)'
        PROVE  /\ Loop(w, i) = 2 \/ c \notin Todo(w, i)' => Cleared(c)'
               /\ Loop(w, i) = 2 /\ c \notin Todo(w, i)' => AllGood(c)'
    <3>1. /\ Loop(w, i) = 2 \/ c \notin Todo(w, i) => Cleared(c)'
          /\ Loop(w, i) = 2 /\ c \notin Todo(w, i) => AllGood(c)'
      BY <1>2, <2>2, <2>4 DEF Visited
    <3>2. c \notin Todo(w, i)' /\ c \in Todo(w, i) => i = n /\ c = p
      BY <2>1
    <3> QED BY <1>4, <2>3, <2>4, <3>1, <3>2
  <2> QED BY <2>1, <2>4 DEF Visited
<1>5. CASE Drops(w, p)
  BY <1>2, <1>4, <1>5 DEF Drops, Descends, Top, Loop, Obsolete, IsFile
<1>6. CASE Keeps(w, p)
  BY <1>2, <1>4, <1>6, KeptCleared DEF Keeps, Descends, Top, Loop
<1>7. CASE Copies(w, p) \/ Agrees(w, p)
  <2>1. Loop(w, n) = 2 /\ ~Descends(w, p)
    BY <1>2, <1>7 DEF Copies, Agrees, Descends, Top, Loop
  <2>2. Cleared(p) /\ Cleared(p)'
    BY <1>2, <1>3, <2>1 DEF Visited
  <2>3. AllGood(p)'
    <3>1. CASE Copies(w, p)
      <4>1. Differs(p) /\ Syncing' = Syncing
        BY <1>1, <3>1 DEF Copies, Syncing
      <4> QED BY <1>1, <3>1, <4>1, CopiedGood
    <3>2. CASE Agrees(w, p)
      BY <2>2, <3>2, AgreedGood DEF Agrees
    <3> QED BY <1>7, <3>1, <3>2
  <2> QED BY <1>4, <2>1, <2>2, <2>3
<1>8. CASE Descends(w, p)
  <2>1. /\ frames' = [frames EXCEPT ![w] = Append(Without(w, p), Call(p, dst))]
        /\ Loop(w, n) = 1 /\ job' = job
    BY <1>2, <1>8 DEF Descends, Top, Loop
  <2>2. /\ Depth(w)' = n + 1
        /\ \A i \in 1..n :
             /\ Dir(w, i)' = Dir(w, i) /\ Loop(w, i)' = Loop(w, i)
             /\ Todo(w, i)' = IF i = n THEN Todo(w, i) \ {p} ELSE Todo(w, i)
        /\ \A i : i = n + 1 =>
             Dir(w, i)' = p /\ Loop(w, i)' = 1 /\ Todo(w, i)' = Children(p, dst)
    <3>1. /\ Depth(w)' = Depth(w) + 1
          /\ \A i \in 1..Depth(w) :
               /\ Dir(w, i)' = Dir(w, i) /\ Loop(w, i)' = Loop(w, i)
               /\ Todo(w, i)' = IF i = Depth(w) THEN Todo(w, i) \ {p} ELSE Todo(w, i)
          /\ \A i : i = Depth(w) + 1 =>
               Dir(w, i)' = p /\ Loop(w, i)' = 1 /\ Todo(w, i)' = Children(p, dst)
      BY <1>0, <1>1, <2>1, Descended
    <3> QED BY <1>2, <3>1
  <2>3. \A i \in 1..n + 1 : i = n + 1 \/ i \in 1..n
    OBVIOUS
  <2>4. n + 1 \in 1..n + 1 /\ \A i \in 1..n : i \in 1..n + 1
    BY <1>2
  <2>5. \A c : Elsewhere(w, c) \/ c = p => Elsewhere(w, c)'
    BY <1>0, <1>1, <1>2, <2>1, <2>2, <2>4 DEF Elsewhere
  <2>6. ASSUME NEW i \in 1..n + 1, NEW c \in Below, Parent[c] = Dir(w, i)', ~Elsewhere(w, c)'
        PROVE  /\ Loop(w, i)' = 2 \/ c \notin Todo(w, i)' => Cleared(c)'
               /\ Loop(w, i)' = 2 /\ c \notin Todo(w, i)' => AllGood(c)'
    <3>1. CASE i = n + 1
      <4>1. Loop(w, i)' # 2 /\ Todo(w, i)' = Children(p, dst) /\ Parent[c] = p
        BY <2>2, <2>6, <3>1
      <4>2. c \notin Todo(w, i)' => Cleared(c)
        BY <4>1 DEF Children, Cleared, Wrong, IsFile
      <4> QED BY <4>1, <4>2
    <3>2. CASE i \in 1..n
      <4>1. /\ Dir(w, i)' = Dir(w, i) /\ Loop(w, i)' = Loop(w, i)
            /\ c # p => (c \in Todo(w, i)' <=> c \in Todo(w, i))
        BY <2>2, <3>2
      <4>2. c # p /\ ~Elsewhere(w, c)
        BY <2>5, <2>6
      <4> QED BY <1>2, <2>6, <3>2, <4>1, <4>2 DEF Visited
    <3> QED BY <2>3, <3>1, <3>2
  <2> QED BY <2>2, <2>6 DEF Visited
<1> QED BY <1>5, <1>6, <1>7, <1>8 DEF FirstLoop, SecondLoop

LEMMA VisitedLists ==
  ASSUME CallsInv, StackInv, NEW w \in Syncing, Visited(w), ListsSource(w), ~Stop(w, "failed"),
         \A c \in Below : (AllGood(c) => AllGood(c)') /\ (Cleared(c) => Cleared(c)')
  PROVE  Visited(w)'
<1>0. /\ FramesTyped /\ w \in Processes
  BY DEF CallsInv, SyncTypeOK, FramesTyped, CallsOf, Syncing
<1>1. PICK T \in SUBSET Below : T = Children(frames[w][Depth(w)].dir, src)
  BY DEF Children
<1>2. /\ frames[w] # <<>> /\ job[w].op = "none" /\ job' = job
      /\ Loop(w, Depth(w)) = 1 /\ Todo(w, Depth(w)) = {}
      /\ frames' = [frames EXCEPT ![w][Depth(w)] = [dir |-> @.dir, loop |-> 2, todo |-> T]]
  BY <1>1 DEF ListsSource, Working, Top, Loop, Todo
<1>3. /\ Depth(w)' = Depth(w)
      /\ \A i \in 1..Depth(w) :
           /\ Dir(w, i)' = Dir(w, i)
           /\ Loop(w, i)' = IF i = Depth(w) THEN 2 ELSE Loop(w, i)
           /\ Todo(w, i)' = IF i = Depth(w) THEN T ELSE Todo(w, i)
  BY <1>0, <1>2, <1>1, CallListed
<1>4. \A c : Elsewhere(w, c) => Elsewhere(w, c)'
  BY <1>2, <1>3 DEF Elsewhere
<1>5. ASSUME NEW i \in 1..Depth(w), NEW c \in Below, Parent[c] = Dir(w, i), ~Elsewhere(w, c)'
      PROVE  /\ Loop(w, i)' = 2 \/ c \notin Todo(w, i)' => Cleared(c)'
             /\ Loop(w, i)' = 2 /\ c \notin Todo(w, i)' => AllGood(c)'
  <2>1. CASE i # Depth(w)
    BY <1>3, <1>4, <1>5, <2>1 DEF Visited
  <2>2. CASE i = Depth(w)
    <3>1. Cleared(c)
      BY <1>2, <1>4, <1>5, <2>2 DEF Visited
    <3>2. c \notin T => src[c] = "none"
      BY <1>1, <1>5, <2>2 DEF Children, Dir
    <3>3. c \notin T => AllGood(c)
      BY <3>1, <3>2, GoneGood
    <3> QED BY <1>3, <1>5, <2>2, <3>1, <3>3
  <2> QED BY <2>1, <2>2
<1> QED BY <1>3, <1>5 DEF Visited

\* All is good in a directory whose second loop is through.
LEMMA LoopsDone ==
  ASSUME CallsInv, StackInv, NEW w \in Syncing, DirsInv(w), Visited(w), Returns(w)
  PROVE  AllGood(Dir(w, Depth(w)))
<1>0. FramesTyped /\ frames[w] # <<>> /\ job[w].op = "none" /\ w \in Processes
      /\ Loop(w, Depth(w)) = 2 /\ Todo(w, Depth(w)) = {}
  BY DEF CallsInv, SyncTypeOK, FramesTyped, CallsOf, Syncing, Returns, Working, Top, Loop, Todo
<1>1. PICK n : n = Depth(w) /\ n \in 1..Depth(w)
  BY <1>0, DepthNat
<1>2. Dir(w, n) \in DataPaths /\ src[Dir(w, n)] = dst[Dir(w, n)]
  BY <1>0, <1>1, CallTypes DEF DirsInv
<1>3. ASSUME NEW c \in Below, Parent[c] = Dir(w, n)
      PROVE  AllGood(c)
  <2>1. ~Elsewhere(w, c)
    BY <1>0, <1>1, <1>3, TopChildren DEF Elsewhere
  <2> QED BY <1>0, <1>1, <1>3, <2>1 DEF Visited
<1> QED BY <1>1, <1>2, <1>3, ReturnedGood

LEMMA VisitedReturns ==
  ASSUME CallsInv, StackInv, LoopInv, NEW w \in Syncing, DirsInv(w), Visited(w), Returns(w),
         \A c \in Below : (AllGood(c) => AllGood(c)') /\ (Cleared(c) => Cleared(c)')
  PROVE  Visited(w)'
<1>0. /\ FramesTyped /\ w \in Processes /\ frames[w] # <<>> /\ job[w].op = "none" /\ job' = job
      /\ frames' = [frames EXCEPT ![w] = SubSeq(@, 1, Depth(w) - 1)]
  BY DEF CallsInv, SyncTypeOK, FramesTyped, CallsOf, Syncing, Returns, Working
<1>1. /\ Depth(w) \in Nat \ {0} /\ Depth(w)' = Depth(w) - 1
      /\ \A i \in 1..Depth(w) - 1 :
           Dir(w, i)' = Dir(w, i) /\ Loop(w, i)' = Loop(w, i) /\ Todo(w, i)' = Todo(w, i)
  BY <1>0, Returned
<1>2. PICK n \in Nat \ {0} : n = Depth(w) /\ n \in 1..n /\ Depth(w)' = n - 1
  BY <1>1
<1>3. \A i \in 1..n - 1 : i \in 1..n /\ i # n
  OBVIOUS
<1>4. \A i \in 1..n : i = n \/ i \in 1..n - 1
  BY <1>2
<1>5. AllGood(Dir(w, n)) /\ src[Dir(w, n)] = "dir" /\ dst[Dir(w, n)] = "dir"
  BY <1>2, LoopsDone DEF DirsInv
<1>6. Cleared(Dir(w, n))
  BY <1>5 DEF Cleared, Wrong, IsFile
<1>7. ASSUME NEW c, Elsewhere(w, c), c # Dir(w, n)
      PROVE  Elsewhere(w, c)'
  <2>1. PICK j \in 1..n : c = Dir(w, j)
    BY <1>0, <1>2, <1>7 DEF Elsewhere
  <2>2. j \in 1..n - 1
    BY <1>4, <1>7, <2>1
  <2>3. Dir(w, j)' = c
    BY <1>1, <1>2, <2>1, <2>2
  <2> QED BY <1>2, <2>2, <2>3 DEF Elsewhere
<1>8. ASSUME NEW i \in 1..n - 1, NEW c \in Below, Parent[c] = Dir(w, i), ~Elsewhere(w, c)'
      PROVE  /\ Loop(w, i) = 2 \/ c \notin Todo(w, i) => Cleared(c)'
             /\ Loop(w, i) = 2 /\ c \notin Todo(w, i) => AllGood(c)'
  <2>1. Loop(w, i) # 2 /\ i \in 1..n
    BY <1>2, <1>3 DEF LoopInv
  <2>2. CASE c = Dir(w, n)
    BY <1>6, <1>8, <2>1, <2>2
  <2>3. CASE c # Dir(w, n)
    <3>1. ~Elsewhere(w, c)
      BY <1>7, <1>8, <2>3
    <3> QED BY <1>2, <1>8, <2>1, <3>1 DEF Visited
  <2> QED BY <2>2, <2>3
<1> QED BY <1>1, <1>2, <1>8 DEF Visited

LEMMA VisitedJob ==
  ASSUME CallsInv, LoopInv, NEW w \in Syncing, RemovalInv(w), Visited(w),
         NEW p \in Below, JobStep(w, p), ~CannotRemove(w, p),
         \A c \in Below : (AllGood(c) => AllGood(c)') /\ (Cleared(c) => Cleared(c)')
  PROVE  Visited(w)'
<1>0. /\ JobTyped /\ w \in Processes /\ p \in DataPaths
      /\ dst \in [DataPaths -> {"none", "dir", Partial} \cup FileContents]
  BY DEF CallsInv, SyncTypeOK, Tree, JobTyped, Syncing, DataPaths
<1>1. frames' = frames /\ src' = src /\ job'[w].op = job[w].op
  BY <1>0, JobSteps
<1>2. /\ Depth(w)' = Depth(w)
      /\ \A i : Dir(w, i)' = Dir(w, i) /\ Loop(w, i)' = Loop(w, i) /\ Todo(w, i)' = Todo(w, i)
  BY <1>1 DEF Depth, Dir, Loop, Todo
<1>3. CASE job[w].op # "remove"
  <2>1. \A c : Elsewhere(w, c)' <=> Elsewhere(w, c)
    BY <1>1, <1>2, <1>3 DEF Elsewhere
  <2> QED BY <1>2, <2>1 DEF Visited
<1>4. CASE job[w].op = "remove"
  <2>1. RemovesOne(w, p)
    <3>1. p # NoPath /\ JobInv
      BY DataPathsAssumption DEF DataPaths, CallsInv
    <3> QED
      BY <1>0, <1>4, <3>1
         DEF JobStep, MakesDirectory, OpensFile, FillsFile, CopiesInto, CannotCopy, MayCopy, JobInv
  <2>2. job'[w].left = job[w].left \ {p} /\ dst'[p] = "none"
    BY <1>0, <2>1, LeftTaken DEF RemovesOne
  <2>3. \A c : Elsewhere(w, c) /\ c # p => Elsewhere(w, c)'
    BY <1>1, <1>2, <2>2 DEF Elsewhere
  <2>4. Cleared(p)'
    BY <2>2 DEF Cleared, Wrong, IsFile
  <2>5. \A i \in 1..Depth(w) : Loop(w, i) # 2
    BY <1>4 DEF LoopInv
  <2> QED BY <1>2, <2>3, <2>4, <2>5 DEF Visited
<1> QED BY <1>3, <1>4

\* No step of a sync makes worse what is good already, or cleared.
LEMMA Improves ==
  ASSUME CallsInv, NEW v \in Processes, SyncStep(v), ~Stop(v, "failed"),
         job[v].op # "none" => RemovalInv(v) /\ CopyInv(v)
  PROVE  /\ \A q \in DataPaths : Good(q) => Good(q)'
         /\ \A c \in Below : (AllGood(c) => AllGood(c)') /\ (Cleared(c) => Cleared(c)')
<1>0. /\ JobTyped /\ JobInv /\ Below \subseteq DataPaths
      /\ stage \in [Processes -> {"down", "syncing", "running", "failed"}]
      /\ NoJob.op = "none"
  BY DEF CallsInv, SyncTypeOK, JobTyped, DataPaths, NoJob
<1>1. ASSUME src' = src, dst' = dst, Syncing \ {v} \subseteq Syncing',
             \A u \in Processes : u # v => job'[u] = job[u],
             \A q : ~Copied(q, v)
      PROVE  /\ \A q \in DataPaths : Good(q) => Good(q)'
             /\ \A c \in Below : (AllGood(c) => AllGood(c)') /\ (Cleared(c) => Cleared(c)')
  <2>1. \A u \in Processes : \A q \in DataPaths : Copied(q, u) => Copied(q, u)'
    BY <1>1 DEF Copied
  <2> QED BY <1>0, <1>1, <2>1, StaysGood
<1>2. CASE ListsSource(v)
  BY <1>1, <1>2 DEF ListsSource, Working, Copied, Syncing
<1>3. CASE Returns(v)
  BY <1>0, <1>1, <1>3 DEF Returns, Working, Copied, Syncing
<1>4. CASE EndsJob(v)
  BY <1>0, <1>1, <1>4 DEF EndsJob, Copied, JobTyped, Syncing
<1>5. ASSUME NEW p \in Below, FirstLoop(v, p) \/ SecondLoop(v, p)
      PROVE  /\ \A q \in DataPaths : Good(q) => Good(q)'
             /\ \A c \in Below : (AllGood(c) => AllGood(c)') /\ (Cleared(c) => Cleared(c)')
  <2>1. /\ job[v] = NoJob /\ UNCHANGED <<src, dst, stage, history>>
        /\ \A u \in Processes : u # v => job'[u] = job[u]
    BY <1>5, Walks
  <2>2. \A q : ~Copied(q, v)
    BY <1>0, <2>1 DEF Copied
  <2> QED BY <1>1, <2>1, <2>2 DEF Syncing
<1>6. ASSUME NEW p \in Below, JobStep(v, p)
      PROVE  /\ \A q \in DataPaths : Good(q) => Good(q)'
             /\ \A c \in Below : (AllGood(c) => AllGood(c)') /\ (Cleared(c) => Cleared(c)')
  <2>1. ~CannotRemove(v, p)
    BY DEF CannotRemove
  <2>2. job[v].op # "none"
    BY <1>6, <2>1, JobSteps
  <2> QED BY <1>6, <2>1, <2>2, GoodJob, ClearedJob
<1> QED BY <1>2, <1>3, <1>4, <1>5, <1>6 DEF SyncStep

\* A step of one sync is no other's.
LEMMA OthersStep ==
  ASSUME CallsInv, NEW v \in Processes, SyncStep(v), ~Stop(v, "failed"),
         NEW w \in Processes, w # v
  PROVE  frames'[w] = frames[w] /\ job'[w] = job[w]
<1>0. FramesTyped /\ JobTyped
  BY DEF CallsInv, SyncTypeOK, FramesTyped, JobTyped, CallsOf
<1>1. CASE ListsSource(v)
  BY <1>0, <1>1 DEF ListsSource, FramesTyped
<1>2. CASE Returns(v)
  BY <1>0, <1>2 DEF Returns, FramesTyped
<1>3. CASE EndsJob(v)
  BY <1>0, <1>3 DEF EndsJob, JobTyped
<1>4. ASSUME NEW p \in Below, FirstLoop(v, p) \/ SecondLoop(v, p)
      PROVE  frames'[w] = frames[w] /\ job'[w] = job[w]
  <2>1. job'[w] = job[w] /\ (~Descends(v, p) => frames' = [frames EXCEPT ![v] = Without(v, p)])
    BY <1>4, Walks
  <2> QED BY <1>0, <2>1 DEF Descends, FramesTyped
<1>5. ASSUME NEW p \in Below, JobStep(v, p)
      PROVE  frames'[w] = frames[w] /\ job'[w] = job[w]
  BY <1>5, JobSteps DEF CannotRemove
<1> QED BY <1>1, <1>2, <1>3, <1>4, <1>5 DEF SyncStep

LEMMA VisitedNext ==
  ASSUME CallsInv, StackInv, LoopInv, StableInv, FreshInv, VisitedInv, [SyncNext]_syncVars
  PROVE  VisitedInv'
<1>0. /\ machine.processes \subseteq Processes /\ FramesTyped /\ JobTyped /\ JobInv
      /\ stage \in [Processes -> {"down", "syncing", "running", "failed"}]
      /\ dst \in [DataPaths -> {"none", "dir", Partial} \cup FileContents]
      /\ Root \in DataPaths /\ Root \notin Below /\ Below \subseteq DataPaths
      /\ NoJob.op = "none"
  BY MachinesAssumption, DataPathsAssumption
     DEF CallsInv, SyncTypeOK, FramesTyped, JobTyped, CallsOf, Tree, DataPaths, NoJob
<1>1. SUFFICES ASSUME NEW w \in Syncing', w \notin touched'
               PROVE  Visited(w)'
  BY DEF VisitedInv
<1>2. w \in Processes
  BY <1>1 DEF Syncing
<1>3. CASE EditsData \/ ModuleWrites
  BY <1>1, <1>2, <1>3 DEF EditsData, ModuleWrites
<1>4. ASSUME w \in Syncing, w \notin touched, src' = src, dst' = dst,
             frames'[w] = frames[w], job'[w] = job[w],
             \A u \in Processes : \A q \in DataPaths : Copied(q, u) => Copied(q, u)'
      PROVE  Visited(w)'
  <2>1. \A c \in Below : (AllGood(c) => AllGood(c)') /\ (Cleared(c) => Cleared(c)')
    BY <1>0, <1>4, StaysGood
  <2> QED BY <1>2, <1>4, <2>1, VisitedKept DEF VisitedInv
<1>5. CASE UNCHANGED syncVars
  BY <1>1, <1>4, <1>5 DEF syncVars, Copied, Syncing
<1>6. ASSUME NEW v \in Processes, Launch(v)
      PROVE  Visited(w)'
  <2>1. src' = src /\ job' = job /\ dst' = [dst EXCEPT ![Root] = "dir"]
    BY <1>6 DEF Launch
  <2>2. CASE w = v
    <3>1. frames' = [frames EXCEPT ![w] = <<Call(Root, dst)>>]
      BY <1>0, <1>1, <1>6, <2>2 DEF Launch, Syncing
    <3>2. Depth(w)' = 1 /\ Dir(w, 1)' = Root /\ Loop(w, 1)' = 1 /\ Todo(w, 1)' = Children(Root, dst)
      BY <1>0, <1>2, <3>1, Called
    <3>3. ASSUME NEW c \in Below, Parent[c] = Root, c \notin Children(Root, dst)
          PROVE  Cleared(c)'
      <4>1. dst'[c] = "none"
        BY <1>0, <2>1, <3>3 DEF Children
      <4> QED BY <4>1 DEF Cleared, Wrong, IsFile
    <3> QED BY <3>2, <3>3 DEF Visited
  <2>3. CASE w # v
    <3>1. /\ w \in Syncing /\ w \notin touched /\ frames'[w] = frames[w]
          /\ Syncing \subseteq Syncing'
      BY <1>0, <1>1, <1>2, <1>6, <2>3 DEF Launch, Syncing, FramesTyped
    <3>2. dst' = dst
      BY <1>0, <1>2, <2>1, <3>1 DEF CallsInv, SharingInv, Live, Syncing
    <3>3. \A u \in Processes : \A q \in DataPaths : Copied(q, u) => Copied(q, u)'
      BY <2>1, <3>1 DEF Copied
    <3> QED BY <1>4, <2>1, <3>1, <3>2, <3>3
  <2> QED BY <2>2, <2>3
\* Another one's end: who synced beside it is not sure of its copy.
<1>7. ASSUME NEW v \in Processes, NEW next \in {"down", "failed"}, Stop(v, next)
      PROVE  Visited(w)'
  <2>1. /\ w # v /\ w \in Syncing /\ src' = src /\ dst' = dst
        /\ \A u \in Processes : u # v => frames'[u] = frames[u] /\ job'[u] = job[u]
        /\ touched' = IF v \in Syncing /\ v \in overlapped THEN touched \cup (overlapped \ {v})
                      ELSE touched
        /\ Syncing' = Syncing \ {v}
    BY <1>0, <1>1, <1>2, <1>7 DEF Stop, Syncing, FramesTyped, JobTyped
  <2>2. v \notin Syncing
    BY <1>1, <2>1 DEF CallsInv, SharingInv
  <2>3. \A u \in Processes : \A q \in DataPaths : Copied(q, u) => Copied(q, u)'
    BY <2>1, <2>2 DEF Copied
  <2> QED BY <1>1, <1>2, <1>4, <2>1, <2>2, <2>3
<1>8. ASSUME NEW v \in Processes, SyncStep(v), ~Stop(v, "failed")
      PROVE  Visited(w)'
  <2>1. v \in Syncing /\ w \in Syncing /\ w \notin touched
    BY <1>1, <1>8, StepOf
  <2>2. Stable(v) /\ Stable(w)
    BY <1>2, <2>1 DEF FreshInv, Live, Syncing
  <2>3. /\ DirsInv(w) /\ RemovalInv(w) /\ CopyInv(w) /\ Visited(w)
        /\ RemovalInv(v) /\ CopyInv(v)
    BY <2>1, <2>2 DEF StableInv, VisitedInv
  <2>4. \A c \in Below : (AllGood(c) => AllGood(c)') /\ (Cleared(c) => Cleared(c)')
    BY <1>8, <2>3, Improves
  <2>5. CASE v # w
    <3>1. frames'[w] = frames[w] /\ job'[w] = job[w]
      BY <1>2, <1>8, <2>5, OthersStep
    <3> QED BY <1>2, <2>3, <2>4, <3>1, VisitedKept
  <2>6. CASE v = w
    <3>1. CASE ListsSource(w)
      BY <1>8, <2>1, <2>3, <2>4, <2>6, <3>1, VisitedLists
    <3>2. CASE Returns(w)
      BY <2>1, <2>3, <2>4, <3>2, VisitedReturns
    <3>3. CASE EndsJob(w)
      <4>1. job'[w] = NoJob /\ frames' = frames /\ job[w].left = {}
        BY <1>0, <1>2, <1>8, <2>6, <3>3 DEF EndsJob, JobTyped
      <4>2. /\ Depth(w)' = Depth(w)
            /\ \A i : Dir(w, i)' = Dir(w, i) /\ Loop(w, i)' = Loop(w, i) /\ Todo(w, i)' = Todo(w, i)
        BY <4>1 DEF Depth, Dir, Loop, Todo
      <4>3. \A c : Elsewhere(w, c) => Elsewhere(w, c)'
        BY <4>1, <4>2 DEF Elsewhere
      <4> QED BY <2>3, <2>4, <4>2, <4>3 DEF Visited
    <3>4. ASSUME NEW p \in Below, FirstLoop(w, p) \/ SecondLoop(w, p)
          PROVE  Visited(w)'
      BY <2>1, <2>3, <2>4, <3>4, VisitedWalks
    <3>5. ASSUME NEW p \in Below, JobStep(w, p)
          PROVE  Visited(w)'
      BY <1>8, <2>1, <2>3, <2>4, <2>6, <3>5, VisitedJob DEF CannotRemove
    <3> QED BY <1>8, <2>6, <3>1, <3>2, <3>3, <3>4, <3>5 DEF SyncStep
  <2> QED BY <2>5, <2>6
<1>9. \A v \in machine.processes : v \in Processes
  BY <1>0
<1> QED
  BY <1>3, <1>5, <1>6, <1>7, <1>8, <1>9 DEF SyncNext, Crash

-----------------------------------------------------------------------------
(* What a build that runs has *)

\* What the loops of a sync have listed is there, in the tree where they found it.
Untroubled(v) ==
  \A i \in 1..Depth(v) : \A c \in Todo(v, i) :
    (Loop(v, i) = 1 => dst[c] # "none") /\ (Loop(v, i) = 2 => src[c] # "none")

Beside(v, w) == v \in overlapped /\ w \in overlapped

\* All is good, and syncs that have begun since have nothing to do, but those whose
\* launches it knows of.
Served(w) ==
  /\ \A p \in DataPaths : Good(p)
  /\ \A v \in Syncing : Beside(v, w) \/ (job[v].op = "none" /\ Untroubled(v))

RunningInv ==
  \A w \in Processes :
    stage[w] = "running" /\ w \notin touched /\ src[Root] = "dir" => Served(w)

LEMMA UntroubledNext ==
  ASSUME CallsInv, NEW v \in Syncing, job[v].op = "none", Untroubled(v),
         SyncStep(v), ~Stop(v, "failed")
  PROVE  Untroubled(v)' /\ src' = src /\ dst' = dst
<1>0. FramesTyped /\ JobTyped /\ JobInv /\ v \in Processes /\ frames[v] # <<>>
  BY DEF CallsInv, SyncTypeOK, FramesTyped, JobTyped, CallsOf, JobInv, Syncing
<1>1. CASE ListsSource(v)
  <2>1. PICK T \in SUBSET Below : T = Children(frames[v][Depth(v)].dir, src)
    BY DEF Children
  <2>2. /\ src' = src /\ dst' = dst
        /\ frames' = [frames EXCEPT ![v][Depth(v)] = [dir |-> @.dir, loop |-> 2, todo |-> T]]
    BY <1>1, <2>1 DEF ListsSource
  <2>3. /\ Depth(v)' = Depth(v)
        /\ \A i \in 1..Depth(v) :
             /\ Dir(v, i)' = Dir(v, i)
             /\ Loop(v, i)' = IF i = Depth(v) THEN 2 ELSE Loop(v, i)
             /\ Todo(v, i)' = IF i = Depth(v) THEN T ELSE Todo(v, i)
    BY <1>0, <2>2, CallListed
  <2>4. \A c \in T : src[c] # "none"
    BY <2>1 DEF Children
  <2> QED BY <2>2, <2>3, <2>4 DEF Untroubled
<1>2. CASE Returns(v)
  <2>1. src' = src /\ dst' = dst /\ frames' = [frames EXCEPT ![v] = SubSeq(@, 1, Depth(v) - 1)]
    BY <1>2 DEF Returns
  <2>2. /\ Depth(v) \in Nat \ {0} /\ Depth(v)' = Depth(v) - 1
        /\ \A i \in 1..Depth(v) - 1 :
             Dir(v, i)' = Dir(v, i) /\ Loop(v, i)' = Loop(v, i) /\ Todo(v, i)' = Todo(v, i)
    BY <1>0, <2>1, Returned
  <2>3. PICK n \in Nat \ {0} : n = Depth(v)
    BY <2>2
  <2>4. \A i \in 1..n - 1 : i \in 1..n
    OBVIOUS
  <2> QED BY <2>1, <2>2, <2>3, <2>4 DEF Untroubled
<1>3. CASE EndsJob(v)
  BY <1>3 DEF EndsJob
<1>4. ASSUME NEW p \in Below, FirstLoop(v, p) \/ SecondLoop(v, p)
      PROVE  Untroubled(v)' /\ src' = src /\ dst' = dst
  <2>1. /\ src' = src /\ dst' = dst
        /\ ~Descends(v, p) => frames' = [frames EXCEPT ![v] = Without(v, p)]
    BY <1>0, <1>4, Walks
  <2>2. CASE ~Descends(v, p)
    <3>1. /\ Depth(v)' = Depth(v)
          /\ \A i \in 1..Depth(v) : Loop(v, i)' = Loop(v, i) /\ Todo(v, i)' \subseteq Todo(v, i)
      BY <1>0, <2>1, <2>2, ItemTaken
    <3> QED BY <2>1, <3>1 DEF Untroubled
  <2>3. CASE Descends(v, p)
    <3>1. frames' = [frames EXCEPT ![v] = Append(Without(v, p), Call(p, dst))] /\ p \in DataPaths
      BY <2>3 DEF Descends, DataPaths
    <3>2. /\ Depth(v)' = Depth(v) + 1
          /\ \A i \in 1..Depth(v) :
               /\ Dir(v, i)' = Dir(v, i) /\ Loop(v, i)' = Loop(v, i)
               /\ Todo(v, i)' = IF i = Depth(v) THEN Todo(v, i) \ {p} ELSE Todo(v, i)
          /\ \A i : i = Depth(v) + 1 =>
               Dir(v, i)' = p /\ Loop(v, i)' = 1 /\ Todo(v, i)' = Children(p, dst)
      BY <1>0, <3>1, Descended
    <3>3. PICK n \in Nat : n = Depth(v)
      BY <1>0, DepthNat
    <3>4. \A i \in 1..n + 1 : i = n + 1 \/ i \in 1..n
      OBVIOUS
    <3>5. ASSUME NEW i \in 1..n + 1, NEW c \in Todo(v, i)'
          PROVE  (Loop(v, i)' = 1 => dst[c] # "none") /\ (Loop(v, i)' = 2 => src[c] # "none")
      <4>1. CASE i = n + 1
        BY <3>2, <3>3, <3>5, <4>1 DEF Children
      <4>2. CASE i \in 1..n
        BY <3>2, <3>3, <3>5, <4>2 DEF Untroubled
      <4> QED BY <3>4, <4>1, <4>2
    <3> QED BY <2>1, <3>2, <3>3, <3>5 DEF Untroubled
  <2> QED BY <2>2, <2>3
<1>5. ASSUME NEW p \in Below, JobStep(v, p)
      PROVE  FALSE
  BY <1>0, <1>5, JobSteps DEF CannotRemove
<1> QED BY <1>1, <1>2, <1>3, <1>4, <1>5 DEF SyncStep

\* A sync that finds something to do beside a build that runs with all that is good:
\* another sync is copying it.
LEMMA FindsWork ==
  ASSUME CallsInv, NEW v \in Syncing, job[v].op = "none", Untroubled(v), frames[v] # <<>>,
         SyncStep(v), ~Stop(v, "failed"), job'[v].op # "none"
  PROVE  \E p \in DataPaths : dst[p] # src[p]
<1>0. FramesTyped /\ JobTyped /\ JobInv /\ v \in Processes /\ NoJob.op = "none"
  BY DEF CallsInv, SyncTypeOK, FramesTyped, JobTyped, CallsOf, Syncing, NoJob
<1>1. Depth(v) \in 1..Depth(v)
  BY <1>0, DepthNat
<1>2. PICK p \in Below : Drops(v, p) \/ Copies(v, p)
  <2>1. \A p \in Below : ~JobStep(v, p)
    BY <1>0, JobSteps DEF CannotRemove
  <2>2. ~ListsSource(v) /\ ~Returns(v) /\ ~EndsJob(v)
    BY DEF ListsSource, Returns, EndsJob
  <2>3. \A p \in Below : Keeps(v, p) \/ Descends(v, p) \/ Agrees(v, p) => FALSE
    BY DEF Keeps, Descends, Agrees
  <2> QED BY <2>1, <2>2, <2>3 DEF SyncStep, FirstLoop, SecondLoop
<1>3. p \in DataPaths /\ p \in Todo(v, Depth(v))
  BY <1>2 DEF DataPaths, Drops, Copies, Top, Todo
<1>4. CASE Drops(v, p)
  <2>1. Obsolete(p) /\ dst[p] # "none"
    BY <1>1, <1>3, <1>4 DEF Drops, Top, Loop, Untroubled
  <2> QED BY <1>3, <2>1 DEF Obsolete, IsFile
<1>5. CASE Copies(v, p)
  <2>1. Differs(p) /\ src[p] # "none"
    BY <1>1, <1>3, <1>5 DEF Copies, Top, Loop, Untroubled
  <2> QED BY <1>3, <2>1 DEF Differs
<1> QED BY <1>2, <1>4, <1>5

LEMMA RunningNext ==
  ASSUME CallsInv, StackInv, LoopInv, StableInv, FreshInv, VisitedInv, RunningInv,
         [SyncNext]_syncVars
  PROVE  RunningInv'
<1>0. /\ machine.processes \subseteq Processes /\ FramesTyped /\ JobTyped /\ JobInv
      /\ SharingInv
      /\ stage \in [Processes -> {"down", "syncing", "running", "failed"}]
      /\ dst \in [DataPaths -> {"none", "dir", Partial} \cup FileContents]
      /\ Root \in DataPaths /\ Root \notin Below /\ Below \subseteq DataPaths
      /\ NoJob.op = "none" /\ Under[Root] = DataPaths
  BY MachinesAssumption, DataPathsAssumption
     DEF CallsInv, SyncTypeOK, FramesTyped, JobTyped, CallsOf, Tree, DataPaths, NoJob
<1>1. SUFFICES ASSUME NEW w \in Processes, stage'[w] = "running", w \notin touched',
                      src'[Root] = "dir"
               PROVE  Served(w)'
  BY DEF RunningInv
<1>2. CASE EditsData \/ ModuleWrites
  BY <1>1, <1>2 DEF EditsData, ModuleWrites
\* A step that is no sync's.
<1>3. ASSUME stage[w] = "running", w \notin touched, src' = src, dst' = dst, NEW v \in Processes,
             \A u \in Processes : u # v => frames'[u] = frames[u] /\ job'[u] = job[u],
             Syncing' \ {v} = Syncing \ {v}, overlapped \subseteq overlapped' \cup {v}, w # v,
             \A q : ~Copied(q, v),
             v \in Syncing' => job'[v].op = "none" /\ Untroubled(v)'
      PROVE  Served(w)'
  <2>1. Served(w)
    BY <1>1, <1>3 DEF RunningInv
  <2>2. \A u \in Processes : \A q \in DataPaths : Copied(q, u) => Copied(q, u)'
    BY <1>3 DEF Copied
  <2>3. \A q \in DataPaths : Good(q)'
    BY <1>3, <2>1, <2>2, StaysGood DEF Served
  <2>4. ASSUME NEW u \in Syncing'
        PROVE  Beside(u, w)' \/ (job'[u].op = "none" /\ Untroubled(u)')
    <3>1. CASE u = v
      BY <1>3, <2>4, <3>1
    <3>2. CASE u # v
      <4>1. u \in Syncing /\ u \in Processes /\ frames'[u] = frames[u] /\ job'[u] = job[u]
        BY <1>3, <2>4, <3>2 DEF Syncing
      <4>2. CASE Beside(u, w)
        BY <1>3, <3>2, <4>2 DEF Beside
      <4>3. CASE job[u].op = "none" /\ Untroubled(u)
        BY <1>3, <4>1, <4>3 DEF Untroubled, Depth, Loop, Todo
      <4> QED BY <2>1, <4>1, <4>2, <4>3 DEF Served
    <3> QED BY <3>1, <3>2
  <2> QED BY <2>3, <2>4 DEF Served
<1>4. ASSUME NEW v \in Processes, Launch(v)
      PROVE  Served(w)'
  <2>1. src' = src /\ job' = job /\ dst' = [dst EXCEPT ![Root] = "dir"]
    BY <1>4 DEF Launch
  <2>2. w # v
    BY <1>0, <1>1, <1>4 DEF Launch
  <2>3. /\ stage[w] = "running" /\ w \notin touched /\ overlapped \subseteq overlapped' \cup {v}
        /\ \A u \in Processes : u # v => frames'[u] = frames[u] /\ stage'[u] = stage[u]
    BY <1>0, <1>1, <1>4, <2>2 DEF Launch, FramesTyped
  <2>4. dst' = dst
    BY <1>0, <2>1, <2>3 DEF SharingInv, Live
  <2>5. v \notin Syncing /\ job[v].op = "none"
    BY <1>0, <1>4 DEF Launch, JobInv, Syncing
  <2>6. ASSUME v \in Syncing'
        PROVE  Untroubled(v)'
    <3>1. frames' = [frames EXCEPT ![v] = <<Call(Root, dst)>>]
      BY <1>0, <1>4, <2>6 DEF Launch, Syncing
    <3>2. /\ Depth(v)' = 1
          /\ Dir(v, 1)' = Root /\ Loop(v, 1)' = 1 /\ Todo(v, 1)' = Children(Root, dst)
      <4>1. FramesTyped /\ Root \in DataPaths
        BY <1>0
      <4> QED BY <3>1, <4>1, Called
    <3> QED BY <2>4, <3>2 DEF Untroubled, Children
  <2>7. Syncing' \ {v} = Syncing \ {v}
    BY <2>3 DEF Syncing
  <2>8. \A q : ~Copied(q, v)
    BY <2>5 DEF Copied
  <2> QED BY <1>3, <2>1, <2>2, <2>3, <2>4, <2>5, <2>6, <2>7, <2>8
<1>5. ASSUME NEW v \in Processes, NEW next \in {"down", "failed"}, Stop(v, next)
      PROVE  Served(w)'
  <2>1. /\ w # v /\ stage[w] = "running" /\ src' = src /\ dst' = dst /\ overlapped' = overlapped
        /\ \A u \in Processes : u # v => frames'[u] = frames[u] /\ job'[u] = job[u]
        /\ touched' = IF v \in Syncing /\ v \in overlapped THEN touched \cup (overlapped \ {v})
                      ELSE touched
        /\ Syncing' = Syncing \ {v}
    BY <1>0, <1>1, <1>5 DEF Stop, Syncing, FramesTyped, JobTyped
  <2>2. w \notin touched
    BY <1>1, <2>1
  <2>3. ASSUME v \in Syncing, job[v].op # "none"
        PROVE  FALSE
    <3>1. Served(w)
      BY <1>1, <2>1, <2>2 DEF RunningInv
    <3>2. Beside(v, w)
      BY <2>3, <3>1 DEF Served
    <3> QED BY <1>1, <2>1, <2>3, <3>2 DEF Beside
  <2>4. \A q : ~Copied(q, v)
    BY <2>3 DEF Copied
  <2>5. Syncing' \ {v} = Syncing \ {v} /\ v \notin Syncing'
    BY <2>1
  <2> QED BY <1>3, <2>1, <2>2, <2>4, <2>5
<1>6. ASSUME NEW v \in Processes, SyncStep(v), ~Stop(v, "failed"), v # w
      PROVE  Served(w)'
  <2>1. /\ v \in Syncing /\ src' = src /\ Syncing' \subseteq Syncing /\ overlapped' = overlapped
        /\ touched \subseteq touched'
    BY <1>6, StepOf
  <2>2. stage[w] = "running"
    <3>1. Returns(v) \/ UNCHANGED <<stage, history>>
      <4>1. v \in machine.processes
        BY <1>0, <2>1 DEF SharingInv, Syncing
      <4> QED BY <1>6, <4>1, Quiet
    <3> QED BY <1>0, <1>1, <1>6, <3>1 DEF Returns
  <2>3. Served(w)
    BY <1>1, <2>1, <2>2 DEF RunningInv
  \* Where there is a copy or a removal, all syncs and the build know of each other.
  <2>4. ASSUME NEW x \in Syncing, job[x].op # "none"
        PROVE  \A u \in Syncing : Beside(u, w) /\ Stable(u)
    <3>1. Beside(x, w)
      BY <2>3, <2>4 DEF Served
    <3>2. w \in Live /\ w \notin touched
      BY <1>1, <2>1, <2>2 DEF Live
    <3>3. \A u \in Syncing : Stable(u)
      BY <3>1, <3>2 DEF FreshInv, Beside
    <3>4. \A u \in Syncing : u = x \/ u \in overlapped
      BY <1>0, <2>4 DEF SharingInv
    <3> QED BY <3>1, <3>3, <3>4 DEF Beside
  <2>5. job[v].op # "none" => RemovalInv(v) /\ CopyInv(v)
    BY <2>1, <2>4 DEF StableInv
  <2>6. \A q \in DataPaths : Good(q)'
    BY <1>6, <2>3, <2>5, Improves DEF Served
  <2>7. ASSUME NEW u \in Syncing', ~Beside(u, w)
        PROVE  job'[u].op = "none" /\ Untroubled(u)'
    <3>1. u \in Syncing /\ u \in Processes /\ \A x \in Syncing : job[x].op = "none"
      BY <2>1, <2>4, <2>7 DEF Syncing
    <3>2. Untroubled(u)
      BY <2>3, <2>7, <3>1 DEF Served
    <3>3. CASE u # v
      <4>1. frames'[u] = frames[u] /\ job'[u] = job[u]
        BY <1>6, <3>1, <3>3, OthersStep
      <4>2. dst' = dst
        <5>1. \A p \in Below : ~JobStep(v, p)
          BY <1>6, <2>1, <3>1, JobSteps DEF CannotRemove
        <5>2. \A p \in Below : FirstLoop(v, p) \/ SecondLoop(v, p) => dst' = dst
          BY <1>6, Walks
        <5>3. ListsSource(v) \/ Returns(v) \/ EndsJob(v) => dst' = dst
          BY <1>6 DEF ListsSource, Returns, EndsJob
        <5> QED BY <1>6, <5>1, <5>2, <5>3 DEF SyncStep
      <4> QED BY <2>1, <3>1, <3>2, <4>1, <4>2 DEF Untroubled, Depth, Loop, Todo
    <3>4. CASE u = v
      <4>1. Untroubled(v)'
        BY <1>6, <2>1, <3>1, <3>2, <3>4, UntroubledNext
      <4>2. ASSUME job'[v].op # "none"
            PROVE  FALSE
        <5>1. frames[v] # <<>>
          BY <1>0, <2>1 DEF JobInv, Syncing
        <5>2. PICK p \in DataPaths : dst[p] # src[p]
          BY <1>6, <2>1, <3>1, <3>2, <3>4, <4>2, <5>1, FindsWork
        <5>3. \E x \in Processes : Copied(p, x)
          BY <2>3, <5>2 DEF Served, Good
        <5> QED BY <3>1, <5>3 DEF Copied
      <4> QED BY <3>4, <4>1, <4>2
    <3> QED BY <3>3, <3>4
  <2>8. \A u : Beside(u, w)' <=> Beside(u, w)
    BY <2>1 DEF Beside
  <2> QED BY <2>6, <2>7, <2>8 DEF Served
\* The outermost call returns: all that is below the root is good.
<1>7. CASE SyncStep(w) /\ ~Stop(w, "failed")
  <2>1. /\ w \in Syncing /\ src' = src /\ Syncing' \subseteq Syncing /\ overlapped' = overlapped
        /\ touched \subseteq touched' /\ w \notin Syncing'
    BY <1>1, <1>7, StepOf DEF Syncing
  <2>2. Returns(w)
    <3>1. w \in machine.processes
      BY <1>0, <2>1 DEF SharingInv, Syncing
    <3>2. stage' # stage
      BY <1>1, <2>1 DEF Syncing
    <3> QED BY <1>7, <3>1, <3>2, Quiet
  <2>3. DirsInv(w) /\ RemovalInv(w) /\ CopyInv(w) /\ Visited(w) /\ Stacked(w)
    BY <1>1, <2>1 DEF StableInv, VisitedInv, StackInv, Stable
  <2>4. Depth(w) = 1
    BY <1>1, <2>1, <2>2 DEF Returns, Syncing
  <2>5. AllGood(Root)
    BY <2>1, <2>2, <2>3, <2>4, LoopsDone DEF Stacked
  <2>6. \A q \in DataPaths : Good(q)'
    BY <1>0, <1>7, <2>3, <2>5, Improves DEF AllGood
  <2>7. \A u \in Syncing' : Beside(u, w)'
    BY <1>0, <2>1 DEF SharingInv, Beside
  <2> QED BY <2>6, <2>7 DEF Served
<1>8. CASE UNCHANGED syncVars
  <2>1. Served(w)
    BY <1>1, <1>8 DEF syncVars, RunningInv
  <2> QED
    BY <1>8, <2>1 DEF syncVars, Served, Good, Copied, Beside, Untroubled, Syncing, Depth, Loop, Todo
<1>9. \A v \in machine.processes : v \in Processes
  BY <1>0
<1> QED
  BY <1>2, <1>4, <1>5, <1>6, <1>7, <1>8, <1>9 DEF SyncNext, Crash

-----------------------------------------------------------------------------
(* The invariant, and what follows from it *)

SyncInv ==
  /\ CallsInv /\ StackInv /\ LoopInv /\ StableInv /\ FreshInv
  /\ AloneInv /\ FailsOnlyIfTouched
  /\ VisitedInv /\ RunningInv

LEMMA SyncInvInit == SyncInit => SyncInv
<1> SUFFICES ASSUME SyncInit PROVE SyncInv
  OBVIOUS
<1>1. CallsInv
  BY CallsInit
<1>2. \A w \in Processes : stage[w] = "down" /\ ~job[w].failed
  BY DEF SyncInit, NoJob
<1>3. Syncing = {} /\ Live = {}
  BY <1>2 DEF Syncing, Live
<1> QED
  BY <1>1, <1>2, <1>3
     DEF SyncInv, StackInv, LoopInv, StableInv, FreshInv, AloneInv, Alone, FailsOnlyIfTouched,
         VisitedInv, RunningInv

LEMMA SyncInvNext == SyncInv /\ [SyncNext]_syncVars => SyncInv'
BY CallsNext, StackNext, LoopNext, StableNext, FreshNext, AloneNext, FailsNext, VisitedNext,
   RunningNext
   DEF SyncInv

LEMMA InvMirrored == SyncInv => Mirrored
<1> SUFFICES ASSUME SyncInv, Syncing = {}, src[Root] = "dir",
                    NEW w \in Processes, stage[w] = "running", w \notin touched
             PROVE  dst = src
  BY DEF Mirrored
<1>1. Served(w)
  BY DEF SyncInv, RunningInv
<1>2. \A p \in DataPaths : dst[p] = src[p]
  BY <1>1 DEF Served, Good, Copied
<1>3. \E R, S : dst \in [DataPaths -> R] /\ src \in [DataPaths -> S]
  BY DEF SyncInv, CallsInv, SyncTypeOK, Tree
<1> QED BY <1>2, <1>3

\* A process is in a stage of a build, its calls and its job are of the paths, and both trees
\* are trees, whatever the machine and however many builds share it (project.py:36-105).
THEOREM DataTypes == SyncSpec => []SyncTypeOK
<1>1. SyncInv => SyncTypeOK
  BY DEF SyncInv, CallsInv
<1> QED
  BY <1>1, SyncInvInit, SyncInvNext, PTL DEF SyncSpec

\* However many builds sync at once, and whatever an earlier crash left behind: when no sync
\* is under way, a build that runs has an exact mirror of the source, unless since its
\* launch someone changed a tree, or a sync beside its own ended early, or it was launched
\* beside a build that had missed such a change (project.py:76-105).
THEOREM MirrorsSource == SyncSpec => []Mirrored
BY SyncInvInit, SyncInvNext, InvMirrored, PTL DEF SyncSpec

\* A build fails to start only if someone edited the source or wrote to the copy during the
\* sync, or another build synced at the same time: not for what a crash has left in the copy
\* (project.py:76-105).
THEOREM FailsOnlyAmongOthers == SyncSpec => []FailsOnlyIfTouched
<1>1. SyncInv => FailsOnlyIfTouched
  BY DEF SyncInv
<1> QED
  BY <1>1, SyncInvInit, SyncInvNext, PTL DEF SyncSpec

=============================================================================
