------------------------------- MODULE Shards --------------------------------
(***************************************************************************)
(* A project sharded into builds (src/nam/project_loader.py, server.py,    *)
(* module.py, route_discovery.py, router.py, build.py).  Each build is a   *)
(* process that loads every module at its start, one after the other: it   *)
(* mounts the routes of those it includes, and proxies the routes that the *)
(* others declare.  A request goes to any build, from there perhaps to     *)
(* other builds, and its answer comes back the same way.                   *)
(*                                                                         *)
(* Modules are numbers, in alphabetical order.  A path stands for a method *)
(* and a path template; which templates a request matches, first come      *)
(* first served, is part of the setup.                                     *)
(***************************************************************************)
EXTENDS Integers, Sequences, SequencesExt

CONSTANTS
  Builds,
  Modules,   \* the directories with a module.yaml and a backend/routes.py
  Paths,
  Requests,
  Setups,    \* the project: Init takes one
  MaxHops,   \* bound: builds that one request passes through
  MaxCrashes,\* bound: how often a process ends and is launched again
  None, NotFound, Failed, Global

Types == {"service", "site", "tool", "other"}

ASSUME ModulesAssumption == Modules \subseteq Nat
ASSUME BoundsAssumption == MaxHops \in Nat \ {0} /\ MaxCrashes \in Nat
ASSUME AnswersAssumption ==
  /\ Modules \cap {None, NotFound, Failed, Global} = {} /\ None \notin Builds
  /\ None \notin {NotFound, Failed, Global}
ASSUME SetupsAssumption ==
  \A s \in Setups :
    /\ s.type \in [Modules -> Types]
    /\ s.declares \in [Modules -> Seq(Paths)]   \* the literal @router.<method>(path)
    /\ s.serves \in [Modules -> SUBSET Paths]   \* the routes its router has once imported
    /\ s.unparsable \subseteq Modules           \* ast.parse fails on its routes.py
    /\ s.fragile \subseteq Modules              \* its import may raise
    /\ s.include \in [Builds -> SUBSET Modules]
    /\ s.address \in [Builds -> [Modules -> Builds \cup {None}]]
         \* where reference and environment say a module is; None: they do not
    /\ s.global \in SUBSET Paths                \* the routes of app.py
    /\ s.ownRoot \in BOOLEAN                    \* "/" is one of them, as in template/app.py
    /\ s.matches \in [Requests -> SUBSET Paths]

VARIABLES
  setup,
  server,   \* each build's process
  request,  \* each request: the builds it went through, and its reply
  crashes

vars == <<setup, server, request, crashes>>

Declared(m) == {setup.declares[m][i] : i \in 1..Len(setup.declares[m])}

-----------------------------------------------------------------------------
(* The order in which modules are loaded: discover_module_specs *)

\* STARTUP_ORDER, and after it what is not listed there.
Priority(type) == CASE type = "service" -> 0 [] type = "site" -> 1
                    [] type = "tool" -> 2 [] OTHER -> 3

Precedes(m, n) ==
  \/ Priority(setup.type[m]) < Priority(setup.type[n])
  \/ Priority(setup.type[m]) = Priority(setup.type[n]) /\ m < n

First(M) == CHOOSE m \in M : \A n \in M \ {m} : Precedes(m, n)

-----------------------------------------------------------------------------
(* The processes *)

Down == [phase |-> "down", left |-> {}, claimed |-> {}, pages |-> {}, nav |-> <<>>,
         routes |-> <<>>]

TypeOK ==
  /\ setup \in Setups
  /\ server \in [Builds ->
       [phase : {"down", "loading", "up", "refused"},
        left : SUBSET Modules,     \* modules still to be loaded
        claimed : SUBSET Paths,    \* the keys of route_owners
        pages : SUBSET Modules,    \* whose /app/<id> it serves
        nav : Seq(Modules),        \* app.state.mounted_modules
        routes :                   \* the routes under /api, in their order
          Seq([module : Modules, paths : SUBSET Paths, proxy : BOOLEAN])]]
  /\ request \in [Requests ->
       [hops : Seq(Builds), reply : Modules \cup {None, NotFound, Failed, Global}]]
  /\ crashes \in 0..MaxCrashes

Init ==
  /\ setup \in Setups
  /\ server = [b \in Builds |-> Down]
  /\ request = [r \in Requests |-> [hops |-> <<>>, reply |-> None]]
  /\ crashes = 0

Becomes(b, s) == server' = [server EXCEPT ![b] = s] /\ UNCHANGED <<setup, request, crashes>>

Starts(b) ==
  /\ server[b].phase = "down"
  /\ Becomes(b, [Down EXCEPT !.phase = "loading", !.left = Modules])

Included(b, m) == m \in setup.include[b]

\* Slip: a proxied module is not checked.
ConflictsHere(b, m) ==
  Included(b, m) /\ Declared(m) \cap server[b].claimed # {}

\* _check_no_route_conflicts: a path is another module's, or declared twice.
Conflicts(b, m) ==
  \/ Declared(m) \cap server[b].claimed # {}
  \/ \E i, j \in 1..Len(setup.declares[m]) : i < j /\ setup.declares[m][i] = setup.declares[m][j]

\* Module m is in the navigation, and has its page where it is included.
Listed(b, m) ==
  [server[b] EXCEPT !.left = @ \ {m}, !.nav = Append(@, m),
                    !.pages = IF Included(b, m) THEN @ \cup {m} ELSE @]

\* Slips: a build's own modules come first; or the others' do.
LoadsOwnFirst(b, m) ==
  LET left == server[b].left
      own == {n \in left : Included(b, n)}
  IN server[b].phase = "loading" /\ left # {} /\ m = First(IF own # {} THEN own ELSE left)

LoadsOwnLast(b, m) ==
  LET left == server[b].left
      own == {n \in left : Included(b, n)}
  IN server[b].phase = "loading" /\ left # {} /\ m = First(IF left # own THEN left \ own ELSE left)

Loads(b, m) == server[b].phase = "loading" /\ server[b].left # {} /\ m = First(server[b].left)

\* "Error loading" or "Error proxying": its routes.py cannot be parsed.
Skips(b, m) ==
  /\ Loads(b, m) /\ m \in setup.unparsable
  /\ Becomes(b, Listed(b, m))

\* RouteConflictError ends the start.
Refuses(b, m) ==
  /\ Loads(b, m) /\ m \notin setup.unparsable /\ Conflicts(b, m)
  /\ Becomes(b, [Down EXCEPT !.phase = "refused"])

Registered(b, m, paths) ==
  [Listed(b, m) EXCEPT
    !.claimed = @ \cup Declared(m),
    !.routes = Append(@, [module |-> m, paths |-> paths, proxy |-> ~Included(b, m)])]

Loadable(b, m) == Loads(b, m) /\ m \notin setup.unparsable /\ ~Conflicts(b, m)

\* _mount_proxy_routes_for_excluded_module; without an address its last line
\* raises, and the routes are there all the same.
Proxies(b, m) ==
  /\ Loadable(b, m) /\ ~Included(b, m)
  /\ Becomes(b, Registered(b, m, Declared(m)))

Mounts(b, m) ==
  /\ Loadable(b, m) /\ Included(b, m)
  /\ Becomes(b, Registered(b, m, setup.serves[m]))

\* The import raises: the page and the claims stay, routes there are none.
FailsToMount(b, m) ==
  /\ Loadable(b, m) /\ Included(b, m) /\ m \in setup.fragile
  /\ Becomes(b, [Listed(b, m) EXCEPT !.claimed = @ \cup Declared(m)])

\* app.py and the root route come last, and the server opens its port.
Opens(b) ==
  /\ server[b].phase = "loading" /\ server[b].left = {}
  /\ Becomes(b, [server[b] EXCEPT !.phase = "up"])

Up(b) == server[b].phase = "up"

\* The process ends.  Who waits for it sees its connection break.
Crashes(b) ==
  /\ Up(b) /\ crashes < MaxCrashes
  /\ crashes' = crashes + 1
  /\ server' = [server EXCEPT ![b] = Down]
  /\ request' = [r \in Requests |->
       LET hops == request[r].hops
           at == {i \in 1..Len(hops) : hops[i] = b}
       IN IF at = {} THEN request[r]
          ELSE [hops |-> SubSeq(hops, 1, (CHOOSE i \in at : \A j \in at : i <= j) - 1),
                reply |-> Failed]]
  /\ UNCHANGED setup

-----------------------------------------------------------------------------
(* Requests *)

Answers(r, h, a) ==
  /\ request' = [request EXCEPT ![r] = [hops |-> h, reply |-> a]]
  /\ UNCHANGED <<setup, server, crashes>>

Sends(r, b) ==
  /\ request[r].hops = <<>> /\ request[r].reply = None /\ Up(b)
  /\ Answers(r, <<b>>, None)

\* The request has arrived at b, its last hop.
Arrived(r, b) == request[r].hops # <<>> /\ request[r].reply = None /\ Last(request[r].hops) = b

Matching(r, b) ==
  {i \in 1..Len(server[b].routes) : server[b].routes[i].paths \cap setup.matches[r] # {}}

\* Whom b takes the request to be for: the first of its routes that matches.
RouteOf(r, b) ==
  server[b].routes[CHOOSE i \in Matching(r, b) : \A j \in Matching(r, b) : i <= j]

Routed(r, b) == Arrived(r, b) /\ Matching(r, b) # {}

\* A module's own handler; or app.py's, or none.
Handles(r, b) ==
  \/ /\ Routed(r, b) /\ ~RouteOf(r, b).proxy
     /\ Answers(r, request[r].hops, RouteOf(r, b).module)
  \/ /\ Arrived(r, b) /\ Matching(r, b) = {}
     /\ Answers(r, request[r].hops,
                IF setup.global \cap setup.matches[r] # {} THEN Global ELSE NotFound)

\* Router.get_hostname: the build that is said to have the module.
Target(r, b) == setup.address[b][RouteOf(r, b).module]

Forwards(r, b) ==
  /\ Routed(r, b) /\ RouteOf(r, b).proxy
  /\ Target(r, b) # None /\ Up(Target(r, b)) /\ Len(request[r].hops) < MaxHops
  /\ Answers(r, Append(request[r].hops, Target(r, b)), None)

\* get_hostname raises; or nobody listens, and the proxy answers 502.
CannotForward(r, b) ==
  /\ Routed(r, b) /\ RouteOf(r, b).proxy
  /\ Target(r, b) # None => ~Up(Target(r, b))
  /\ Answers(r, request[r].hops, Failed)

\* A reply goes back by one hop, or to the caller.
Replies(r) ==
  /\ request[r].reply # None /\ request[r].hops # <<>>
  /\ Answers(r, Front(request[r].hops), request[r].reply)

\* Slip: a client without a timeout.
WaitsForever(r, i) == FALSE /\ UNCHANGED vars

\* The i-th build has waited for PROXY_TIMEOUT_SECONDS, and answers 502.
TimesOut(r, i) ==
  /\ request[r].reply = None /\ i < Len(request[r].hops)
  /\ Answers(r, SubSeq(request[r].hops, 1, i), Failed)

-----------------------------------------------------------------------------

Loading(b) ==
  \/ Starts(b) \/ Opens(b)
  \/ \E m \in Modules :
       Skips(b, m) \/ Refuses(b, m) \/ Proxies(b, m) \/ Mounts(b, m) \/ FailsToMount(b, m)

Serving(r) ==
  \/ Replies(r)
  \/ \E b \in Builds : Handles(r, b) \/ Forwards(r, b) \/ CannotForward(r, b)

Waiting(r) == \E i \in 1..MaxHops : TimesOut(r, i)

Next ==
  \/ \E b \in Builds : Loading(b) \/ Crashes(b)
  \/ \E r \in Requests : Serving(r) \/ Waiting(r) \/ \E b \in Builds : Sends(r, b)

\* Handlers answer, the network carries replies, and time passes.
Fairness == \A r \in Requests : WF_vars(Serving(r)) /\ WF_vars(Waiting(r))

Spec == Init /\ [][Next]_vars /\ Fairness

-----------------------------------------------------------------------------
(* What a project in one process would answer *)

Parsable == Modules \ setup.unparsable

Owners(r, M) == {m \in M : setup.serves[m] \cap setup.matches[r] # {}}

AnswerOf(r, M) ==
  IF Owners(r, M) # {} THEN First(Owners(r, M))
  ELSE IF setup.global \cap setup.matches[r] # {} THEN Global ELSE NotFound

Whole == INSTANCE Api WITH
  due <- [r \in Requests |-> {AnswerOf(r, Parsable \ F) : F \in SUBSET setup.fragile}],
  answer <- [r \in Requests |-> IF request[r].hops = <<>> THEN request[r].reply ELSE None]

-----------------------------------------------------------------------------
(* Correctness *)

\* What the syntax tree shows of the parsable modules is what their routers have.
Discoverable == \A m \in Parsable : setup.serves[m] = Declared(m)

\* Who is said to have a module has it.
Direct ==
  \A b \in Builds, m \in Modules :
    ~Included(b, m) /\ setup.address[b][m] # None => Included(setup.address[b][m], m)

\* Wherever it is sent and through whatever builds it goes, a request is answered by
\* the module that the whole project in one process would have answer it, or it
\* fails (project_loader.py:119-167, 201-269; docs/feature_sharding.md:134-138).
\* That a module's import fails takes it out, and no other.
ServesAsMonolith == Whole!Spec

\* A request that is sent is answered in the end, even if the builds' references
\* lead it round in circles (project_loader.py:21, 137-157).
RequestsEnd ==
  \A r \in Requests : request[r].hops # <<>> ~> request[r].hops = <<>>

\* A proxied request is for a module of the build it is forwarded to, which has no
\* route before it that leads elsewhere (project_loader.py:186-197, module.py:44-80).
OneHop ==
  Discoverable /\ Direct /\ setup.fragile = {}
    => \A r \in Requests : Len(request[r].hops) <= 2

\* A module is registered once: no two of them declare a path, and none does so twice.
Disjoint ==
  /\ \A m, n \in Parsable : m # n => Declared(m) \cap Declared(n) = {}
  /\ \A m \in Parsable : \A i, j \in 1..Len(setup.declares[m]) :
       i < j => setup.declares[m][i] # setup.declares[m][j]

\* A route conflict is fatal in every build, whichever modules it includes, and
\* nothing else is (project_loader.py:40-66, 186-189, 248-267).
VerdictIsShared ==
  \A b \in Builds :
    /\ Up(b) => Disjoint
    /\ server[b].phase = "refused" => ~Disjoint

-----------------------------------------------------------------------------
(* The root route of server.py *)

\* Slip: the navigation lists the modules of other builds, too.
AnyListed(b) == 1..Len(server[b].nav)

\* The places in the navigation of the modules that have a page here.
Reachable(b) == {i \in 1..Len(server[b].nav) : Included(b, server[b].nav[i])}

\* The page "/" redirects to: that of the first site, or else of the first module.
Landing(b) ==
  LET sites == {i \in Reachable(b) : setup.type[server[b].nav[i]] = "site"}
      places == IF sites # {} THEN sites ELSE Reachable(b)
  IN IF places = {} THEN None
     ELSE server[b].nav[CHOOSE i \in places : \A j \in places : i <= j]

\* The raw address leads to a page that the build serves, whenever it includes a
\* module, and to a site's if it includes a site (server.py:118-141).
LandingIsServed ==
  \A b \in Builds :
    Up(b) /\ setup.include[b] # {}
      => /\ Landing(b) \in server[b].pages
         /\ (\E m \in setup.include[b] : setup.type[m] = "site")
              => setup.type[Landing(b)] = "site"

-----------------------------------------------------------------------------
(* What the docs say, and the code does not do *)

\* "Landing on the raw address:port still goes somewhere", if there is a module to
\* land on.  The template's app.py has a root route of its own, which comes first: it
\* redirects to /<id> of the first module listed, where nothing is.
RootPage(b) ==
  IF setup.ownRoot THEN [prefix |-> "", id |-> Head(server[b].nav)]
  ELSE [prefix |-> "/app", id |-> Landing(b)]

RootIsServed ==
  \A b \in Builds :
    Up(b) /\ setup.include[b] # {}
      => RootPage(b).prefix = "/app" /\ RootPage(b).id \in server[b].pages

\* A module "exists identically no matter which build is running": a request is never
\* sent on twice.  Yet where a module's import has failed, a route behind it may match.
RequestsDoNotCircle ==
  Direct => \A r \in Requests : Len(request[r].hops) <= 2

\* "Two modules can freely reuse the same sub-path": the start of every build ends.
PathsAreReusable == \A b \in Builds : server[b].phase # "refused"

=============================================================================
