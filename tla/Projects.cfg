CONSTANTS
  web = web
  worker = worker
  whole = whole
  list = list
  search = search
  any = any
  other = other
  r1 = r1
  r2 = r2
  None = None
  NotFound = NotFound
  Failed = Failed
  Global = Global
  Builds <- ThreeBuilds
  Modules <- ThreeModules
  Paths <- FourPaths
  Requests <- TwoRequests
  Setups <- PassingSetups
  MaxHops = 3
  MaxCrashes = 1
SPECIFICATION Spec
INVARIANTS
  OneHop
  VerdictIsShared
  LandingIsServed
PROPERTIES
  ServesAsMonolith
  RequestsEnd
CHECK_DEADLOCK FALSE
\* What holds only under the conditions of this project; TLC finds violated, by themselves:
\*   RootIsServed (an INVARIANT): Setups <- TemplateSetups
\*   RequestsDoNotCircle (an INVARIANT): Setups <- FailingSetups
\*   PathsAreReusable (an INVARIANT): Setups <- ConflictSetups
\*   ServesAsMonolith (a PROPERTY): Setups <- HiddenSetups
