------------------------------ MODULE MCShards -------------------------------
(* Shards for TLC: a web build, a worker, and a launch without -build, which includes
   all of the project's modules, 1 to 3. *)
EXTENDS Shards

CONSTANTS web, worker, whole, list, search, any, other, r1, r2

ThreeBuilds == {web, worker, whole}
ThreeModules == 1..3
FourPaths == {list, search, any, other}
TwoRequests == {r1, r2}
Nowhere == <<None, None, None>>

\* Module 3 is a service and loaded first.  The template "any" of module 1 matches
\* what module 3's "search" matches, too; module 2 has no route.
Sharded == [
  type |-> <<"site", "tool", "service">>,
  declares |-> << <<list, any>>, <<>>, <<search>> >>,
  serves |-> << {list, any}, {}, {search} >>,
  unparsable |-> {}, fragile |-> {},
  include |-> (web :> {1, 2}) @@ (worker :> {3})
             @@ (whole :> {1, 2, 3}),
  address |-> (web :> <<None, None, worker>>) @@ (worker :> <<web, web, None>>)
             @@ (whole :> Nowhere),
  global |-> {other}, ownRoot |-> FALSE,
  matches |-> (r1 :> {any, search}) @@ (r2 :> {list})]

\* The worker's address of module 1 is not set, and app.py answers a request.
Unreferenced == [Sharded EXCEPT
  !.address = (web :> <<None, None, worker>>) @@ (worker :> Nowhere)
               @@ (whole :> Nowhere),
  !.matches = (r1 :> {other}) @@ (r2 :> {list})]

\* Module 3 is said to be in the other build by both, and one request is for nobody.
Circular == [Sharded EXCEPT
  !.include = (web :> {2}) @@ (worker :> {1}) @@ (whole :> {1, 2, 3}),
  !.address = (web :> <<worker, None, worker>>) @@ (worker :> <<None, web, web>>)
               @@ (whole :> Nowhere),
  !.matches = (r1 :> {any, search}) @@ (r2 :> {})]

\* The worker's import of module 3 may fail; module 2 cannot be parsed.
Failing == [Sharded EXCEPT
  !.unparsable = {2}, !.fragile = {3},
  !.declares = << <<list, any>>, <<search>>, <<search>> >>]

\* Modules declare the same path, in one build or in two; or one declares it twice.
Conflicting == [Sharded EXCEPT !.declares = << <<list, any>>, <<any>>, <<search>> >>]
ConflictingApart == [Sharded EXCEPT !.declares = << <<list, any>>, <<>>, <<search, list>> >>]
Twice == [Sharded EXCEPT !.declares = << <<list, list>>, <<>>, <<search>> >>]

PassingSetups == {Sharded, Unreferenced, Circular, Failing, Conflicting, ConflictingApart, Twice}

\* Beyond the conditions: the template's app.py; and routes that are not declared by a
\* literal path, which the other build does not know of.
TemplateSetups == {[Sharded EXCEPT !.ownRoot = TRUE]}
ConflictSetups == {Conflicting}
FailingSetups == {Failing}
HiddenSetups == {[Sharded EXCEPT !.declares = << <<list, any>>, <<>>, <<>> >>]}

=============================================================================
