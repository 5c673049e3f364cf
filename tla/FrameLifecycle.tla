--------------------------- MODULE FrameLifecycle ---------------------------
(***************************************************************************)
(* What an Orchestrator promises its caller, whatever the pipeline between *)
(* feed() and the callbacks looks like                                     *)
(* (docs/feature_unified_concurrency.md:287-313): the items become frames  *)
(* in the order fed, at most max_window of an owner's frames are in        *)
(* flight, and every frame ends once, ready or discarded.                  *)
(***************************************************************************)
EXTENDS Integers, FiniteSets

CONSTANTS Owners, MaxIndex, MaxWindow

Frames == [owner : Owners, index : 0..MaxIndex]

VARIABLES
  items,  \* those that are fed
  stage

TypeOK == items \subseteq Frames /\ stage \in [Frames -> {"interim", "inflight", "ready", "discarded"}]

Init == items \subseteq Frames /\ stage = [f \in Frames |-> "interim"]

Earlier(f) == {g \in Frames : g.owner = f.owner /\ g.index < f.index}

InFlight(o) == {f \in Frames : f.owner = o /\ stage[f] = "inflight"}

Start(f) ==
  /\ f \in items /\ stage[f] = "interim"
  /\ \A g \in Earlier(f) : stage[g] # "interim"
  /\ Cardinality(InFlight(f.owner)) < MaxWindow
  /\ stage' = [stage EXCEPT ![f] = "inflight"]
  /\ UNCHANGED items

End(F, outcome) ==
  /\ F # {} /\ \A f \in F : stage[f] = "inflight"
  /\ stage' = [f \in Frames |-> IF f \in F THEN outcome ELSE stage[f]]
  /\ UNCHANGED items

Next ==
  \/ \E f \in Frames : Start(f)
  \/ \E F \in SUBSET Frames : End(F, "ready") \/ End(F, "discarded")

Ended(f) == stage[f] \in {"ready", "discarded"}

Safe == Init /\ [][Next]_<<items, stage>>

Live == \A f \in Frames : f \in items ~> Ended(f)

Spec == Safe /\ Live

=============================================================================
