------------------------------ MODULE Pipeline ------------------------------
(***************************************************************************)
(* A whole OrchestrationPipeline of src/nam/concurrency/orchestrator.py    *)
(* with the Orchestrators that share it: the layers 1..Depth, the layer    *)
(* added by finish() after them, and each owner's window in front.         *)
(*                                                                         *)
(*   interim -> arriving(1) -> waiting(1) -> running(1) -> arriving(2) ... *)
(*           -> running(finish) -> finishing -> ready                      *)
(*   running(l) -> advancing(l+1) -> ... -> discarded                      *)
(*                                                                         *)
(* Module Layer has the queue and the locks of one layer, module Window    *)
(* those of one orchestrator and module TaskResolution those of a task;    *)
(* here each of their steps is taken at once, a frame at a time, and what  *)
(* is at stake is how layers, windows and tasks act on each other.         *)
(***************************************************************************)
EXTENDS Integers, FiniteSets

CONSTANTS
  Owners,     \* the orchestrators
  MaxIndex,   \* bound: each feeds at most the items 0..MaxIndex
  MaxWindow,  \* their max_window
  Depth,      \* how many layers come before the finish layer
  MaxBatch,   \* the layers' max_batch
  Setups      \* what is fed, the layers and their handlers: Init takes one

Frames == [owner : Owners, index : 0..MaxIndex]
Finish == Depth + 1
Layers == 1..Finish

ASSUME DepthAssumption == Depth \in Nat
ASSUME WindowAssumption == MaxWindow \in Nat \ {0}
ASSUME BatchAssumption == MaxBatch \in Nat \ {0}
ASSUME IndexAssumption == MaxIndex \in Nat
ASSUME OwnersAssumption == IsFiniteSet(Owners)
ASSUME SetupsAssumption ==
  \A s \in Setups :
    /\ s.fed \subseteq Frames        \* the items that are fed
    /\ s.contiguous \subseteq 1..Depth \* the layers that are contiguous
    /\ s.discardable \subseteq Frames  \* a handler may discard or abort these
    /\ s.droppable \subseteq Frames    \* or leave these out of what it returns
    /\ s.careful \in BOOLEAN    \* it discards a frame only if no earlier one is left
    /\ s.retryable \subseteq 1..Depth  \* the layers whose handlers may retry
    /\ s.retries \in Nat              \* bound: how often, in all
    /\ s.raising \subseteq Owners      \* those whose on_ready may raise

VARIABLES
  setup,        \* the one taken
  stage,        \* where each frame is
  at,           \* the layer it is at, or is to advance next
  backlog,      \* each layer's _backlog by owner
  windowSize,   \* each orchestrator's _window_size
  blank,        \* frames whose userdata was cleared
  readied,      \* frames on_ready was called with
  rejected,     \* frames on_discard was called with
  retries

vars == <<setup, stage, at, backlog, windowSize, blank, readied, rejected, retries>>
outcomes == <<blank, readied, rejected>>

Stages == {"interim", "arriving", "waiting", "running", "finishing",
           "aborting", "advancing", "dropped", "ready", "discarded"}

TypeOK ==
  /\ setup \in Setups
  /\ stage \in [Frames -> Stages]
  /\ at \in [Frames -> 1..(Finish + 1)]
  /\ backlog \in [Layers -> [Owners -> -1..MaxIndex]]
  /\ windowSize \in [Owners -> Int]
  /\ blank \subseteq Frames /\ readied \subseteq Frames /\ rejected \subseteq Frames
  /\ retries \in 0..setup.retries

Init ==
  /\ setup \in Setups
  /\ stage = [f \in Frames |-> "interim"]
  /\ at = [f \in Frames |-> 1]
  /\ backlog = [l \in Layers |-> [o \in Owners |-> -1]]
  /\ windowSize = [o \in Owners |-> 0]
  /\ blank = {} /\ readied = {} /\ rejected = {}
  /\ retries = 0

Discardable == setup.discardable
Droppable == setup.droppable
Careful == setup.careful

\* Slip: finish() asks for no order.
ContiguousAsAsked(l) == l \in setup.contiguous

\* finish() adds its layer as a contiguous one.
Contiguous(l) == l = Finish \/ l \in setup.contiguous

Earlier(f) == {g \in Frames : g.owner = f.owner /\ g.index < f.index}

InStage(s) == {f \in Frames : stage[f] = s}

Queued(l) == {f \in InStage("waiting") : at[f] = l}

Move(f, s) == stage' = [stage EXCEPT ![f] = s]

MoveAll(F, s) == stage' = [f \in Frames |-> IF f \in F THEN s ELSE stage[f]]

Tear(o, F) ==
  windowSize' = [windowSize EXCEPT ![o] = @ - Cardinality(F)]

-----------------------------------------------------------------------------

\* _pull_window: the owner's next item enters the pipeline.
Start(f) ==
  /\ f \in setup.fed /\ stage[f] = "interim" /\ \A g \in Earlier(f) : stage[g] # "interim"
  /\ windowSize[f.owner] < MaxWindow
  /\ Cardinality(Queued(1)) < MaxBatch
  /\ Move(f, "arriving")
  /\ windowSize' = [windowSize EXCEPT ![f.owner] = @ + 1]
  /\ UNCHANGED <<setup, at, backlog, outcomes, retries>>

\* push_batch, with the order it keeps and the backlog it leaves left open.
Enters(f, inOrder, after) ==
  LET l == at[f]
  IN /\ stage[f] = "arriving"
     /\ Cardinality(Queued(l)) < MaxBatch
     /\ Contiguous(l) => inOrder
     /\ Move(f, "waiting")
     /\ backlog' = IF Contiguous(l) THEN [backlog EXCEPT ![l] = after] ELSE backlog
     /\ UNCHANGED <<setup, at, windowSize, outcomes, retries>>

Reached(f) == backlog[at[f]][f.owner]

\* Slip: a later frame will do.
AdmitLater(f) ==
  Enters(f, f.index > Reached(f), [backlog[at[f]] EXCEPT ![f.owner] = f.index])

\* push_batch lets the frame in, or else it is pushed again and again.
Admit(f) ==
  Enters(f, f.index = Reached(f) + 1, [backlog[at[f]] EXCEPT ![f.owner] = f.index])

\* pull_batch and the load balancer bring it to the handler.  It need not be the oldest
\* one: several workers pull at once, and a partition's tasks go by cost and age.
Begin(f) ==
  /\ stage[f] = "waiting"
  /\ Move(f, "running")
  /\ UNCHANGED <<setup, at, backlog, windowSize, outcomes, retries>>

AtHandler(f) == stage[f] = "running" /\ at[f] # Finish

\* The handler returns the frame, or calls ready() with it: _on_task_ready.
Forward(f) ==
  /\ AtHandler(f)
  /\ Move(f, "arriving")
  /\ at' = [at EXCEPT ![f] = @ + 1]
  /\ UNCHANGED <<setup, backlog, windowSize, outcomes, retries>>

\* The handler calls discard(), or raises: _handle_discarded makes the callback
\* and tears the window, then the downstream layers follow one by one.
Discard(f) ==
  /\ AtHandler(f) /\ f \in Discardable
  /\ Careful => \A g \in Earlier(f) : stage[g] \in {"discarded", "ready"}
  /\ Move(f, "advancing")
  /\ at' = [at EXCEPT ![f] = @ + 1]
  /\ rejected' = rejected \cup {f}
  /\ Tear(f.owner, {f})
  /\ UNCHANGED <<setup, backlog, blank, readied, retries>>

\* One layer of _advance_downstream_backlogs.
Advance(f) ==
  LET l == at[f]
      follows == f.index = backlog[l][f.owner] + 1
  IN /\ stage[f] = "advancing"
     /\ backlog' = IF Contiguous(l) /\ follows
                   THEN [backlog EXCEPT ![l][f.owner] = f.index] ELSE backlog
     /\ at' = [at EXCEPT ![f] = @ + 1]
     /\ IF l = Finish THEN Move(f, "discarded") ELSE UNCHANGED stage
     /\ UNCHANGED <<setup, windowSize, outcomes, retries>>

\* Slip: a retry gives the frame's room back.
RetryTears(f) ==
  /\ AtHandler(f) /\ at[f] \in setup.retryable /\ retries < setup.retries
  /\ Move(f, "arriving")
  /\ retries' = retries + 1
  /\ Tear(f.owner, {f})
  /\ UNCHANGED <<setup, at, backlog, outcomes>>

\* The handler calls retry(): back to this layer's push_batch.
Retry(f) ==
  /\ AtHandler(f) /\ at[f] \in setup.retryable /\ retries < setup.retries
  /\ Move(f, "arriving")
  /\ retries' = retries + 1
  /\ UNCHANGED <<setup, at, backlog, windowSize, outcomes>>

\* The handler's return value, or its one ready() call, leaves the frame out.
DropSilently(f) ==
  /\ AtHandler(f) /\ f \in Droppable
  /\ Move(f, "dropped")
  /\ UNCHANGED <<setup, at, backlog, windowSize, outcomes, retries>>

AtFinish(o) == {f \in InStage("running") : at[f] = Finish /\ f.owner = o}

\* The finish handler: _handle_ready calls on_ready with the batch F.
FinishCall(o, F) ==
  /\ F # {} /\ F \subseteq AtFinish(o)
  /\ MoveAll(F, "finishing")
  /\ readied' = readied \cup F
  /\ UNCHANGED <<setup, at, backlog, windowSize, blank, rejected, retries>>

\* Then, raised or not, it clears the userdata of the frames' predecessors and
\* tears the window.  If the callback raised the task is aborted next.
FinishTear(o, F, raises) ==
  /\ F # {} /\ F \subseteq {f \in InStage("finishing") : f.owner = o}
  /\ raises => o \in setup.raising
  /\ MoveAll(F, IF raises THEN "aborting" ELSE "ready")
  /\ blank' = blank \cup {g \in Frames :
                            \E f \in F : g.owner = o /\ g.index = f.index - 1}
  /\ Tear(o, F)
  /\ UNCHANGED <<setup, at, backlog, readied, rejected, retries>>

\* abort() after a raising callback: on_discard, and the window torn again.
FinishAbort(o, F) ==
  /\ F # {} /\ F \subseteq {f \in InStage("aborting") : f.owner = o}
  /\ MoveAll(F, "discarded")
  /\ rejected' = rejected \cup F
  /\ Tear(o, F)
  /\ UNCHANGED <<setup, at, backlog, blank, readied, retries>>

-----------------------------------------------------------------------------

Handle(f) == Forward(f) \/ Discard(f) \/ Retry(f) \/ DropSilently(f)

FinishStep(o, F) ==
  \/ FinishCall(o, F)
  \/ FinishAbort(o, F)
  \/ \E raises \in BOOLEAN : FinishTear(o, F, raises)

Finishes(o) ==
  \E F \in SUBSET {f \in Frames : f.owner = o} : FinishStep(o, F)

Next ==
  \/ \E f \in Frames : Start(f) \/ Admit(f) \/ Begin(f) \/ Handle(f) \/ Advance(f)
  \/ \E o \in Owners : Finishes(o)

\* Pumps and pushes poll until they get through, workers take up what is queued
\* and handlers come to an end.  Each step brings a frame further, so that no
\* step is enabled again and again without being taken.
Fairness ==
  /\ \A f \in Frames :
       /\ WF_vars(Start(f)) /\ WF_vars(Admit(f)) /\ WF_vars(Begin(f))
       /\ WF_vars(Handle(f)) /\ WF_vars(Advance(f))
  /\ \A o \in Owners : WF_vars(Finishes(o))

Spec == Init /\ [][Next]_vars /\ Fairness

-----------------------------------------------------------------------------
(* Correctness *)

Flying == {"arriving", "waiting", "running", "finishing"}

InFlight(o) == {f \in Frames : f.owner = o /\ stage[f] \in Flying}

\* All frames an owner feeds come back to it: its handlers return those they do
\* not discard, and its on_ready does not raise.
Returned(o) == o \notin setup.raising /\ \A f \in Droppable : f.owner # o

\* Nothing its handlers do holds an owner's frames up.
Unhindered(o) ==
  /\ Returned(o)
  /\ Careful \/ \A f \in Discardable : f.owner # o
  /\ setup.retryable \cap setup.contiguous = {}

\* The promise of module FrameLifecycle is kept for these, whatever happens to
\* the frames of others in the same layers.
PromisedItems == {f \in setup.fed : Unhindered(f.owner)}

Promised ==
  [f \in Frames |->
     IF f \notin PromisedItems THEN "interim"
     ELSE CASE stage[f] = "interim" -> "interim"
            [] stage[f] = "ready" -> "ready"
            [] stage[f] \in {"advancing", "discarded"} -> "discarded"
            [] OTHER -> "inflight"]

Lifecycle == INSTANCE FrameLifecycle WITH stage <- Promised, items <- PromisedItems

\* The pipeline, the windows and the handlers' resolutions together implement
\* the life of a frame as the caller sees it: no owner exceeds its window, and
\* each of its items ends once (orchestrator.py:700-822, 308-383).
LifecycleSpec == Lifecycle!Spec

\* The window is the frames in flight, through retries, discards at any layer
\* and callbacks (orchestrator.py:717-722, 796-800): the two parts that account
\* for a frame, the layers and the orchestrator, never disagree.
WindowMatchesFlight ==
  \A o \in Owners : Returned(o) => windowSize[o] = Cardinality(InFlight(o))

\* A frame past a layer's gate.
Past(l, f) ==
  stage[f] # "interim" /\ (at[f] > l \/ (at[f] = l /\ stage[f] # "arriving"))

\* A frame past the gate of a contiguous layer that does not retry has all
\* earlier ones of its owner past it or discarded (orchestrator.py:308-342).
OrderAtGates ==
  \A l \in Layers : Contiguous(l) /\ l \notin setup.retryable =>
    \A f \in Frames :
      Past(l, f) /\ f \notin rejected
        => \A g \in Earlier(f) : Past(l, g) \/ g \in rejected

\* The finish handler of a frame clears its predecessor's userdata, which never happens
\* while a layer's handler still has the predecessor, to read it or to discard it with
\* it: the gate of the finish layer lets the successor in only after the predecessor
\* came through or was discarded (orchestrator.py:584-594, 372-383, 308-342).
HandlersHaveUserdata == \A f \in Frames : AtHandler(f) => f \notin blank

-----------------------------------------------------------------------------
(* What the docs and comments say, and the code does not do *)

\* "Anything in the original batch that isn't in the returned list is
\* discarded": such a frame reaches on_discard.
DroppedIsDiscarded ==
  \A f \in Frames : stage[f] = "dropped" ~> f \in rejected

\* Handlers that leave frames out of what they return only harm those frames:
\* "a dropped frame still counts toward the sequence".
KeptItemsEnd ==
  \A f \in Frames : f \in setup.fed \ Droppable ~> f \in readied \cup rejected

\* Nor is a frame's userdata cleared before on_ready is given the frame.  The batches of
\* the finish layer run side by side, or a lighter later one first: the successor's may be
\* the first to end.
UserdataStays ==
  [][\A f \in readied' \ readied : f \notin blank]_vars

\* No frame gets both callbacks.
OneCallback == readied \cap rejected = {}

\* "A frame only leaves this layer once every frame before it (by index, for the
\* same owner) has already left": the claim for contiguous=True.
LeavesInOrder ==
  \A f \in Frames : \A l \in setup.contiguous :
    at[f] > l => \A g \in Earlier(f) : at[g] > l

=============================================================================
