------------------------------ MODULE Execution ------------------------------
(***************************************************************************)
(* Batches with frames of several owners in the handlers' hands            *)
(* (src/nam/concurrency/orchestrator.py): _execute_batch of one layer and  *)
(* of the finish layer behind it, the callbacks of the owners'             *)
(* OrchestrationClients, which hear of one frame at a time, the exceptions *)
(* that handlers and callbacks raise on the way, the frames that handlers  *)
(* leave out of what they return or have retried, and the event loop that  *)
(* runs a layer's coroutine handlers while workers wait for it.            *)
(*                                                                         *)
(* Module TaskResolution has the race of several calls for one task, those *)
(* that come after the handler of an asynchronous layer has returned among *)
(* them, and module Layer the queues between the two layers.               *)
(***************************************************************************)
EXTENDS Naturals, FiniteSets

CONSTANTS
  Owners,   \* the orchestrators, each with its client
  Batches,  \* the batches the layer is given
  Size,     \* how many frames of an owner are in a batch at most
  Setups,   \* the layer, its handlers and the owners' callbacks: Init takes one
  None

Frames == [batch : Batches, owner : Owners, index : 1..Size]

ASSUME SizeAssumption == Size \in Nat \ {0}
ASSUME FiniteAssumption == IsFiniteSet(Owners) /\ IsFiniteSet(Batches)
ASSUME NoneAssumption == None \notin Batches
ASSUME SetupsAssumption ==
  \A s \in Setups :
    /\ s.frames \subseteq Frames     \* what the batches hold
    /\ s.workers \in Nat \ {0}       \* the threads of the executor
    /\ s.shared \in BOOLEAN          \* the layer is shared=True
    /\ s.coroutine \in BOOLEAN       \* its handler is an "async def"
    /\ s.consults \in BOOLEAN        \* and may wait for something a worker does
    /\ s.asynchronous \in BOOLEAN   \* the layer is asynchronous=True
    /\ s.faulty \subseteq Owners     \* the handler may raise on their frames
    /\ s.leavable \subseteq Frames   \* it may return without, and not resolve, these
    /\ s.retryable \subseteq Frames  \* and have these retried: bound, once each
    \* A window_listener that raises does so once all frames of a call were heard and
    \* counted: its owner's callbacks raise at the last frame.
    /\ s.readyRaises \subseteq Owners   \* their ready callback may raise
    /\ s.discardRaises \subseteq Owners \* their discard callback may

VARIABLES
  setup,     \* the one taken
  free,      \* workers that are idle
  home,      \* the batch that each frame is in
  retrying,  \* frames on their way back to the layer
  retried,   \* frames that were retried
  left,      \* frames that nobody had resolved when their handler returned
  run,       \* the execution of each batch, at the layer and then at finish
  loop,      \* the batch whose coroutine the event loop is running
  asking,    \* coroutines that wait for a worker
  heard,     \* the callbacks made for each frame
  torn,      \* how often _tear_window counted it out
  advanced   \* frames the downstream backlogs were advanced by

vars == <<setup, home, retrying, retried, left, free, run, loop, asking, heard, torn, advanced>>
returned == <<home, retrying, retried, left>>
coroutines == <<loop, asking>>
outcomes == <<heard, torn, advanced>>

Stages == {"queued", "next", "handling", "telling", "ended"}

TypeOK ==
  /\ setup \in Setups
  /\ home \in [Frames -> Batches]
  /\ retrying \subseteq retried /\ retried \subseteq Frames /\ left \subseteq Frames
  /\ free \in 0..setup.workers
  /\ run \in [Batches ->
       [phase : {"layer", "finish"}, stage : Stages,
        todo : SUBSET Frames,     \* frames whose task is still to be made
        task : SUBSET Frames,     \* _remaining of the task at hand
        manual : BOOLEAN,         \* it was settled by hand
        awaited : BOOLEAN,        \* its coroutine has been suspended
        named : SUBSET Frames,    \* the frames of the discard() at hand
        telling : SUBSET Frames,  \* those whose owners have not heard of it
        aborting : BOOLEAN,       \* it is the abort() of _execute_batch
        proceed : SUBSET Frames,  \* batch_proceed
        sent : SUBSET Frames]]    \* pushed to the finish layer
  /\ loop \in Batches \cup {None}
  /\ asking \subseteq Batches
  /\ heard \in [Frames -> SUBSET {"ready", "discarded"}]
  /\ torn \in [Frames -> Nat]
  /\ advanced \subseteq Frames

\* An execution of the layer's, of the frames F.
Queued(F) ==
  [phase |-> "layer", stage |-> IF F = {} THEN "ended" ELSE "queued", todo |-> F,
   task |-> {}, manual |-> FALSE, awaited |-> FALSE, named |-> {}, telling |-> {},
   aborting |-> FALSE, proceed |-> {}, sent |-> {}]

Init ==
  /\ setup \in Setups
  /\ home = [f \in Frames |-> f.batch]
  /\ retrying = {} /\ retried = {} /\ left = {}
  /\ free = setup.workers
  /\ run = [b \in Batches |-> Queued({f \in setup.frames : f.batch = b})]
  /\ loop = None /\ asking = {}
  /\ heard = [f \in Frames |-> {}]
  /\ torn = [f \in Frames |-> 0]
  /\ advanced = {}

OwnersOf(F) == {f.owner : f \in F}
Of(o, F) == {f \in F : f.owner = o}
UpTo(n, F) == {f \in F : f.index <= n}

Becomes(b, r) == run' = [run EXCEPT ![b] = r]

\* A callback is made for each frame of F, and each of T is counted out.
Hears(F, what) ==
  heard' = [f \in Frames |-> IF f \in F THEN heard[f] \cup {what} ELSE heard[f]]
Tears(T) == torn' = [f \in Frames |-> IF f \in T THEN torn[f] + 1 ELSE torn[f]]

\* What execution r is after its last statement: the finish layer is next to
\* handle what was pushed to it.
Over(r, pushed) ==
  LET sent == r.sent \cup pushed
      rest == [r EXCEPT !.task = {}, !.telling = {}, !.proceed = {}, !.sent = {}]
  IN IF r.phase = "layer" /\ sent # {}
     THEN [rest EXCEPT !.phase = "finish", !.stage = "queued", !.todo = sent]
     ELSE [rest EXCEPT !.stage = "ended", !.todo = {}]

-----------------------------------------------------------------------------
(* _execute_batch *)

Takes(b) ==
  /\ run[b].stage = "queued" /\ free > 0
  /\ free' = free - 1
  /\ Becomes(b, [run[b] EXCEPT !.stage = "next"])
  /\ UNCHANGED <<setup, returned, coroutines, outcomes>>

\* A task for the next owner's frames, or for all of a shared layer's.
Handles(b, o) ==
  LET r == run[b]
      F == IF setup.shared /\ r.phase = "layer" THEN r.todo ELSE Of(o, r.todo)
  IN /\ r.stage = "next" /\ o \in OwnersOf(r.todo)
     /\ Becomes(b, [r EXCEPT !.stage = "handling", !.todo = @ \ F, !.task = F,
                             !.manual = FALSE, !.awaited = FALSE])
     /\ UNCHANGED <<setup, returned, free, coroutines, outcomes>>

\* Slip: the worker does not come back.
EndsForGood(b) ==
  /\ run[b].stage = "next" /\ run[b].todo = {}
  /\ Becomes(b, Over(run[b], run[b].proceed))
  /\ UNCHANGED <<setup, returned, free, coroutines, outcomes>>

\* Every owner's task is made: what is to proceed goes to the next layer.
Ends(b) ==
  /\ run[b].stage = "next" /\ run[b].todo = {}
  /\ Becomes(b, Over(run[b], run[b].proceed))
  /\ free' = free + 1
  /\ UNCHANGED <<setup, returned, coroutines, outcomes>>

\* Retried frames are queued again, for an execution that has room for them.
Rejoins(b, F) ==
  /\ run[b].stage = "ended" /\ F # {} /\ F \subseteq retrying
  /\ Becomes(b, Queued(F))
  /\ home' = [f \in Frames |-> IF f \in F THEN b ELSE home[f]]
  /\ retrying' = retrying \ F
  /\ UNCHANGED <<setup, retried, left, free, coroutines, outcomes>>

-----------------------------------------------------------------------------
(* A layer's handler, on the worker's thread or as a coroutine on the loop *)

OnLoop(b) == setup.coroutine /\ run[b].phase = "layer"

Running(b) ==
  /\ run[b].stage = "handling" /\ run[b].phase = "layer"
  /\ OnLoop(b) => loop = b

Leaves(b) == loop' = IF loop = b THEN None ELSE loop

\* The loop runs one coroutine at a time, from one await to the next.
Resumes(b) ==
  /\ OnLoop(b) /\ run[b].stage = "handling" /\ loop = None /\ b \notin asking
  /\ loop' = b
  /\ UNCHANGED <<setup, returned, free, run, asking, outcomes>>

Awaits(b, consults) ==
  /\ Running(b) /\ OnLoop(b) /\ ~run[b].awaited
  /\ consults => setup.consults
  /\ Becomes(b, [run[b] EXCEPT !.awaited = TRUE])
  /\ loop' = None
  /\ asking' = IF consults THEN asking \cup {b} ELSE asking
  /\ UNCHANGED <<setup, returned, free, outcomes>>

\* A worker does what the coroutine waits for.
Helps(b) ==
  /\ b \in asking /\ free > 0
  /\ asking' = asking \ {b}
  /\ UNCHANGED <<setup, returned, free, run, loop, outcomes>>

\* task.ready(F) hands frames on at once.
Readies(b, F) ==
  /\ Running(b) /\ F # {} /\ F \subseteq run[b].task
  /\ Becomes(b, [run[b] EXCEPT !.task = @ \ F, !.manual = TRUE, !.sent = @ \cup F])
  /\ UNCHANGED <<setup, returned, free, coroutines, outcomes>>

\* Slip: the frames are the task's until everybody has heard.
DiscardsLater(b, F) ==
  /\ Running(b) /\ F # {} /\ F \subseteq run[b].task
  /\ Becomes(b, [run[b] EXCEPT !.manual = TRUE, !.stage = "telling",
                               !.named = F, !.telling = F, !.aborting = FALSE])
  /\ UNCHANGED <<setup, returned, free, coroutines, outcomes>>

\* task.discard(F): the frames are the task's no more before anybody hears of it.
Discards(b, F) ==
  /\ Running(b) /\ F # {} /\ F \subseteq run[b].task
  /\ Becomes(b, [run[b] EXCEPT !.task = @ \ F, !.manual = TRUE, !.stage = "telling",
                               !.named = F, !.telling = F, !.aborting = FALSE])
  /\ UNCHANGED <<setup, returned, free, coroutines, outcomes>>

\* task.retry(backoff, F): the scheduler pushes the frames to this layer again.
HasRetried(b, F) ==
  /\ Running(b) /\ F # {} /\ F \subseteq run[b].task
  /\ F \subseteq setup.retryable \ retried
  /\ Becomes(b, [run[b] EXCEPT !.task = @ \ F, !.manual = TRUE])
  /\ retrying' = retrying \cup F /\ retried' = retried \cup F
  /\ UNCHANGED <<setup, home, left, free, coroutines, outcomes>>

\* It returns, and F is taken from what it returns: nothing if it has resolved a frame
\* by hand or the layer is asynchronous.  Frames that it has not resolved either are
\* with the task, which nobody here has any more.
Returns(b, F) ==
  /\ Running(b)
  /\ F \subseteq run[b].task /\ run[b].task \ F \subseteq setup.leavable
  /\ run[b].manual \/ setup.asynchronous => F = {}
  /\ Becomes(b, [run[b] EXCEPT !.stage = "next", !.task = {}, !.proceed = @ \cup F])
  /\ left' = left \cup (run[b].task \ F)
  /\ Leaves(b)
  /\ UNCHANGED <<setup, home, retrying, retried, free, asking, outcomes>>

\* Slip: an exception ends the loop over the owners.
AbortAndEnd(r) ==
  [r EXCEPT !.stage = "telling", !.task = {}, !.named = r.task, !.telling = r.task,
            !.aborting = TRUE, !.todo = {}]

\* The except clause: abort() discards what nobody has resolved.
Abort(r) ==
  [r EXCEPT !.stage = IF r.task = {} THEN "next" ELSE "telling", !.task = {},
            !.named = r.task, !.telling = r.task, !.aborting = TRUE]

\* The handler raises; one that has resolved all its frames might as well return.
Raises(b) ==
  /\ Running(b) /\ OwnersOf(run[b].task) \cap setup.faulty # {}
  /\ Becomes(b, Abort(run[b]))
  /\ Leaves(b)
  /\ UNCHANGED <<setup, returned, free, asking, outcomes>>

-----------------------------------------------------------------------------
(* _on_task_discard: the owners hear of it one by one, and lose the frames' slots *)

Tells(b, o) ==
  LET F == Of(o, run[b].telling)
  IN /\ run[b].stage = "telling" /\ F # {}
     /\ Hears(F, "discarded") /\ Tears(F)
     /\ Becomes(b, [run[b] EXCEPT !.telling = @ \ F])
     /\ UNCHANGED <<setup, returned, free, coroutines, advanced>>

\* The callback raises at the n-th frame: this owner's slots come back, the other
\* owners hear nothing.  A handler may catch it or pass it on to _execute_batch; out
\* of abort() it ends the whole execution.
TellingRaises(b, o, n, caught) ==
  LET r == run[b]
      F == Of(o, r.telling)
  IN /\ r.stage = "telling" /\ o \in setup.discardRaises /\ UpTo(n, F) # {}
     /\ Hears(UpTo(n, F), "discarded") /\ Tears(F)
     /\ caught => ~r.aborting
     /\ Becomes(b, CASE r.aborting -> Over(r, {})
                     [] caught -> [r EXCEPT !.stage = "handling", !.telling = {}]
                     [] OTHER -> Abort(r))
     /\ free' = IF r.aborting THEN free + 1 ELSE free
     /\ IF caught THEN UNCHANGED loop ELSE Leaves(b)
     /\ UNCHANGED <<setup, returned, asking, advanced>>

\* All have heard: the backlogs of the layers behind follow.
Advances(b) ==
  /\ run[b].stage = "telling" /\ run[b].telling = {}
  /\ advanced' = advanced \cup run[b].named
  /\ Becomes(b, [run[b] EXCEPT !.stage = IF run[b].aborting THEN "next" ELSE "handling"])
  /\ UNCHANGED <<setup, returned, free, coroutines, heard, torn>>

-----------------------------------------------------------------------------
(* The handler of the finish layer *)

Finishing(b) == run[b].stage = "handling" /\ run[b].phase = "finish"

Finishes(b) ==
  /\ Finishing(b)
  /\ Hears(run[b].task, "ready") /\ Tears(run[b].task)
  /\ Becomes(b, [run[b] EXCEPT !.stage = "next", !.task = {}])
  /\ UNCHANGED <<setup, returned, free, coroutines, advanced>>

\* The client's callback raises at the n-th frame.  The window is torn all the
\* same, and then abort() discards every frame.
FinishRaises(b, n) ==
  /\ Finishing(b) /\ OwnersOf(run[b].task) \subseteq setup.readyRaises
  /\ UpTo(n, run[b].task) # {}
  /\ Hears(UpTo(n, run[b].task), "ready") /\ Tears(run[b].task)
  /\ Becomes(b, Abort(run[b]))
  /\ UNCHANGED <<setup, returned, free, coroutines, advanced>>

-----------------------------------------------------------------------------

Handler(b) ==
  \/ Resumes(b) \/ Raises(b)
  \/ \E consults \in BOOLEAN : Awaits(b, consults)
  \/ \E F \in SUBSET run[b].task :
       Readies(b, F) \/ Discards(b, F) \/ HasRetried(b, F) \/ Returns(b, F)

Telling(b) ==
  \/ Advances(b)
  \/ \E o \in Owners :
       \/ Tells(b, o)
       \/ \E n \in 1..Size, caught \in BOOLEAN : TellingRaises(b, o, n, caught)

Finish(b) == Finishes(b) \/ \E n \in 1..Size : FinishRaises(b, n)

Continue(b) ==
  \/ Ends(b) \/ Handler(b) \/ Telling(b) \/ Finish(b)
  \/ \E o \in Owners : Handles(b, o)

Resubmits == \E b \in Batches, F \in SUBSET retrying : Rejoins(b, F)

Next ==
  \/ \E b \in Batches : Takes(b) \/ Helps(b) \/ Continue(b)
  \/ Resubmits

\* Workers take up what is queued, the loop serves its coroutines in turn, handlers
\* and callbacks come to an end, and the scheduler pushes what is to be retried.
Fairness ==
  /\ \A b \in Batches : WF_vars(Takes(b)) /\ WF_vars(Helps(b)) /\ SF_vars(Continue(b))
  /\ WF_vars(Resubmits)

Spec == Init /\ [][Next]_vars /\ Fairness

-----------------------------------------------------------------------------
(* Correctness *)

Ended(f) == f \notin retrying /\ run[home[f]].stage = "ended"

\* Whatever the handlers and the ready callbacks raise and whichever frames they have
\* retried: when its last execution has ended, a frame's client has heard of it, its
\* slot has come back, and if it was discarded the layers behind know
\* (orchestrator.py:430-468, 294-306, 584-596, 717-722).  Two things are beyond this: a
\* frame that its handler left, resolved by nobody (for a synchronous layer module
\* Pipeline shows what becomes of it, DroppedIsDiscarded), and a discard callback that
\* raises (ClientsAreIndependent).
EveryFrameIsHeard ==
  setup.discardRaises = {} =>
    \A f \in setup.frames :
      Ended(f) /\ f \notin left =>
        /\ heard[f] # {} /\ torn[f] > 0
        /\ "discarded" \in heard[f] => f \in advanced

\* A client whose ready callback does not raise hears of a frame once, and its slot
\* comes back once, whatever the others' callbacks do (orchestrator.py:653-668).
HeardAtMostOnce ==
  \A f \in Frames :
    f.owner \notin setup.readyRaises => Cardinality(heard[f]) <= 1 /\ torn[f] <= 1

AllEnded == retrying = {} /\ \A b \in Batches : run[b].stage = "ended"

\* Each batch is done with in the end, what was retried and the workers that wait for
\* coroutines included, if there is a worker left for what the coroutines wait for
\* (orchestrator.py:242-249, 276-289, 206-211).
BatchesEnd ==
  ~setup.consults \/ setup.workers > Cardinality(Batches) => <>AllEnded

-----------------------------------------------------------------------------
(* What the docs say, and the code does not do *)

\* Clients are "cheap and independent; multiple clients safely share the same
\* pipeline": those whose own callbacks do not raise hear of all their frames.  A
\* discard callback that raises leaves _on_task_discard before the next owner's turn,
\* and inside abort() the whole of _execute_batch.
ClientsAreIndependent ==
  \A f \in setup.frames \ left :
    Ended(f) /\ f.owner \notin setup.discardRaises => heard[f] # {}

\* "The only change is that the loop itself is created once": a handler that awaits
\* comes to an end.  But the workers wait for it, and may be waited for by it.
HandlersComeBack == <>AllEnded

=============================================================================
