------------------------------- MODULE Layer --------------------------------
(***************************************************************************)
(* One OrchestrationLayer of src/nam/concurrency/orchestrator.py at the    *)
(* grain of its locks: the executor's workers run push_batch and           *)
(* pull_batch, several at once, over the layer's queue.Queue.              *)
(*                                                                         *)
(*   upstream --push_batch--> queue --pull_batch--> posted (to a handler)  *)
(*                                                                         *)
(* push_batch decides which frames get in, and puts them, holding          *)
(* _queue_capacity_lock; what does not get in is pushed again later.       *)
(* pull_batch takes frames one by one without that lock and, when it finds *)
(* fewer than min_batch, puts them back, again without that lock.          *)
(***************************************************************************)
EXTENDS Integers, FiniteSets, Sequences

CONSTANTS
  Owners,        \* the Orchestrators that share the pipeline
  MaxIndex,      \* bound: each owner feeds the indices 0..MaxIndex
  MaxBatch,      \* _queue_max
  Workers,       \* executor threads
  NoWorker,
  Setups         \* the ways such a layer may be made and used

ASSUME MaxIndexAssumption == MaxIndex \in Nat
ASSUME MaxBatchAssumption == MaxBatch \in Nat \ {0}
ASSUME WorkerAssumption == NoWorker \notin Workers
ASSUME OwnersAssumption == IsFiniteSet(Owners)

Frames == [owner : Owners, index : 0..MaxIndex]

ASSUME SetupsAssumption ==
  Setups \subseteq [frames : SUBSET Frames, minBatch : Nat \ {0},
                    contiguous : BOOLEAN, yields : BOOLEAN,
                    discardable : SUBSET Frames, retries : Nat,
                    closers : SUBSET Owners]

VARIABLES
  setup,         \* how this one is made and used
  upstream,      \* frames no push_batch call has been made for yet
  dropped,       \* frames an earlier layer discarded
  pushes,        \* the batches of push_batch calls queued or on a timer
  pulls,         \* pull_batch calls queued or on a timer
  queue,         \* _queue
  backlog,       \* _backlog, an absent owner being -1
  pending,       \* _batch_pending_since: none, or a time ago that is fresh
                 \* (less than _yield_after) or old
  holder,        \* the worker that holds _queue_capacity_lock
  todo,          \* its batch's frames of owners not looked at yet
  accepted,      \* its accepted_batch, not put yet
  leftovers,     \* its batch_leftovers
  room,          \* its remaining_capacity
  admits,        \* whether accepted_batch had any frame
  pc,            \* what each worker is doing
  got,           \* the batch of each worker's pull_batch
  posted,        \* frames handed to the load balancer for the handler
  retries        \* how many retries were made

pushVars == <<todo, accepted, leftovers, room, admits>>
envVars == <<upstream, dropped, retries>>
vars == <<setup, upstream, dropped, pushes, pulls, queue, backlog, pending, holder,
          todo, accepted, leftovers, room, admits, pc, got, posted, retries>>

\* The layer's arguments: _batch_min, _contiguous, and whether _yield_after is a
\* positive time (0: not).
MinBatch == setup.minBatch
Contiguous == setup.contiguous
Yields == setup.yields

\* The frames an earlier layer may discard, a bound on how often this layer's
\* handler calls retry(), and the owners that may call close().
Discardable == setup.discardable
MaxRetries == setup.retries
Closers == setup.closers

PullStages == {"getting", "deciding", "putting_back"}

TypeOK ==
  /\ setup \in Setups
  /\ upstream \subseteq Frames
  /\ dropped \subseteq Frames
  /\ pushes \subseteq SUBSET Frames
  /\ pulls \in Nat
  /\ queue \in Seq(Frames)
  /\ backlog \in [Owners -> -1..MaxIndex]
  /\ pending \in {"none", "fresh", "old"}
  /\ holder \in Workers \cup {NoWorker}
  /\ todo \subseteq Frames
  /\ accepted \subseteq Frames
  /\ leftovers \subseteq Frames
  /\ room \in Int
  /\ admits \in BOOLEAN
  /\ pc \in [Workers -> {"idle", "pushing"} \cup PullStages]
  /\ got \in [Workers -> Seq(Frames)]
  /\ posted \subseteq Frames
  /\ retries \in 0..MaxRetries

Init ==
  /\ setup \in Setups
  /\ upstream = setup.frames
  /\ dropped = {}
  /\ pushes = {}
  /\ pulls = 0
  /\ queue = <<>>
  /\ backlog = [o \in Owners |-> -1]
  /\ pending = "none"
  /\ holder = NoWorker
  /\ todo = {} /\ accepted = {} /\ leftovers = {} /\ room = 0
  /\ admits = FALSE
  /\ pc = [w \in Workers |-> "idle"]
  /\ got = [w \in Workers |-> <<>>]
  /\ posted = {}
  /\ retries = 0

-----------------------------------------------------------------------------
(* sorted(), slices and the region a batch is split at *)

AtMost(a, b) == IF a < b THEN a ELSE b

OwnedBy(F, o) == {f \in F : f.owner = o}

\* F is one owner's: its first k frames by index, F[:k] of the sorted list.
FirstOf(F, k) ==
  {f \in F : Cardinality({g \in F : g.index < f.index}) < k}

\* F[k:] of the sorted list.  As a Python slice: a negative k means the last
\* -k frames.
RestOf(F, k) ==
  IF k >= 0 THEN F \ FirstOf(F, k)
  ELSE F \ FirstOf(F, Cardinality(F) + k)

\* f and the frames sorted before it carry exactly the indices that follow b.
FollowsOn(f, F, b) ==
  {g.index : g \in {g \in F : g.index <= f.index}} = (b + 1)..f.index

\* Slip: a contiguous layer is treated like any other.
RegionPlain(o, F, r) == AtMost(r, Cardinality(F))

\* _ensure_batch: the region (how many frames may enter) for one owner's
\* sorted frames F.  Nothing keeps it from being negative when r is.
Region(o, F, r) ==
  IF Contiguous
  THEN Cardinality({f \in FirstOf(F, r) : FollowsOn(f, F, backlog[o])})
  ELSE AtMost(r, Cardinality(F))

\* _advance_backlog: the sorted frames F move the backlog b one by one; those
\* at or before it are passed over.
Advanced(b, F) ==
  b + Cardinality({f \in F : f.index > b /\ FollowsOn(f, {g \in F : g.index > b}, b)})

-----------------------------------------------------------------------------
(* The rest of the pipeline *)

\* An earlier layer forwards a batch, or the orchestrator feeds one.
Forward(F) ==
  /\ F # {} /\ F \subseteq upstream
  /\ upstream' = upstream \ F
  /\ pushes' = pushes \cup {F}
  /\ UNCHANGED <<setup, dropped, pulls, queue, backlog, pending, holder, pushVars,
                 pc, got, posted, retries>>

\* An earlier layer's task discards frames of one owner:
\* _advance_downstream_backlogs reaches this layer if it is contiguous.
DiscardUpstream(o, F) ==
  /\ F # {} /\ F \subseteq OwnedBy(upstream, o) \cap Discardable
  /\ upstream' = upstream \ F
  /\ dropped' = dropped \cup F
  /\ backlog' = IF Contiguous
                THEN [backlog EXCEPT ![o] = Advanced(@, F)] ELSE backlog
  /\ UNCHANGED <<setup, pushes, pulls, queue, pending, holder, pushVars, pc, got,
                 posted, retries>>

\* This layer's handler retries frames: push_batch after the backoff.
RetryPosted(F) ==
  /\ retries < MaxRetries
  /\ F # {} /\ F \subseteq posted
  /\ posted' = posted \ F
  /\ pushes' = pushes \cup {F}
  /\ retries' = retries + 1
  /\ UNCHANGED <<setup, upstream, dropped, pulls, queue, backlog, pending, holder,
                 pushVars, pc, got>>

\* Orchestrator.close(): teardown clears the owner's entry, frames in flight
\* or not.
ClearBatch(o) ==
  /\ o \in Closers
  /\ backlog[o] # -1
  /\ backlog' = [backlog EXCEPT ![o] = -1]
  /\ UNCHANGED <<setup, envVars, pushes, pulls, queue, pending, holder, pushVars,
                 pc, got, posted>>

-----------------------------------------------------------------------------
(* push_batch *)

\* Slip: the frames already queued are not subtracted.
PushStartFullRoom(w, B) ==
  /\ pc[w] = "idle" /\ holder = NoWorker /\ B \in pushes
  /\ pushes' = pushes \ {B}
  /\ pc' = [pc EXCEPT ![w] = "pushing"]
  /\ holder' = w
  /\ todo' = B
  /\ room' = AtMost(MaxBatch, Cardinality(B))
  /\ UNCHANGED <<setup, envVars, pulls, queue, backlog, pending, accepted, leftovers,
                 admits, got, posted>>

\* A worker starts the call and gets the capacity lock.
PushStart(w, B) ==
  /\ pc[w] = "idle" /\ holder = NoWorker /\ B \in pushes
  /\ pushes' = pushes \ {B}
  /\ pc' = [pc EXCEPT ![w] = "pushing"]
  /\ holder' = w
  /\ todo' = B
  /\ room' = AtMost(MaxBatch - Len(queue), Cardinality(B))
  /\ UNCHANGED <<setup, envVars, pulls, queue, backlog, pending, accepted, leftovers,
                 admits, got, posted>>

\* The loop over the batch's owners, one owner at a time.
PushSplit(w, o) ==
  LET F == OwnedBy(todo, o)
      region == Region(o, F, room)
  IN /\ pc[w] = "pushing" /\ F # {}
     /\ todo' = todo \ F
     /\ leftovers' = leftovers \cup RestOf(F, region)
     /\ accepted' = accepted \cup FirstOf(F, region)
     /\ admits' = (admits \/ FirstOf(F, region) # {})
     /\ room' = room - region
     /\ backlog' = IF Contiguous
                   THEN [backlog EXCEPT ![o] = @ + region] ELSE backlog
     /\ UNCHANGED <<setup, envVars, pushes, pulls, queue, pending, holder, pc, got,
                    posted>>

\* self._queue.put(f) for the accepted frames in order of their indices.
PushPut(w) ==
  /\ pc[w] = "pushing" /\ todo = {}
  /\ \E f \in accepted :
       /\ \A g \in accepted : f.index <= g.index
       /\ queue' = Append(queue, f)
       /\ accepted' = accepted \ {f}
  /\ UNCHANGED <<setup, envVars, pushes, pulls, backlog, pending, holder, todo,
                 leftovers, room, admits, pc, got, posted>>

\* The call ends: new pulls and pushes are queued.
EndsPush(w, dispatched, again) ==
  /\ pc[w] = "pushing" /\ todo = {} /\ accepted = {}
  /\ holder' = NoWorker
  /\ pc' = [pc EXCEPT ![w] = "idle"]
  /\ pulls' = pulls + dispatched
  /\ pushes' = pushes \cup again
  /\ leftovers' = {} /\ admits' = FALSE /\ room' = 0
  /\ UNCHANGED <<setup, envVars, queue, backlog, pending, todo, accepted, got, posted>>

\* Slip: the leftovers are forgotten.
PushDoneForgets(w) == EndsPush(w, IF admits THEN 1 ELSE 0, {})

\* The lock is released, a pull is dispatched if any frame got in and the
\* leftovers are pushed again after _yield_after.
PushDone(w) ==
  EndsPush(w, IF admits THEN 1 ELSE 0, IF leftovers # {} THEN {leftovers} ELSE {})

-----------------------------------------------------------------------------
(* pull_batch *)

PullStart(w) ==
  /\ pc[w] = "idle" /\ pulls > 0
  /\ pulls' = pulls - 1
  /\ pc' = [pc EXCEPT ![w] = "getting"]
  /\ UNCHANGED <<setup, envVars, pushes, queue, backlog, pending, holder, pushVars,
                 got, posted>>

\* One self._queue.get(block=False).
PullGet(w) ==
  /\ pc[w] = "getting" /\ queue # <<>> /\ Len(got[w]) < MaxBatch
  /\ got' = [got EXCEPT ![w] = Append(@, Head(queue))]
  /\ queue' = Tail(queue)
  /\ UNCHANGED <<setup, envVars, pushes, pulls, backlog, pending, holder, pushVars,
                 pc, posted>>

\* The loop ends: max_batch frames, or queue.Empty.
PullGot(w) ==
  /\ pc[w] = "getting" /\ (queue = <<>> \/ Len(got[w]) = MaxBatch)
  /\ pc' = [pc EXCEPT ![w] = IF got[w] = <<>> THEN "idle" ELSE "deciding"]
  /\ UNCHANGED <<setup, envVars, pushes, pulls, queue, backlog, pending, holder,
                 pushVars, got, posted>>

Contents(s) == {s[i] : i \in DOMAIN s}

\* _batch_pending_lock is free unless its holder is putting frames back.
PendingLockFree == \A w \in Workers : pc[w] # "putting_back"

\* Too few frames, and no pull has been waiting for _yield_after yet.
TooFew(w) ==
  Len(got[w]) < MinBatch /\ (pending \in {"none", "fresh"} \/ ~Yields)

\* Enough frames or enough waiting: the batch goes to the load balancer.
PullPost(w) ==
  /\ pc[w] = "deciding" /\ PendingLockFree /\ ~TooFew(w)
  /\ pending' = "none"
  /\ posted' = posted \cup Contents(got[w])
  /\ got' = [got EXCEPT ![w] = <<>>]
  /\ pc' = [pc EXCEPT ![w] = "idle"]
  /\ UNCHANGED <<setup, envVars, pushes, pulls, queue, backlog, holder, pushVars>>

PullWait(w) ==
  /\ pc[w] = "deciding" /\ PendingLockFree /\ TooFew(w)
  /\ pending' = IF pending = "none" THEN "fresh" ELSE pending
  /\ pc' = [pc EXCEPT ![w] = "putting_back"]
  /\ UNCHANGED <<setup, envVars, pushes, pulls, queue, backlog, holder, pushVars,
                 got, posted>>

\* One self._queue.put(f) of the put-back loop, without the capacity lock.
PullPutBack(w) ==
  /\ pc[w] = "putting_back" /\ got[w] # <<>>
  /\ queue' = Append(queue, Head(got[w]))
  /\ got' = [got EXCEPT ![w] = Tail(@)]
  /\ UNCHANGED <<setup, envVars, pushes, pulls, backlog, pending, holder, pushVars,
                 pc, posted>>

\* Slip: nobody pulls again.
PullNeverAgain(w) ==
  /\ pc[w] = "putting_back" /\ got[w] = <<>>
  /\ pc' = [pc EXCEPT ![w] = "idle"]
  /\ UNCHANGED <<setup, envVars, pushes, pulls, queue, backlog, pending, holder,
                 pushVars, got, posted>>

PullAgainLater(w) ==
  /\ pc[w] = "putting_back" /\ got[w] = <<>>
  /\ pc' = [pc EXCEPT ![w] = "idle"]
  /\ pulls' = pulls + 1
  /\ UNCHANGED <<setup, envVars, pushes, queue, backlog, pending, holder, pushVars,
                 got, posted>>

\* _yield_after has passed since _batch_pending_since.
YieldPasses ==
  /\ Yields /\ pending = "fresh"
  /\ pending' = "old"
  /\ UNCHANGED <<setup, envVars, pushes, pulls, queue, backlog, holder, pushVars, pc,
                 got, posted>>

-----------------------------------------------------------------------------

PushStep(w) == (\E o \in Owners : PushSplit(w, o)) \/ PushPut(w) \/ PushDone(w)

PullStep(w) ==
  PullGet(w) \/ PullGot(w) \/ PullPost(w) \/ PullWait(w) \/ PullPutBack(w)
  \/ PullAgainLater(w)

Environment ==
  \/ \E F \in SUBSET setup.frames : Forward(F) \/ RetryPosted(F)
  \/ \E o \in Owners : ClearBatch(o) \/ \E F \in SUBSET Discardable :
                                          DiscardUpstream(o, F)

Next ==
  \/ Environment
  \/ \E w \in Workers :
       PushStep(w) \/ PullStep(w) \/ PullStart(w) \/ \E B \in pushes : PushStart(w, B)
  \/ YieldPasses

PushStartWith(f) ==
  \E w \in Workers, B \in pushes : f \in B /\ PushStart(w, B)

\* Workers run on, time passes, and every call queued on the executor is taken
\* up in the end: its queue is first come, first served, and a call that polls
\* is queued behind the others.
Fairness ==
  /\ \A w \in Workers : WF_vars(PushStep(w)) /\ SF_vars(PullStep(w))
  /\ \A f \in Frames : SF_vars(PushStartWith(f))
  /\ SF_vars(\E w \in Workers : PullStart(w))
  /\ WF_vars(YieldPasses)

Spec == Init /\ [][Next]_vars /\ Fairness

-----------------------------------------------------------------------------
(* Correctness *)

\* queue.Queue() has no bound of its own: the capacity lock is what keeps concurrent
\* push_batch calls from overshooting _queue_max together.  With min_batch 1 it does,
\* as no pull puts frames back (orchestrator.py:482-501, 509-519).
QueueWithinCapacity == MinBatch = 1 => Len(queue) <= MaxBatch

\* Every frame is in exactly one place, whatever the interleaving of pushes,
\* pulls, put-backs and retries: none is lost, none is handled twice.
Places ==
  [upstream |-> upstream, dropped |-> dropped, todo |-> todo,
   accepted |-> accepted, leftovers |-> leftovers, posted |-> posted]

Copies(f) ==
  Cardinality({p \in DOMAIN Places : f \in Places[p]})
  + Cardinality({B \in pushes : f \in B})
  + Cardinality({i \in DOMAIN queue : queue[i] = f})
  + Cardinality({wi \in Workers \X (1..MaxBatch) :
                   wi[2] <= Len(got[wi[1]]) /\ got[wi[1]][wi[2]] = f})

EveryFrameInOnePlace == \A f \in setup.frames : Copies(f) = 1

\* The frames let into the layer so far.
Admitted ==
  accepted \cup Contents(queue) \cup posted
  \cup UNION {Contents(got[w]) : w \in Workers}

\* A contiguous layer lets a frame in only after all its owner's earlier frames
\* were let in or discarded (orchestrator.py:362-383).
NothingOvertakes ==
  Contiguous =>
    \A f \in Admitted, g \in Frames :
      g.owner = f.owner /\ g.index < f.index => g \in Admitted \cup dropped

\* f was handed to the layer, and so were all its owner's earlier frames that were not
\* discarded; the owner is none of those that close.
Due(f) ==
  /\ f \in setup.frames \ (upstream \cup dropped) /\ f.owner \notin Closers
  /\ \A g \in OwnedBy(upstream, f.owner) : g.index > f.index

\* Every such frame reaches the handler, however often it was turned away for lack of
\* room, put back for lack of company, or retried, and whoever closes beside it
\* (orchestrator.py:362-383, 473-501, 541-551).
DueIsPosted == \A f \in Frames : Due(f) ~> f \in posted

\* What orchestrator.py:509-515 says for any layer: its backpressure is not defeated.
QueueNeverOvershoots == Len(queue) <= MaxBatch

=============================================================================
