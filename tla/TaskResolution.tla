--------------------------- MODULE TaskResolution ---------------------------
(***************************************************************************)
(* One Task of src/nam/concurrency/orchestrator.py: the object a layer     *)
(* hands to a handler together with a batch of frames.  The handler may    *)
(* resolve the batch in one go or call ready(), discard() and retry() for  *)
(* parts of it, from any thread; the layer itself resolves what is left    *)
(* when the handler returns or raises.                                     *)
(*                                                                         *)
(* Every call is a small process.  Its first step takes _settle_lock and   *)
(* finds out whether it is the first call (_settle_once); its second step  *)
(* takes its frames out of _remaining.  The two steps are separate in the  *)
(* code and so they are here: the first caller removes its frames without  *)
(* the lock and without looking at what others have claimed.               *)
(***************************************************************************)
EXTENDS Naturals, FiniteSets

CONSTANTS
  Nameable,      \* every frame a call may name, those of other batches too
  Batch,         \* the frames of this task
  Calls,         \* the ready/discard/retry calls the handler's code makes
  Layer,         \* the layer's own resolution: the return value, or abort()
  Asynchronous   \* the values the layer's is_async may have

ASSUME BatchAssumption == Batch \subseteq Nameable
ASSUME LayerAssumption == Layer \notin Calls
ASSUME AsynchronousAssumption == Asynchronous \subseteq BOOLEAN

VARIABLES
  asynchronous,  \* the layer's is_async: calls from any thread, at any time
  settled,       \* Task._settled
  remaining,     \* Task._remaining
  pc,            \* where each call is
  kind,          \* which method it is a call of
  named,         \* the frames the call names
  resolved,      \* what the call handed on: to _on_task_ready,
                 \* _on_task_discard, _schedule_retry or batch_proceed
  warned         \* what a retry reported as already resolved

taskVars == <<asynchronous, settled, remaining, pc, kind, named, resolved, warned>>

Resolvers == Calls \cup {Layer}

\* "ready_all" is ready() with no argument; discard() with no argument is
\* discard(Batch), as is abort(); "retry_rest" is retry() with no frames;
\* "return" is the handler's return value.
Kinds == {"ready", "ready_all", "discard", "retry", "retry_rest", "return"}

Retries == {"retry", "retry_rest"}

TaskTypeOK ==
  /\ asynchronous \in Asynchronous
  /\ settled \in BOOLEAN
  /\ remaining \subseteq Batch
  /\ pc \in [Resolvers -> {"idle", "called", "taking", "claiming", "took", "claimed"}]
  /\ kind \in [Resolvers -> Kinds \cup {"none"}]
  /\ named \in [Resolvers -> SUBSET Nameable]
  /\ resolved \in [Resolvers -> SUBSET Batch]
  /\ warned \in [Resolvers -> SUBSET Nameable]

TaskInit ==
  /\ asynchronous \in Asynchronous
  /\ settled = FALSE
  /\ remaining = Batch
  /\ pc = [c \in Resolvers |-> "idle"]
  /\ kind = [c \in Resolvers |-> "none"]
  /\ named = [c \in Resolvers |-> {}]
  /\ resolved = [c \in Resolvers |-> {}]
  /\ warned = [c \in Resolvers |-> {}]

-----------------------------------------------------------------------------

\* A synchronous handler makes its calls one after the other on the worker
\* thread, and none after it returned or raised.
NothingUnderWay == \A c \in Resolvers : pc[c] \in {"idle", "took", "claimed"}

MayCall == asynchronous \/ (NothingUnderWay /\ pc[Layer] = "idle")

Begin(c, k, F) ==
  /\ pc[c] = "idle"
  /\ pc' = [pc EXCEPT ![c] = "called"]
  /\ kind' = [kind EXCEPT ![c] = k]
  /\ named' = [named EXCEPT ![c] = F]
  /\ UNCHANGED <<asynchronous, settled, remaining, resolved, warned>>

Ready(c) == MayCall /\ \E F \in SUBSET Nameable : Begin(c, "ready", F)

ReadyAll(c) == MayCall /\ Begin(c, "ready_all", Batch)

Discard(c) == MayCall /\ \E F \in SUBSET Nameable : Begin(c, "discard", F)

Retry(c) == MayCall /\ \E F \in SUBSET Nameable : Begin(c, "retry", F)

\* retry() without frames reads _remaining here, before it takes the lock.
RetryRest(c) == MayCall /\ Begin(c, "retry_rest", remaining)

\* The handler returned.  An asynchronous layer leaves the task alone; any
\* other applies the returned frames, or the whole batch for None.
HandlerReturns ==
  /\ pc[Layer] = "idle"
  /\ IF asynchronous
     THEN /\ pc' = [pc EXCEPT ![Layer] = "claimed"]
          /\ UNCHANGED <<asynchronous, settled, remaining, kind, named, resolved,
                         warned>>
     ELSE /\ NothingUnderWay
          /\ \E F \in SUBSET Nameable : Begin(Layer, "return", F)

\* The handler raised: _execute_batch calls abort().
HandlerRaises ==
  /\ asynchronous \/ NothingUnderWay
  /\ Begin(Layer, "discard", Batch)

-----------------------------------------------------------------------------

\* Slip: every call is taken for the first one.
SettleAlways(c) ==
  /\ pc[c] = "called"
  /\ settled' = TRUE
  /\ pc' = [pc EXCEPT ![c] = IF kind[c] \in Retries THEN "claiming" ELSE "taking"]
  /\ UNCHANGED <<asynchronous, remaining, kind, named, resolved, warned>>

\* _settle_once.  A retry settles the task too, but claims its frames under
\* the lock whether or not it came first.
Settle(c) ==
  /\ pc[c] = "called"
  /\ settled' = TRUE
  /\ pc' = [pc EXCEPT ![c] = IF settled \/ kind[c] \in Retries
                             THEN "claiming" ELSE "taking"]
  /\ UNCHANGED <<asynchronous, remaining, kind, named, resolved, warned>>

\* Slip: the first call leaves its frames in _remaining.
TakeKeeps(c) ==
  /\ pc[c] = "taking"
  /\ resolved' = [resolved EXCEPT ![c] = named[c] \cap Batch]
  /\ pc' = [pc EXCEPT ![c] = "took"]
  /\ UNCHANGED <<asynchronous, settled, remaining, kind, named, warned>>

\* Slip: the first call hands on what it names, of the batch or not.
TakeUnfiltered(c) ==
  /\ pc[c] = "taking"
  /\ resolved' = [resolved EXCEPT ![c] = named[c]]
  /\ remaining' = IF kind[c] = "return" THEN remaining ELSE remaining \ named[c]
  /\ pc' = [pc EXCEPT ![c] = "took"]
  /\ UNCHANGED <<asynchronous, settled, kind, named, warned>>

\* The first call takes the frames it names, claimed by others or not.  A
\* return value leaves _remaining as it is.
Take(c) ==
  /\ pc[c] = "taking"
  /\ resolved' = [resolved EXCEPT ![c] = named[c] \cap Batch]
  /\ remaining' = IF kind[c] = "return" THEN remaining ELSE remaining \ named[c]
  /\ pc' = [pc EXCEPT ![c] = "took"]
  /\ UNCHANGED <<asynchronous, settled, kind, named, warned>>

\* Slip: a later call claims frames that others have claimed.
ClaimsAnything(c) == named[c] \cap Batch

\* Slip: a late discard() or abort() does nothing, like a late ready().
ClaimsForRetries(c) ==
  IF kind[c] \in Retries THEN named[c] \cap remaining ELSE {}

\* A later call claims what nobody has claimed yet, under the lock.  Only a
\* late ready() without frames and a late return value claim nothing.
Claims(c) ==
  IF kind[c] \in {"ready_all", "return"} THEN {} ELSE named[c] \cap remaining

\* Slip: the warning is made from _remaining after the claim.
ClaimWarnsAfter(c) ==
  /\ pc[c] = "claiming"
  /\ resolved' = [resolved EXCEPT ![c] = Claims(c)]
  /\ remaining' = remaining \ Claims(c)
  /\ warned' = [warned EXCEPT ![c] =
                  IF kind[c] \in Retries THEN named[c] \ remaining' ELSE {}]
  /\ pc' = [pc EXCEPT ![c] = "claimed"]
  /\ UNCHANGED <<asynchronous, settled, kind, named>>

Claim(c) ==
  /\ pc[c] = "claiming"
  /\ resolved' = [resolved EXCEPT ![c] = Claims(c)]
  /\ remaining' = remaining \ Claims(c)
  /\ warned' = [warned EXCEPT ![c] =
                  IF kind[c] \in Retries THEN named[c] \ remaining ELSE {}]
  /\ pc' = [pc EXCEPT ![c] = "claimed"]
  /\ UNCHANGED <<asynchronous, settled, kind, named>>

GoesOn(c) == Settle(c) \/ Take(c) \/ Claim(c)

TaskNext ==
  \/ \E c \in Calls : Ready(c) \/ ReadyAll(c) \/ Discard(c)
                      \/ Retry(c) \/ RetryRest(c)
  \/ HandlerReturns
  \/ HandlerRaises
  \/ \E c \in Resolvers : GoesOn(c)

\* A call that has begun runs on: its thread is never parked for ever.
TaskFairness == \A c \in Resolvers : WF_taskVars(GoesOn(c))

TaskSpec == TaskInit /\ [][TaskNext]_taskVars /\ TaskFairness

-----------------------------------------------------------------------------

\* What tests/test_task_concurrency.py says of threads that race: no frame is handed
\* on by two resolutions.
EachFrameResolvedOnce ==
  \A c, d \in Resolvers : c # d => resolved[c] \cap resolved[d] = {}

\* It holds of a synchronous handler: not two of its calls, nor a call and the return
\* value or the abort, hand on the same frame (orchestrator.py:84-97).
SynchronousOnce == ~asynchronous => EachFrameResolvedOnce

\* Two calls that both claim their frames (every call but the first, and every
\* retry) never resolve the same frame, whatever the threads do: a frame can
\* only be resolved twice when one of the two was the task's first call
\* (orchestrator.py:91-108).
ClaimsAreDisjoint ==
  \A c, d \in Resolvers :
    c # d /\ pc[c] = "claimed" /\ pc[d] = "claimed"
      => resolved[c] \cap resolved[d] = {}

\* After a raising handler nothing is lost: once the abort and every call under
\* way are through, each frame of the batch was handed on (orchestrator.py:441,
\* 455 with 130-144).
RaiseResolvesEverything ==
  kind[Layer] = "discard" /\ NothingUnderWay
    => Batch \subseteq UNION {resolved[c] : c \in Resolvers}

\* A retry never reports a frame of the batch that no other call has resolved
\* (orchestrator.py:97-108).
WarningIsTrue ==
  \A c \in Resolvers :
    warned[c] \cap Batch
      \subseteq UNION {resolved[d] : d \in Resolvers \ {c}}

\* A manual resolution wins over the return value: the layer proceeds with
\* frames only if no call of the handler resolved any (orchestrator.py:385-395).
ManualResolutionWins ==
  kind[Layer] = "return" /\ resolved[Layer] # {}
    => \A c \in Calls : resolved[c] = {}

\* What orchestrator.py:164-170 and the tests say of retry() without frames:
\* it retries what nobody has claimed, so it has nothing to warn about.
ImplicitRetryNeverWarns ==
  \A c \in Resolvers : kind[c] = "retry_rest" => warned[c] = {}

\* What docs/feature_unified_concurrency.md says of a frame that is not in the
\* batch: it is filtered out silently.
ForeignFrameIsSilent ==
  \A c \in Resolvers : warned[c] \subseteq Batch

=============================================================================
