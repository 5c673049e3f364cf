---------------------------- MODULE HandlerProofs ----------------------------
(***************************************************************************)
(* Proofs about what a handler is given to hold: one task (module          *)
(* TaskResolution), for any frames, batch and number of calls, and whole   *)
(* batches (module Execution), for any owners, batches, handlers and       *)
(* callbacks.                                                              *)
(*                                                                         *)
(* Of a task, Inv holds for every handler; SyncInv adds what holds when    *)
(* the handler's calls are made one after the other (a synchronous layer). *)
(* Of an execution, ExecutionInv says where each frame is and what its     *)
(* owner has heard: a step takes one execution on (Moves), and tells       *)
(* owners of frames that it lets go of by that very step, or it queues     *)
(* frames again that no execution has (Rejoins).                           *)
(***************************************************************************)
EXTENDS TaskResolution, Execution, FiniteSetTheorems, TLAPS

-----------------------------------------------------------------------------
(* One task *)

Through == {"took", "claimed"}

Decided == {"taking", "claiming", "took", "claimed"}

\* What is known of a call by where it is.
CallInv ==
  /\ \A c \in Resolvers :
       /\ pc[c] \notin Through => resolved[c] = {}
       /\ pc[c] \in Decided /\ kind[c] # "none" => settled
       /\ pc[c] = "idle" => kind[c] = "none"
       /\ kind[c] = "return" => c = Layer
  /\ kind[Layer] = "discard" => named[Layer] = Batch
  /\ kind[Layer] = "return" => ~asynchronous

\* A frame that was claimed is gone from _remaining, and so no later call can
\* claim it.
ClaimInv ==
  /\ \A c \in Resolvers : pc[c] = "claimed" => resolved[c] \cap remaining = {}
  /\ ClaimsAreDisjoint

ResolvedByAny == UNION {resolved[c] : c \in Resolvers}

\* Frames leave _remaining only by being resolved, and abort() leaves nothing.
RaiseInv ==
  /\ Batch \ remaining \subseteq ResolvedByAny
  /\ kind[Layer] = "discard" /\ pc[Layer] \in Through => Batch \subseteq ResolvedByAny

\* Calls warn when they end, about frames that others resolved.
WarnInv ==
  /\ \A c \in Resolvers : pc[c] \notin Through => warned[c] = {}
  /\ WarningIsTrue

Inv == TaskTypeOK /\ CallInv /\ ClaimInv /\ RaiseInv /\ WarnInv

LEMMA InitInv == TaskInit => Inv
  BY BatchAssumption, LayerAssumption
  DEF TaskInit, Inv, TaskTypeOK, CallInv, ClaimInv, RaiseInv, WarnInv, ClaimsAreDisjoint,
      WarningIsTrue, ResolvedByAny, Through, Decided, Resolvers, Kinds

\* A call that begins names some frames and changes nothing else.
LEMMA BeginInv ==
  ASSUME Inv, NEW c \in Resolvers, NEW k \in Kinds, NEW F \in SUBSET Nameable,
         Begin(c, k, F),
         k = "return" => c = Layer /\ ~asynchronous,
         c = Layer /\ k = "discard" => F = Batch
  PROVE  Inv'
<1> USE DEF Begin, Resolvers
<1>1. TaskTypeOK'
  BY DEF Inv, TaskTypeOK, Kinds
<1>2. CallInv'
  BY DEF Inv, TaskTypeOK, CallInv, Through, Decided, Kinds
<1>3. ClaimInv'
  BY DEF Inv, TaskTypeOK, CallInv, ClaimInv, ClaimsAreDisjoint, Through
<1>4. RaiseInv'
  BY DEF Inv, TaskTypeOK, CallInv, RaiseInv, ResolvedByAny, Through
<1>5. WarnInv'
  BY DEF Inv, TaskTypeOK, WarnInv, WarningIsTrue, Through
<1> QED  BY <1>1, <1>2, <1>3, <1>4, <1>5 DEF Inv

LEMMA SettleInv ==
  ASSUME Inv, NEW c \in Resolvers, Settle(c)
  PROVE  Inv'
<1> USE DEF Settle
<1>1. TaskTypeOK'
  BY DEF Inv, TaskTypeOK
<1>2. CallInv'
  BY DEF Inv, TaskTypeOK, CallInv, Through, Decided, Resolvers
<1>3. ClaimInv'
  BY DEF Inv, TaskTypeOK, ClaimInv, ClaimsAreDisjoint
<1>4. RaiseInv'
  BY LayerAssumption DEF Inv, TaskTypeOK, RaiseInv, ResolvedByAny, Through, Resolvers
<1>5. WarnInv'
  BY DEF Inv, TaskTypeOK, WarnInv, WarningIsTrue, Through
<1> QED  BY <1>1, <1>2, <1>3, <1>4, <1>5 DEF Inv

\* What a call resolves comes on top of what the others have resolved.
LEMMA ResolvedGrows ==
  ASSUME Inv, NEW c \in Resolvers, pc[c] \notin Through,
         NEW R \in SUBSET Batch,
         resolved' = [resolved EXCEPT ![c] = R]
  PROVE  ResolvedByAny' = ResolvedByAny \cup R
<1>1. \A d \in Resolvers : resolved'[d] = IF d = c THEN R ELSE resolved[d]
  BY DEF Inv, TaskTypeOK
<1>2. resolved[c] = {}
  BY DEF Inv, CallInv
<1>3. ASSUME NEW f \in ResolvedByAny'
      PROVE  f \in ResolvedByAny \cup R
  <2>1. PICK d \in Resolvers : f \in resolved'[d]
    BY <1>3 DEF ResolvedByAny
  <2> QED  BY <2>1, <1>1 DEF ResolvedByAny
<1>4. ASSUME NEW f \in ResolvedByAny \cup R
      PROVE  f \in ResolvedByAny'
  <2>1. CASE f \in R
    BY <2>1, <1>1 DEF ResolvedByAny
  <2>2. CASE f \in ResolvedByAny
    <3>1. PICK d \in Resolvers : f \in resolved[d]
      BY <2>2 DEF ResolvedByAny
    <3>2. d # c
      BY <3>1, <1>2
    <3> QED  BY <3>1, <3>2, <1>1 DEF ResolvedByAny
  <2> QED  BY <1>4, <2>1, <2>2
<1> QED  BY <1>3, <1>4

\* Resolving more does not make a warning false.
LEMMA WarningsStayTrue ==
  ASSUME Inv, NEW c \in Resolvers, pc[c] \notin Through,
         NEW R \in SUBSET Batch,
         resolved' = [resolved EXCEPT ![c] = R],
         NEW d \in Resolvers
  PROVE  warned[d] \cap Batch
           \subseteq UNION {resolved'[e] : e \in Resolvers \ {d}}
<1>1. \A e \in Resolvers : resolved[e] \subseteq resolved'[e]
  BY DEF Inv, TaskTypeOK, CallInv
<1>2. SUFFICES ASSUME NEW f \in warned[d] \cap Batch
               PROVE  f \in UNION {resolved'[e] : e \in Resolvers \ {d}}
  OBVIOUS
<1>3. PICK e \in Resolvers \ {d} : f \in resolved[e]
  BY DEF Inv, WarnInv, WarningIsTrue
<1> QED  BY <1>1, <1>3

LEMMA TakeInv ==
  ASSUME Inv, NEW c \in Resolvers, Take(c)
  PROVE  Inv'
<1> USE DEF Take
<1>1. TaskTypeOK'
  BY DEF Inv, TaskTypeOK
<1>2. CallInv'
  BY DEF Inv, TaskTypeOK, CallInv, Through, Decided, Resolvers
<1>3. ClaimInv'
  BY DEF Inv, TaskTypeOK, ClaimInv, ClaimsAreDisjoint
<1>4. ResolvedByAny' = ResolvedByAny \cup (named[c] \cap Batch)
  BY ResolvedGrows DEF Through
<1>5. RaiseInv'
  <2>1. (Batch \ remaining \subseteq ResolvedByAny)'
    BY <1>4 DEF Inv, RaiseInv
  <2>2. (kind[Layer] = "discard" /\ pc[Layer] \in Through
           => Batch \subseteq ResolvedByAny)'
    BY <1>4 DEF Inv, TaskTypeOK, CallInv, RaiseInv, Through, Resolvers
  <2> QED  BY <2>1, <2>2 DEF RaiseInv
<1>6. WarnInv'
  <2>a. warned' = warned /\ named[c] \cap Batch \in SUBSET Batch
    OBVIOUS
  <2>b. ASSUME NEW d \in Resolvers
        PROVE  warned[d] \cap Batch
                 \subseteq UNION {resolved'[e] : e \in Resolvers \ {d}}
    BY WarningsStayTrue DEF Through
  <2>1. WarningIsTrue'
    BY <2>a, <2>b DEF WarningIsTrue
  <2>2. (\A d \in Resolvers : pc[d] \notin Through => warned[d] = {})'
    BY DEF Inv, TaskTypeOK, WarnInv, Through
  <2> QED  BY <2>1, <2>2 DEF WarnInv
<1> QED  BY <1>1, <1>2, <1>3, <1>5, <1>6 DEF Inv

LEMMA ClaimStepInv ==
  ASSUME Inv, NEW c \in Resolvers, Claim(c)
  PROVE  Inv'
<1> USE DEF Claim
<1>a. Claims(c) \subseteq remaining /\ Claims(c) \subseteq Batch
  BY DEF Claims, Inv, TaskTypeOK
<1>b. \A d \in Resolvers :
        /\ resolved'[d] = IF d = c THEN Claims(c) ELSE resolved[d]
        /\ pc'[d] = IF d = c THEN "claimed" ELSE pc[d]
  BY DEF Inv, TaskTypeOK
<1>1. TaskTypeOK'
  BY <1>a DEF Inv, TaskTypeOK
<1>2. CallInv'
  BY <1>b DEF Inv, TaskTypeOK, CallInv, Through, Decided, Resolvers
<1>3. ClaimInv'
  <2>1. (\A d \in Resolvers : pc[d] = "claimed" => resolved[d] \cap remaining = {})'
    BY <1>a, <1>b DEF Inv, ClaimInv
  <2>2. ClaimsAreDisjoint'
    BY <1>a, <1>b DEF Inv, ClaimInv, ClaimsAreDisjoint
  <2> QED  BY <2>1, <2>2 DEF ClaimInv
<1>4. ResolvedByAny' = ResolvedByAny \cup Claims(c)
  BY <1>a, ResolvedGrows DEF Through
<1>5. RaiseInv'
  <2>1. (Batch \ remaining \subseteq ResolvedByAny)'
    BY <1>4 DEF Inv, RaiseInv
  <2>2. (kind[Layer] = "discard" /\ pc[Layer] \in Through
           => Batch \subseteq ResolvedByAny)'
    <3>1. CASE c = Layer
      <4>1. kind[Layer] = "discard" => Claims(c) = Batch \cap remaining
        BY <3>1 DEF Inv, CallInv, Claims
      <4> QED  BY <3>1, <4>1, <1>4 DEF Inv, RaiseInv
    <3>2. CASE c # Layer
      BY <3>2, <1>4, <1>b DEF Inv, RaiseInv, Resolvers
    <3> QED  BY <3>1, <3>2
  <2> QED  BY <2>1, <2>2 DEF RaiseInv
<1>6. WarnInv'
  <2>1. \A d \in Resolvers :
          warned'[d] = IF d = c /\ kind[c] \in Retries THEN named[c] \ remaining
                       ELSE IF d = c THEN {} ELSE warned[d]
    BY DEF Inv, TaskTypeOK
  <2>2. ASSUME NEW d \in Resolvers
        PROVE  warned'[d] \cap Batch
                 \subseteq UNION {resolved'[e] : e \in Resolvers \ {d}}
    <3>1. CASE d # c
      BY <3>1, <1>a, <2>1, WarningsStayTrue DEF Through
    <3>2. CASE d = c
      <4>1. SUFFICES ASSUME NEW f \in warned'[d] \cap Batch
                     PROVE  f \in UNION {resolved'[e] : e \in Resolvers \ {d}}
        OBVIOUS
      <4>2. f \in Batch \ remaining
        BY <3>2, <2>1
      <4>3. PICK e \in Resolvers : f \in resolved[e]
        BY <4>2 DEF Inv, RaiseInv, ResolvedByAny
      <4>4. e # c
        BY <4>3 DEF Inv, CallInv, Through
      <4> QED  BY <3>2, <4>3, <4>4, <1>b
    <3> QED  BY <3>1, <3>2
  <2>3. (\A d \in Resolvers : pc[d] \notin Through => warned[d] = {})'
    BY <1>b, <2>1 DEF Inv, WarnInv, Through
  <2> QED  BY <2>2, <2>3 DEF WarnInv, WarningIsTrue
<1> QED  BY <1>1, <1>2, <1>3, <1>5, <1>6 DEF Inv

\* An asynchronous layer leaves the task alone when its handler returns.
LEMMA ReturnsInv ==
  ASSUME Inv, HandlerReturns
  PROVE  Inv'
<1>1. CASE asynchronous
  <2> USE <1>1 DEF HandlerReturns
  <2>1. TaskTypeOK'
    BY DEF Inv, TaskTypeOK
  <2>2. CallInv'
    BY DEF Inv, TaskTypeOK, CallInv, Through, Decided, Resolvers
  <2>3. ClaimInv'
    BY DEF Inv, TaskTypeOK, CallInv, ClaimInv, ClaimsAreDisjoint, Through, Resolvers
  <2>4. RaiseInv'
    BY DEF Inv, TaskTypeOK, CallInv, RaiseInv, ResolvedByAny, Through, Resolvers
  <2>5. WarnInv'
    BY DEF Inv, TaskTypeOK, WarnInv, WarningIsTrue, Through, Resolvers
  <2> QED  BY <2>1, <2>2, <2>3, <2>4, <2>5 DEF Inv
<1>2. CASE ~asynchronous
  <2>1. PICK F \in SUBSET Nameable : Begin(Layer, "return", F)
    BY <1>2 DEF HandlerReturns
  <2> QED  BY <1>2, <2>1, BeginInv DEF Kinds, Resolvers
<1> QED  BY <1>1, <1>2

LEMMA NextInv == Inv /\ [TaskNext]_taskVars => Inv'
<1> SUFFICES ASSUME Inv, [TaskNext]_taskVars PROVE Inv'
  OBVIOUS
<1>a. \A c \in Calls : c \in Resolvers /\ c # Layer
  BY LayerAssumption DEF Resolvers
<1>b. Batch \in SUBSET Nameable /\ remaining \in SUBSET Nameable
  BY BatchAssumption DEF Inv, TaskTypeOK
<1>1. ASSUME NEW c \in Calls, Ready(c) PROVE Inv'
  BY <1>1, <1>a, BeginInv DEF Ready, Kinds
<1>2. ASSUME NEW c \in Calls, ReadyAll(c) PROVE Inv'
  BY <1>2, <1>a, <1>b, BeginInv DEF ReadyAll, Kinds
<1>3. ASSUME NEW c \in Calls, Discard(c) PROVE Inv'
  BY <1>3, <1>a, BeginInv DEF Discard, Kinds
<1>4. ASSUME NEW c \in Calls, Retry(c) PROVE Inv'
  BY <1>4, <1>a, BeginInv DEF Retry, Kinds
<1>5. ASSUME NEW c \in Calls, RetryRest(c) PROVE Inv'
  BY <1>5, <1>a, <1>b, BeginInv DEF RetryRest, Kinds
<1>6. CASE HandlerReturns
  BY <1>6, ReturnsInv
<1>7. CASE HandlerRaises
  BY <1>7, <1>b, BeginInv DEF HandlerRaises, Kinds, Resolvers
<1>8. ASSUME NEW c \in Resolvers, GoesOn(c) PROVE Inv'
  BY <1>8, SettleInv, TakeInv, ClaimStepInv DEF GoesOn
<1>9. CASE UNCHANGED taskVars
  BY <1>9 DEF taskVars, Inv, TaskTypeOK, CallInv, ClaimInv, ClaimsAreDisjoint, RaiseInv,
              WarnInv, WarningIsTrue, ResolvedByAny
<1> QED  BY <1>1, <1>2, <1>3, <1>4, <1>5, <1>6, <1>7, <1>8, <1>9 DEF TaskNext

LEMMA Invariance == TaskSpec => []Inv
  BY InitInv, NextInv, PTL DEF TaskSpec

\* The variables keep their types.
THEOREM TypeCorrect == TaskSpec => []TaskTypeOK
  BY Invariance, PTL DEF Inv

\* However many threads call ready(), discard() and retry() on one task, two
\* calls that claim their frames never both resolve a frame.
THEOREM LateCallsNeverOverlap == TaskSpec => []ClaimsAreDisjoint
<1>1. Inv => ClaimsAreDisjoint
  BY DEF Inv, ClaimInv
<1> QED  BY <1>1, Invariance, PTL

\* After a handler raised no frame of its batch is left unresolved.
THEOREM RaisingHandlerLosesNothing == TaskSpec => []RaiseResolvesEverything
<1>1. Inv => RaiseResolvesEverything
  BY DEF Inv, CallInv, RaiseInv, RaiseResolvesEverything, NothingUnderWay,
         ResolvedByAny, Through, Resolvers
<1> QED  BY <1>1, Invariance, PTL

\* What retry() reports as already resolved was resolved, by another call.
THEOREM WarningsAreTrue == TaskSpec => []WarningIsTrue
<1>1. Inv => WarningIsTrue
  BY DEF Inv, WarnInv
<1> QED  BY <1>1, Invariance, PTL

-----------------------------------------------------------------------------
(* Synchronous layers *)

UnderWay == {"called", "taking", "claiming"}

\* Calls come one after the other, so only the very first of all takes its
\* frames without claiming them, and the return value comes last.
SyncInv ==
  /\ \A c, d \in Resolvers : c # d /\ pc[c] \in UnderWay => pc[d] \notin UnderWay
  /\ \A c \in Resolvers : pc[c] # "idle" => kind[c] # "none"
  /\ \A c, d \in Resolvers : c # d /\ pc[c] = "taking" => pc[d] = "idle"
  /\ pc[Layer] # "idle" => \A c \in Calls : pc[c] \notin UnderWay
  /\ \A c \in Resolvers :
       pc[c] = "took" /\ kind[c] # "return" => resolved[c] \cap remaining = {}
  /\ kind[Layer] = "return" /\ pc[Layer] = "took"
       => \A c \in Calls : pc[c] = "idle"
  /\ kind[Layer] = "return" /\ pc[Layer] = "claimed" => resolved[Layer] = {}
  /\ EachFrameResolvedOnce

LEMMA SyncInit == TaskInit => SyncInv
  BY DEF TaskInit, SyncInv, UnderWay, Resolvers, EachFrameResolvedOnce

LEMMA SyncBegin ==
  ASSUME Inv, SyncInv, NEW c \in Resolvers, NEW k \in Kinds,
         NEW F \in SUBSET Nameable, Begin(c, k, F),
         NothingUnderWay, pc[Layer] = "idle"
  PROVE  SyncInv'
  BY LayerAssumption
  DEF Begin, Inv, TaskTypeOK, CallInv, SyncInv, UnderWay, EachFrameResolvedOnce,
      NothingUnderWay, Resolvers, Kinds

LEMMA SyncSettle ==
  ASSUME Inv, SyncInv, NEW c \in Resolvers, Settle(c)
  PROVE  SyncInv'
<1> USE DEF Settle, Inv, TaskTypeOK, SyncInv, Resolvers
<1>1. (\A d, e \in Resolvers : d # e /\ pc[d] \in UnderWay => pc[e] \notin UnderWay)'
  BY DEF UnderWay
<1>2. (\A d, e \in Resolvers : d # e /\ pc[d] = "taking" => pc[e] = "idle")'
  BY DEF UnderWay, CallInv, Decided
<1>3. (pc[Layer] # "idle" => \A d \in Calls : pc[d] \notin UnderWay)'
  BY DEF UnderWay
<1>4. EachFrameResolvedOnce'
  BY DEF EachFrameResolvedOnce
<1> QED  BY <1>1, <1>2, <1>3, <1>4, LayerAssumption

LEMMA SyncTake ==
  ASSUME Inv, SyncInv, NEW c \in Resolvers, Take(c)
  PROVE  SyncInv'
<1>1. \A d \in Resolvers :
        /\ pc'[d] = IF d = c THEN "took" ELSE pc[d]
        /\ resolved'[d] = IF d = c THEN named[c] \cap Batch ELSE resolved[d]
  BY DEF Take, Inv, TaskTypeOK
<1>2. \A d \in Resolvers \ {c} : pc[d] = "idle" /\ resolved[d] = {}
  BY DEF Take, Inv, CallInv, Through, SyncInv
<1>3. kind' = kind /\ (kind[c] # "return" => remaining' = remaining \ named[c])
  BY DEF Take
<1>4. EachFrameResolvedOnce'
  BY <1>1, <1>2 DEF EachFrameResolvedOnce
<1> QED  BY <1>1, <1>2, <1>3, <1>4, LayerAssumption
         DEF SyncInv, UnderWay, Resolvers, Take, Inv, CallInv

LEMMA SyncClaim ==
  ASSUME Inv, SyncInv, NEW c \in Resolvers, Claim(c)
  PROVE  SyncInv'
<1>1. \A d \in Resolvers :
        /\ pc'[d] = IF d = c THEN "claimed" ELSE pc[d]
        /\ resolved'[d] = IF d = c THEN Claims(c) ELSE resolved[d]
  BY DEF Claim, Claims, Inv, TaskTypeOK
<1>2. Claims(c) \subseteq remaining /\ remaining' = remaining \ Claims(c)
  BY DEF Claim, Claims
<1>3. kind' = kind /\ pc[c] = "claiming"
  BY DEF Claim
<1>4. ASSUME NEW d \in Resolvers \ {c}
      PROVE  Claims(c) \cap resolved[d] = {}
  <2>1. CASE pc[d] = "claimed"
    BY <2>1, <1>2 DEF Inv, ClaimInv
  <2>2. CASE pc[d] = "took" /\ kind[d] # "return"
    BY <2>2, <1>2 DEF SyncInv
  <2>3. CASE pc[d] = "took" /\ kind[d] = "return"
    BY <2>3, <1>3 DEF Inv, CallInv, SyncInv, Resolvers
  <2>4. CASE pc[d] \notin Through
    BY <2>4 DEF Inv, CallInv
  <2> QED  BY <2>1, <2>2, <2>3, <2>4 DEF Through
<1>5. EachFrameResolvedOnce'
  BY <1>1, <1>4 DEF EachFrameResolvedOnce, SyncInv
<1>6. kind[c] = "return" => Claims(c) = {}
  BY DEF Claims
<1> QED  BY <1>1, <1>2, <1>3, <1>5, <1>6, LayerAssumption
         DEF SyncInv, UnderWay, Resolvers

LEMMA SyncNext ==
  ASSUME Inv, ~asynchronous, SyncInv, [TaskNext]_taskVars
  PROVE  SyncInv'
<1>a. Batch \in SUBSET Nameable /\ remaining \in SUBSET Nameable
  BY BatchAssumption DEF Inv, TaskTypeOK
<1>1. ASSUME NEW c \in Calls,
             Ready(c) \/ ReadyAll(c) \/ Discard(c) \/ Retry(c) \/ RetryRest(c)
      PROVE  SyncInv'
  <2>1. c \in Resolvers /\ NothingUnderWay /\ pc[Layer] = "idle"
    BY <1>1 DEF Ready, ReadyAll, Discard, Retry, RetryRest, MayCall, Resolvers
  <2>2. PICK k \in Kinds, F \in SUBSET Nameable : Begin(c, k, F)
    BY <1>1, <1>a DEF Ready, ReadyAll, Discard, Retry, RetryRest, Kinds
  <2> QED  BY <2>1, <2>2, SyncBegin
<1>2. CASE HandlerReturns
  <2>1. PICK F \in SUBSET Nameable : Begin(Layer, "return", F)
    BY <1>2 DEF HandlerReturns
  <2> QED  BY <1>2, <2>1, SyncBegin DEF HandlerReturns, Kinds, Resolvers
<1>3. CASE HandlerRaises
  BY <1>3, <1>a, SyncBegin DEF HandlerRaises, Begin, Kinds, Resolvers
<1>4. ASSUME NEW c \in Resolvers, GoesOn(c) PROVE SyncInv'
  BY <1>4, SyncSettle, SyncTake, SyncClaim DEF GoesOn
<1>5. CASE UNCHANGED taskVars
  BY <1>5 DEF taskVars, SyncInv, EachFrameResolvedOnce
<1> QED  BY <1>1, <1>2, <1>3, <1>4, <1>5 DEF TaskNext

LEMMA KindOfLayerStays == [TaskNext]_taskVars => asynchronous' = asynchronous
  BY DEF TaskNext, taskVars, Ready, ReadyAll, Discard, Retry, RetryRest, Begin,
         HandlerReturns, HandlerRaises, GoesOn, Settle, Take, Claim

LEMMA SyncInvariance == TaskSpec => [](~asynchronous => SyncInv)
<1>1. Inv /\ (~asynchronous => SyncInv) /\ [TaskNext]_taskVars => (~asynchronous => SyncInv)'
  BY SyncNext, KindOfLayerStays
<1> QED  BY <1>1, SyncInit, Invariance, PTL DEF TaskSpec

\* With a synchronous handler no frame is handed on by two resolutions: not by
\* two calls, nor by a call and the return value or the abort.
THEOREM SynchronousHandlersResolveOnce == TaskSpec => []SynchronousOnce
<1>1. (~asynchronous => SyncInv) => SynchronousOnce
  BY DEF SyncInv, SynchronousOnce
<1> QED  BY <1>1, SyncInvariance, PTL

\* The layer goes on with what a handler returned only if the handler resolved
\* nothing itself.
THEOREM ManualWins == TaskSpec => []ManualResolutionWins
<1>1. Inv /\ (~asynchronous => SyncInv) => ManualResolutionWins
  BY DEF Inv, CallInv, SyncInv, ManualResolutionWins, Resolvers, Through
<1> QED  BY <1>1, Invariance, SyncInvariance, PTL

-----------------------------------------------------------------------------
(* Executions *)

Runs ==
  [phase : {"layer", "finish"}, stage : Stages, todo : SUBSET Frames, task : SUBSET Frames,
   manual : BOOLEAN, awaited : BOOLEAN, named : SUBSET Frames, telling : SUBSET Frames,
   aborting : BOOLEAN, proceed : SUBSET Frames, sent : SUBSET Frames]

FramesOf(b) == {f \in setup.frames : home[f] = b}

\* The frames whose owners an execution has still to tell of an outcome.
Live(r) == r.todo \cup r.task \cup r.telling \cup r.proceed \cup r.sent

\* A frame is in one place of an execution ...
Apart(r) ==
  /\ r.todo \cap (r.task \cup r.telling \cup r.proceed \cup r.sent) = {}
  /\ r.task \cap (r.telling \cup r.proceed \cup r.sent) = {}
  /\ r.telling \cap (r.proceed \cup r.sent) = {}
  /\ r.proceed \cap r.sent = {}

\* ... that has to do with what the execution is at.
WellFormed(b, r) ==
  /\ r \in Runs /\ Apart(r) /\ Live(r) \subseteq FramesOf(b)
  /\ r.stage \in {"queued", "next"} => r.task = {}
  /\ r.stage # "telling" => r.telling = {}
  /\ r.telling \subseteq r.named
  /\ r.stage = "telling" /\ r.aborting => r.task = {}
  /\ r.phase = "finish" => r.proceed = {} /\ r.sent = {}
  /\ r.stage = "ended" => Live(r) = {}

RunInv ==
  /\ setup \in Setups
  /\ home \in [Frames -> Batches] /\ left \subseteq Frames
  /\ run \in [Batches -> Runs]
  /\ \A b \in Batches : WellFormed(b, run[b])
  /\ retrying \subseteq setup.frames
  /\ \A f \in retrying : f \notin Live(run[home[f]])
  /\ heard \in [Frames -> SUBSET {"ready", "discarded"}]
  /\ torn \in [Frames -> Nat]
  /\ advanced \subseteq Frames

\* Every frame is with its execution, or on its way to one, or its handler left it, or
\* its owner has heard of it.
FateInv ==
  setup.discardRaises = {} =>
    \A f \in setup.frames :
      \/ f \in Live(run[home[f]]) \cup retrying \cup left
      \/ heard[f] # {} /\ torn[f] > 0

\* Nobody hears that a frame was discarded before it has left its execution ...
UnheardInv ==
  \A f \in Frames : f \in Live(run[home[f]]) \cup retrying => "discarded" \notin heard[f]

\* ... and the layers behind know of it, or are the next to know.
AdvancedInv ==
  setup.discardRaises = {} =>
    \A f \in Frames :
      "discarded" \in heard[f] =>
        f \in advanced \/ (run[home[f]].stage = "telling" /\ f \in run[home[f]].named)

\* Who has heard of a frame was told once, and nobody of one that is still with
\* its execution.
OnceInv ==
  \A f \in Frames : f.owner \notin setup.readyRaises =>
    /\ f \in Live(run[home[f]]) \cup retrying => heard[f] = {} /\ torn[f] = 0
    /\ torn[f] <= 1 /\ \E outcome \in {"ready", "discarded"} : heard[f] \subseteq {outcome}

ExecutionInv == RunInv /\ FateInv /\ UnheardInv /\ AdvancedInv /\ OnceInv

-----------------------------------------------------------------------------
(* Steps of an execution *)

\* A step takes execution b to `to': the frames of `told' hear of `outcome', those
\* of `counted' are counted out.
Does(b, to, told, counted, outcome) ==
  /\ UNCHANGED <<setup, home>> /\ advanced \subseteq advanced' /\ advanced' \subseteq Frames
  /\ left \subseteq left' /\ left' \subseteq Frames
  /\ retrying \subseteq retrying' /\ retrying' \subseteq retrying \cup Live(run[b])
  /\ retrying' \cap Live(to) = {} /\ retrying' \cap counted = {}
  /\ run' = [run EXCEPT ![b] = to] /\ WellFormed(b, to)
  /\ outcome \in {"ready", "discarded"} /\ Hears(told, outcome) /\ Tears(counted)
  /\ told \subseteq counted /\ counted \subseteq Live(run[b])
  /\ Live(to) \subseteq Live(run[b])
  /\ \/ counted \cap Live(to) = {}
     \/ outcome = "ready" /\ \A f \in counted : f.owner \in setup.readyRaises
  /\ setup.discardRaises = {} =>
       /\ Live(run[b]) \subseteq Live(to) \cup told \cup retrying' \cup left'
       /\ run[b].stage = "telling" =>
            \/ run[b].named \subseteq advanced'
            \/ to.stage = "telling" /\ to.named = run[b].named
       /\ outcome = "discarded" /\ told # {} => to.stage = "telling" /\ told \subseteq to.named

\* One by which nobody hears of anything.
Quietly(b, to) ==
  /\ UNCHANGED <<setup, home, retrying, left, heard, torn>>
  /\ advanced \subseteq advanced' /\ advanced' \subseteq Frames
  /\ run' = [run EXCEPT ![b] = to] /\ WellFormed(b, to)
  /\ Live(to) = Live(run[b])
  /\ setup.discardRaises = {} /\ run[b].stage = "telling" => run[b].named \subseteq advanced'

Moves(b) ==
  \E to \in Runs, told \in SUBSET Frames, counted \in SUBSET Frames,
     outcome \in {"ready", "discarded"} : Does(b, to, told, counted, outcome)

LEMMA SetupFrames ==
  ASSUME RunInv
  PROVE  setup.frames \subseteq Frames
  BY SetupsAssumption DEF RunInv

LEMMA RunFacts ==
  ASSUME RunInv, NEW b \in Batches
  PROVE  /\ run[b] \in Runs /\ WellFormed(b, run[b])
         /\ Live(run[b]) \subseteq Frames
         /\ \A to : [run EXCEPT ![b] = to] = [c \in Batches |-> IF c = b THEN to ELSE run[c]]
  BY SetupFrames DEF RunInv, WellFormed, FramesOf

\* What is to be retried is in no execution.
LEMMA NotLive ==
  ASSUME RunInv, NEW b \in Batches
  PROVE  retrying \cap Live(run[b]) = {}
  BY RunFacts DEF RunInv, WellFormed, FramesOf

LEMMA QuietlyMoves ==
  ASSUME RunInv, NEW b \in Batches, NEW to, Quietly(b, to)
  PROVE  Moves(b)
<1>1. heard' = [f \in Frames |-> heard[f]] /\ torn' = [f \in Frames |-> torn[f]]
  BY DEF RunInv, Quietly
<1>2. Hears({}, "ready") /\ Tears({})
  BY <1>1 DEF Hears, Tears
<1>3. Does(b, to, {}, {}, "ready")
  BY <1>2, NotLive DEF Does, Quietly, RunInv
<1>4. to \in Runs
  BY DEF Quietly, WellFormed
<1> QED  BY <1>3, <1>4 DEF Moves

\* Over leaves the frames that were pushed, and an execution of the finish layer
\* that has nothing else.
LEMMA OverIs ==
  ASSUME RunInv, NEW b \in Batches, NEW pushed \in SUBSET run[b].proceed
  PROVE  LET to == Over(run[b], pushed)
         IN /\ WellFormed(b, to)
            /\ Live(to) \subseteq run[b].sent \cup pushed
            /\ run[b].phase = "layer" => Live(to) = run[b].sent \cup pushed
<1> DEFINE r == run[b]
           to == Over(r, pushed)
           sent == r.sent \cup pushed
           rest == [r EXCEPT !.task = {}, !.telling = {}, !.proceed = {}, !.sent = {}]
<1>1. r \in Runs /\ WellFormed(b, r)
  BY RunFacts
<1>2. to = IF r.phase = "layer" /\ sent # {}
           THEN [rest EXCEPT !.phase = "finish", !.stage = "queued", !.todo = sent]
           ELSE [rest EXCEPT !.stage = "ended", !.todo = {}]
  BY DEF Over
<1>3. sent \subseteq FramesOf(b) /\ sent \subseteq Frames
  BY <1>1, SetupFrames DEF WellFormed, Live, FramesOf
<1> HIDE DEF r, to, sent
<1>4. CASE r.phase = "layer" /\ sent # {}
  <2>1. /\ to \in Runs /\ to.todo = sent /\ to.stage = "queued" /\ to.phase = "finish"
        /\ to.task = {} /\ to.telling = {} /\ to.proceed = {} /\ to.sent = {}
    BY <1>1, <1>2, <1>3, <1>4 DEF Runs, Stages
  <2>2. Live(to) = sent
    BY <2>1 DEF Live
  <2> QED  BY <1>3, <2>1, <2>2 DEF WellFormed, Apart, r, to, sent
<1>5. CASE ~(r.phase = "layer" /\ sent # {})
  <2>1. /\ to \in Runs /\ to.todo = {} /\ to.stage = "ended"
        /\ to.task = {} /\ to.telling = {} /\ to.proceed = {} /\ to.sent = {}
    BY <1>1, <1>2, <1>5 DEF Runs, Stages
  <2>2. Live(to) = {}
    BY <2>1 DEF Live
  <2> QED  BY <1>3, <1>5, <2>1, <2>2 DEF WellFormed, Apart, r, to, sent
<1> QED  BY <1>4, <1>5

\* abort() is about what is left of the task.
LEMMA AbortIs ==
  ASSUME RunInv, NEW b \in Batches, run[b].stage \in {"handling", "telling"}
  PROVE  LET to == Abort(run[b])
         IN /\ WellFormed(b, to)
            /\ Live(to) = Live(run[b]) \ run[b].telling
            /\ to.stage = "telling" \/ run[b].task = {}
            /\ to.named = run[b].task /\ to.telling = run[b].task
<1> DEFINE r == run[b]
           to == Abort(r)
<1>1. r \in Runs /\ WellFormed(b, r)
  BY RunFacts
<1>2. to = [r EXCEPT !.stage = IF r.task = {} THEN "next" ELSE "telling", !.task = {},
                     !.named = r.task, !.telling = r.task, !.aborting = TRUE]
  BY DEF Abort
<1> HIDE DEF r, to
<1>3. /\ to \in Runs /\ to.todo = r.todo /\ to.task = {} /\ to.telling = r.task
      /\ to.named = r.task /\ to.proceed = r.proceed /\ to.sent = r.sent /\ to.phase = r.phase
      /\ to.stage = IF r.task = {} THEN "next" ELSE "telling"
  BY <1>1, <1>2 DEF Runs, Stages
<1>4. Live(to) = Live(r) \ r.telling
  BY <1>1, <1>3 DEF WellFormed, Apart, Live
<1>5. WellFormed(b, to)
  BY <1>1, <1>3, <1>4 DEF WellFormed, Apart
<1> QED  BY <1>3, <1>4, <1>5 DEF r, to

LEMMA TakesMoves ==
  ASSUME RunInv, NEW b \in Batches, Takes(b)
  PROVE  Moves(b)
<1> DEFINE r == run[b]
           to == [r EXCEPT !.stage = "next"]
<1>1. r \in Runs /\ WellFormed(b, r)
  BY RunFacts
<1>2. /\ run' = [run EXCEPT ![b] = to] /\ r.stage = "queued"
      /\ UNCHANGED <<setup, home, retrying, left, heard, torn, advanced>>
  BY DEF Takes, Becomes, outcomes, returned
<1>3. /\ to \in Runs /\ to.todo = r.todo /\ to.task = r.task /\ to.telling = r.telling
      /\ to.named = r.named /\ to.proceed = r.proceed /\ to.sent = r.sent
      /\ to.phase = r.phase /\ to.stage = "next"
  BY <1>1 DEF Runs, Stages
<1> HIDE DEF r, to
<1>4. Live(to) = Live(r)
  BY <1>3 DEF Live
<1>5. WellFormed(b, to)
  BY <1>1, <1>2, <1>3, <1>4 DEF WellFormed, Apart
<1>6. Quietly(b, to)
  BY <1>2, <1>4, <1>5 DEF Quietly, RunInv, r
<1> QED  BY <1>6, QuietlyMoves

LEMMA HandlesMoves ==
  ASSUME RunInv, NEW b \in Batches, NEW o \in Owners, Handles(b, o)
  PROVE  Moves(b)
<1> DEFINE r == run[b]
           F == IF setup.shared /\ r.phase = "layer" THEN r.todo ELSE Of(o, r.todo)
           to == [r EXCEPT !.stage = "handling", !.todo = @ \ F, !.task = F,
                           !.manual = FALSE, !.awaited = FALSE]
<1>1. r \in Runs /\ WellFormed(b, r)
  BY RunFacts
<1>2. /\ run' = [run EXCEPT ![b] = to] /\ r.stage = "next"
      /\ UNCHANGED <<setup, home, retrying, left, heard, torn, advanced>>
  BY DEF Handles, Becomes, outcomes, returned
<1>3. F \subseteq r.todo
  BY DEF Of
<1> HIDE DEF F
<1>4. /\ to \in Runs /\ to.todo = r.todo \ F /\ to.task = F /\ to.telling = r.telling
      /\ to.named = r.named /\ to.proceed = r.proceed /\ to.sent = r.sent
      /\ to.phase = r.phase /\ to.stage = "handling"
  BY <1>1, <1>3 DEF Runs, Stages
<1> HIDE DEF r, to
<1>5. Live(to) = Live(r)
  BY <1>1, <1>2, <1>3, <1>4 DEF Live, WellFormed
<1>6. WellFormed(b, to)
  BY <1>1, <1>2, <1>3, <1>4, <1>5 DEF WellFormed, Apart
<1>7. Quietly(b, to)
  BY <1>2, <1>5, <1>6 DEF Quietly, RunInv, r
<1> QED  BY <1>7, QuietlyMoves

LEMMA EndsMoves ==
  ASSUME RunInv, NEW b \in Batches, Ends(b)
  PROVE  Moves(b)
<1> DEFINE r == run[b]
           to == Over(r, r.proceed)
<1>1. r \in Runs /\ WellFormed(b, r)
  BY RunFacts
<1>2. /\ run' = [run EXCEPT ![b] = to] /\ r.stage = "next" /\ r.todo = {}
      /\ UNCHANGED <<setup, home, retrying, left, heard, torn, advanced>>
  BY DEF Ends, Becomes, outcomes, returned
<1>3. /\ WellFormed(b, to) /\ Live(to) \subseteq r.sent \cup r.proceed
      /\ r.phase = "layer" => Live(to) = r.sent \cup r.proceed
  BY OverIs
<1> HIDE DEF r, to
<1>4. r.task = {} /\ r.telling = {} /\ Live(r) = r.sent \cup r.proceed
  BY <1>1, <1>2 DEF WellFormed, Live
<1>5. r.phase = "layer" \/ r.sent \cup r.proceed = {}
  BY <1>1 DEF WellFormed, Runs
<1>6. Live(to) = Live(r)
  BY <1>3, <1>4, <1>5
<1>7. Quietly(b, to)
  BY <1>2, <1>3, <1>6 DEF Quietly, RunInv, r
<1> QED  BY <1>7, QuietlyMoves

-----------------------------------------------------------------------------
(* A handler's steps *)

LEMMA AwaitsMoves ==
  ASSUME RunInv, NEW b \in Batches, NEW consults, Awaits(b, consults)
  PROVE  Moves(b)
<1> DEFINE r == run[b]
           to == [r EXCEPT !.awaited = TRUE]
<1>1. r \in Runs /\ WellFormed(b, r)
  BY RunFacts
<1>2. /\ run' = [run EXCEPT ![b] = to] /\ r.stage = "handling"
      /\ UNCHANGED <<setup, home, retrying, left, heard, torn, advanced>>
  BY DEF Awaits, Running, Becomes, outcomes, returned
<1>3. /\ to \in Runs /\ to.todo = r.todo /\ to.task = r.task /\ to.telling = r.telling
      /\ to.named = r.named /\ to.proceed = r.proceed /\ to.sent = r.sent
      /\ to.phase = r.phase /\ to.stage = "handling"
  BY <1>1, <1>2 DEF Runs
<1> HIDE DEF r, to
<1>4. Live(to) = Live(r)
  BY <1>3 DEF Live
<1>5. WellFormed(b, to)
  BY <1>1, <1>2, <1>3, <1>4 DEF WellFormed, Apart
<1>6. Quietly(b, to)
  BY <1>2, <1>4, <1>5 DEF Quietly, RunInv, r
<1> QED  BY <1>6, QuietlyMoves

LEMMA ReadiesMoves ==
  ASSUME RunInv, NEW b \in Batches, NEW F, Readies(b, F)
  PROVE  Moves(b)
<1> DEFINE r == run[b]
           to == [r EXCEPT !.task = @ \ F, !.manual = TRUE, !.sent = @ \cup F]
<1>1. r \in Runs /\ WellFormed(b, r)
  BY RunFacts
<1>2. /\ run' = [run EXCEPT ![b] = to] /\ r.stage = "handling" /\ r.phase = "layer"
      /\ F \subseteq r.task /\ UNCHANGED <<setup, home, retrying, left, heard, torn, advanced>>
  BY DEF Readies, Running, Becomes, outcomes, returned
<1>3. /\ to \in Runs /\ to.todo = r.todo /\ to.task = r.task \ F /\ to.telling = r.telling
      /\ to.named = r.named /\ to.proceed = r.proceed /\ to.sent = r.sent \cup F
      /\ to.phase = r.phase /\ to.stage = "handling"
  BY <1>1, <1>2 DEF Runs
<1> HIDE DEF r, to
<1>4. Live(to) = Live(r)
  BY <1>2, <1>3 DEF Live
<1>5. WellFormed(b, to)
  BY <1>1, <1>2, <1>3, <1>4 DEF WellFormed, Apart
<1>6. Quietly(b, to)
  BY <1>2, <1>4, <1>5 DEF Quietly, RunInv, r
<1> QED  BY <1>6, QuietlyMoves

LEMMA DiscardsMoves ==
  ASSUME RunInv, NEW b \in Batches, NEW F, Discards(b, F)
  PROVE  Moves(b)
<1> DEFINE r == run[b]
           to == [r EXCEPT !.task = @ \ F, !.manual = TRUE, !.stage = "telling",
                           !.named = F, !.telling = F, !.aborting = FALSE]
<1>1. r \in Runs /\ WellFormed(b, r)
  BY RunFacts
<1>2. /\ run' = [run EXCEPT ![b] = to] /\ r.stage = "handling" /\ r.phase = "layer"
      /\ F \subseteq r.task /\ UNCHANGED <<setup, home, retrying, left, heard, torn, advanced>>
  BY DEF Discards, Running, Becomes, outcomes, returned
<1>3. /\ to \in Runs /\ to.todo = r.todo /\ to.task = r.task \ F /\ to.telling = F
      /\ to.named = F /\ to.proceed = r.proceed /\ to.sent = r.sent
      /\ to.phase = r.phase /\ to.stage = "telling" /\ to.aborting = FALSE
  BY <1>1, <1>2 DEF Runs, Stages
<1> HIDE DEF r, to
<1>4. r.telling = {}
  BY <1>1, <1>2 DEF WellFormed
<1>5. Live(to) = Live(r)
  BY <1>2, <1>3, <1>4 DEF Live
<1>6. WellFormed(b, to)
  BY <1>1, <1>2, <1>3, <1>5 DEF WellFormed, Apart
<1>7. Quietly(b, to)
  BY <1>2, <1>5, <1>6 DEF Quietly, RunInv, r
<1> QED  BY <1>7, QuietlyMoves

LEMMA HasRetriedMoves ==
  ASSUME RunInv, NEW b \in Batches, NEW F, HasRetried(b, F)
  PROVE  Moves(b)
<1> DEFINE r == run[b]
           to == [r EXCEPT !.task = @ \ F, !.manual = TRUE]
<1>1. r \in Runs /\ WellFormed(b, r) /\ Live(r) \subseteq Frames
  BY RunFacts
<1>2. /\ run' = [run EXCEPT ![b] = to] /\ r.stage = "handling" /\ r.phase = "layer"
      /\ F \subseteq r.task /\ retrying' = retrying \cup F
      /\ UNCHANGED <<setup, home, left, heard, torn, advanced>>
  BY DEF HasRetried, Running, Becomes, outcomes
<1>3. /\ to \in Runs /\ to.todo = r.todo /\ to.task = r.task \ F /\ to.telling = r.telling
      /\ to.named = r.named /\ to.proceed = r.proceed /\ to.sent = r.sent
      /\ to.phase = r.phase /\ to.stage = "handling"
  BY <1>1, <1>2 DEF Runs
<1>4. retrying \cap Live(r) = {}
  BY NotLive
<1> HIDE DEF r, to
<1>5. Live(to) = Live(r) \ F /\ F \subseteq Live(r)
  BY <1>1, <1>2, <1>3 DEF Live, WellFormed, Apart
<1>6. WellFormed(b, to)
  BY <1>1, <1>2, <1>3, <1>5 DEF WellFormed, Apart
<1>7. /\ Hears({}, "ready") /\ Tears({}) /\ advanced \subseteq Frames /\ left \subseteq Frames
  BY <1>2 DEF Hears, Tears, RunInv
<1>8. Does(b, to, {}, {}, "ready")
  BY <1>2, <1>4, <1>5, <1>6, <1>7 DEF Does, r
<1> QED  BY <1>3, <1>8 DEF Moves

LEMMA ReturnsMoves ==
  ASSUME RunInv, NEW b \in Batches, NEW F, Returns(b, F)
  PROVE  Moves(b)
<1> DEFINE r == run[b]
           to == [r EXCEPT !.stage = "next", !.task = {}, !.proceed = @ \cup F]
<1>1. r \in Runs /\ WellFormed(b, r) /\ Live(r) \subseteq Frames
  BY RunFacts
<1>2. /\ run' = [run EXCEPT ![b] = to] /\ r.stage = "handling" /\ r.phase = "layer"
      /\ F \subseteq r.task /\ left' = left \cup (r.task \ F)
      /\ UNCHANGED <<setup, home, retrying, heard, torn, advanced>>
  BY DEF Returns, Running, Becomes, outcomes
<1>3. /\ to \in Runs /\ to.todo = r.todo /\ to.task = {} /\ to.telling = r.telling
      /\ to.named = r.named /\ to.proceed = r.proceed \cup F /\ to.sent = r.sent
      /\ to.phase = r.phase /\ to.stage = "next"
  BY <1>1, <1>2 DEF Runs, Stages
<1>4. retrying \cap Live(r) = {}
  BY NotLive
<1> HIDE DEF r, to
<1>5. Live(to) = Live(r) \ (r.task \ F) /\ r.task \subseteq Live(r)
  BY <1>1, <1>2, <1>3 DEF Live, WellFormed, Apart
<1>6. WellFormed(b, to)
  BY <1>1, <1>2, <1>3, <1>5 DEF WellFormed, Apart
<1>7. /\ Hears({}, "ready") /\ Tears({}) /\ advanced \subseteq Frames /\ left \subseteq Frames
  BY <1>2 DEF Hears, Tears, RunInv
<1>8. Does(b, to, {}, {}, "ready")
  BY <1>1, <1>2, <1>4, <1>5, <1>6, <1>7 DEF Does, r
<1> QED  BY <1>3, <1>8 DEF Moves

LEMMA RaisesMoves ==
  ASSUME RunInv, NEW b \in Batches, Raises(b)
  PROVE  Moves(b)
<1> DEFINE r == run[b]
           to == Abort(r)
<1>1. r \in Runs /\ WellFormed(b, r)
  BY RunFacts
<1>2. /\ run' = [run EXCEPT ![b] = to] /\ r.stage = "handling"
      /\ UNCHANGED <<setup, home, retrying, left, heard, torn, advanced>>
  BY DEF Raises, Running, Becomes, outcomes, returned
<1>3. WellFormed(b, to) /\ Live(to) = Live(r) \ r.telling
  BY <1>2, AbortIs
<1>4. Live(to) = Live(r)
  BY <1>1, <1>2, <1>3 DEF WellFormed
<1> HIDE DEF r, to
<1>5. Quietly(b, to)
  BY <1>2, <1>3, <1>4 DEF Quietly, RunInv, r
<1> QED  BY <1>5, QuietlyMoves

-----------------------------------------------------------------------------
(* Telling the owners *)

LEMMA TellsMoves ==
  ASSUME RunInv, NEW b \in Batches, NEW o \in Owners, Tells(b, o)
  PROVE  Moves(b)
<1> DEFINE r == run[b]
           F == Of(o, r.telling)
           to == [r EXCEPT !.telling = @ \ F]
<1>1. r \in Runs /\ WellFormed(b, r) /\ Live(r) \subseteq Frames
  BY RunFacts
<1>2. /\ run' = [run EXCEPT ![b] = to] /\ r.stage = "telling"
      /\ Hears(F, "discarded") /\ Tears(F) /\ UNCHANGED <<setup, home, retrying, left, advanced>>
  BY DEF Tells, Becomes, returned
<1>3. F \subseteq r.telling
  BY DEF Of
<1> HIDE DEF F
<1>4. /\ to \in Runs /\ to.todo = r.todo /\ to.task = r.task /\ to.telling = r.telling \ F
      /\ to.named = r.named /\ to.proceed = r.proceed /\ to.sent = r.sent
      /\ to.phase = r.phase /\ to.stage = "telling" /\ to.aborting = r.aborting
  BY <1>1, <1>2 DEF Runs
<1> HIDE DEF r, to
<1>5. /\ Live(to) = Live(r) \ F /\ F \subseteq Live(r) /\ F \subseteq r.named
  BY <1>1, <1>3, <1>4 DEF Live, WellFormed, Apart
<1>6. WellFormed(b, to)
  BY <1>1, <1>2, <1>4, <1>5 DEF WellFormed, Apart
<1>7. Does(b, to, F, F, "discarded")
  BY <1>2, <1>4, <1>5, <1>6, NotLive DEF Does, RunInv, r
<1> QED  BY <1>1, <1>4, <1>5, <1>7 DEF Moves

LEMMA AdvancesMoves ==
  ASSUME RunInv, NEW b \in Batches, Advances(b)
  PROVE  Moves(b)
<1> DEFINE r == run[b]
           to == [r EXCEPT !.stage = IF r.aborting THEN "next" ELSE "handling"]
<1>1. r \in Runs /\ WellFormed(b, r)
  BY RunFacts
<1>2. /\ run' = [run EXCEPT ![b] = to] /\ r.stage = "telling" /\ r.telling = {}
      /\ UNCHANGED <<setup, home, retrying, left, heard, torn>>
      /\ advanced' = advanced \cup r.named
  BY DEF Advances, Becomes, returned
<1>3. /\ to \in Runs /\ to.todo = r.todo /\ to.task = r.task /\ to.telling = {}
      /\ to.named = r.named /\ to.proceed = r.proceed /\ to.sent = r.sent
      /\ to.phase = r.phase /\ to.stage \in {"next", "handling"}
      /\ to.stage = "next" => r.aborting
      /\ r.named \subseteq Frames
  BY <1>1, <1>2 DEF Runs, Stages
<1> HIDE DEF r, to
<1>4. Live(to) = Live(r)
  BY <1>2, <1>3 DEF Live
<1>5. WellFormed(b, to)
  BY <1>1, <1>2, <1>3, <1>4 DEF WellFormed, Apart
<1>6. Quietly(b, to)
  BY <1>2, <1>3, <1>4, <1>5 DEF Quietly, RunInv, r
<1> QED  BY <1>6, QuietlyMoves

\* A discard callback that raises: some hear of it, and the rest never.
LEMMA TellingRaisesMoves ==
  ASSUME RunInv, NEW b \in Batches, NEW o \in Owners, NEW n, NEW caught \in BOOLEAN,
         TellingRaises(b, o, n, caught)
  PROVE  Moves(b)
<1> DEFINE r == run[b]
           F == Of(o, r.telling)
           told == UpTo(n, F)
           to == CASE r.aborting -> Over(r, {})
                   [] caught -> [r EXCEPT !.stage = "handling", !.telling = {}]
                   [] OTHER -> Abort(r)
<1>1. r \in Runs /\ WellFormed(b, r) /\ Live(r) \subseteq Frames
  BY RunFacts
<1>2. /\ run' = [run EXCEPT ![b] = to] /\ r.stage = "telling" /\ setup.discardRaises # {}
      /\ Hears(told, "discarded") /\ Tears(F) /\ UNCHANGED <<setup, home, retrying, left, advanced>>
      /\ caught => ~r.aborting
  BY DEF TellingRaises, Becomes, returned
<1>3. told \subseteq F /\ F \subseteq r.telling
  BY DEF Of, UpTo
<1> HIDE DEF F, told
<1>4. WellFormed(b, to) /\ Live(to) \subseteq Live(r) \ r.telling
  <2>1. CASE r.aborting
    <3>1. to = Over(r, {})
      BY <1>2, <2>1
    <3>2. WellFormed(b, Over(r, {})) /\ Live(Over(r, {})) \subseteq r.sent
      BY OverIs
    <3> QED  BY <1>1, <3>1, <3>2 DEF WellFormed, Apart, Live
  <2>2. CASE ~r.aborting /\ caught
    <3> DEFINE t == [r EXCEPT !.stage = "handling", !.telling = {}]
    <3>1. to = t
      BY <2>2
    <3>2. /\ t \in Runs /\ t.todo = r.todo /\ t.task = r.task /\ t.telling = {}
          /\ t.named = r.named /\ t.proceed = r.proceed /\ t.sent = r.sent
          /\ t.phase = r.phase /\ t.stage = "handling"
      BY <1>1 DEF Runs, Stages
    <3> HIDE DEF r, t, to
    <3>3. Live(t) = Live(r) \ r.telling
      BY <1>1, <3>2 DEF WellFormed, Apart, Live
    <3>4. WellFormed(b, t)
      BY <1>1, <3>2, <3>3 DEF WellFormed, Apart
    <3> QED  BY <3>1, <3>3, <3>4
  <2>3. CASE ~r.aborting /\ ~caught
    <3>1. to = Abort(r)
      BY <2>3
    <3>2. WellFormed(b, Abort(r)) /\ Live(Abort(r)) = Live(r) \ r.telling
      BY <1>2, AbortIs
    <3> QED  BY <3>1, <3>2
  <2> QED  BY <2>1, <2>2, <2>3
<1> HIDE DEF r, to
<1>5. r.telling \subseteq Live(r)
  BY DEF Live
<1>6. Does(b, to, told, F, "discarded")
  BY <1>2, <1>3, <1>4, <1>5, NotLive DEF Does, RunInv, r
<1>7. to \in Runs /\ F \in SUBSET Frames /\ told \in SUBSET Frames
  BY <1>1, <1>3, <1>4, <1>5 DEF WellFormed
<1> QED  BY <1>6, <1>7 DEF Moves

-----------------------------------------------------------------------------
(* The finish handler *)

LEMMA FinishesMoves ==
  ASSUME RunInv, NEW b \in Batches, Finishes(b)
  PROVE  Moves(b)
<1> DEFINE r == run[b]
           to == [r EXCEPT !.stage = "next", !.task = {}]
<1>1. r \in Runs /\ WellFormed(b, r) /\ Live(r) \subseteq Frames
  BY RunFacts
<1>2. /\ run' = [run EXCEPT ![b] = to] /\ r.stage = "handling"
      /\ UNCHANGED <<setup, home, retrying, left, advanced>>
      /\ Hears(r.task, "ready") /\ Tears(r.task)
  BY DEF Finishes, Finishing, Becomes, returned
<1>3. /\ to \in Runs /\ to.todo = r.todo /\ to.task = {} /\ to.telling = r.telling
      /\ to.named = r.named /\ to.proceed = r.proceed /\ to.sent = r.sent
      /\ to.phase = r.phase /\ to.stage = "next"
  BY <1>1 DEF Runs, Stages
<1> HIDE DEF r, to
<1>4. Live(to) = Live(r) \ r.task /\ r.task \subseteq Live(r)
  BY <1>1, <1>3 DEF Live, WellFormed, Apart
<1>5. WellFormed(b, to)
  BY <1>1, <1>2, <1>3, <1>4 DEF WellFormed, Apart
<1>6. Does(b, to, r.task, r.task, "ready")
  BY <1>2, <1>4, <1>5, NotLive DEF Does, RunInv, r
<1> QED  BY <1>1, <1>3, <1>4, <1>6 DEF Moves

LEMMA FinishRaisesMoves ==
  ASSUME RunInv, NEW b \in Batches, NEW n, FinishRaises(b, n)
  PROVE  Moves(b)
<1> DEFINE r == run[b]
           told == UpTo(n, r.task)
           to == Abort(r)
<1>1. r \in Runs /\ WellFormed(b, r) /\ Live(r) \subseteq Frames
  BY RunFacts
<1>2. /\ run' = [run EXCEPT ![b] = to] /\ r.stage = "handling"
      /\ UNCHANGED <<setup, home, retrying, left, advanced>>
      /\ Hears(told, "ready") /\ Tears(r.task)
  BY DEF FinishRaises, Finishing, Becomes, returned
<1>3. told \subseteq r.task /\ \A f \in r.task : f.owner \in setup.readyRaises
  BY DEF FinishRaises, UpTo, OwnersOf
<1>4. WellFormed(b, to) /\ Live(to) = Live(r) \ r.telling /\ r.telling = {}
  BY <1>1, <1>2, AbortIs DEF WellFormed
<1> HIDE DEF r, to, told
<1>5. Live(to) = Live(r) /\ r.task \subseteq Live(r)
  BY <1>4 DEF Live
<1>6. Does(b, to, told, r.task, "ready")
  BY <1>2, <1>3, <1>4, <1>5, NotLive DEF Does, RunInv, r
<1>7. to \in Runs /\ r.task \in SUBSET Frames /\ told \in SUBSET Frames
  BY <1>1, <1>3, <1>4, <1>5 DEF WellFormed
<1> QED  BY <1>6, <1>7 DEF Moves

LEMMA StepMoves ==
  ASSUME RunInv, [Next]_vars
  PROVE  \/ UNCHANGED <<setup, home, retrying, left, run, heard, torn, advanced>>
         \/ \E b \in Batches : Moves(b)
         \/ \E b \in Batches, F \in SUBSET retrying : Rejoins(b, F)
<1>1. ASSUME NEW b \in Batches, Resumes(b) \/ Helps(b)
      PROVE  UNCHANGED <<setup, home, retrying, left, run, heard, torn, advanced>>
  BY <1>1 DEF Resumes, Helps, outcomes, returned
<1>2. ASSUME NEW b \in Batches, Handler(b), ~Resumes(b) PROVE Moves(b)
  BY <1>2, AwaitsMoves, ReadiesMoves, DiscardsMoves, HasRetriedMoves, ReturnsMoves, RaisesMoves
     DEF Handler
<1>3. ASSUME NEW b \in Batches, Telling(b) PROVE Moves(b)
  BY <1>3, TellsMoves, AdvancesMoves, TellingRaisesMoves DEF Telling
<1>4. ASSUME NEW b \in Batches, Finish(b) PROVE Moves(b)
  BY <1>4, FinishesMoves, FinishRaisesMoves DEF Finish
<1>5. CASE UNCHANGED vars
  BY <1>5 DEF vars, returned
<1> QED  BY <1>1, <1>2, <1>3, <1>4, <1>5, TakesMoves, HandlesMoves, EndsMoves
         DEF Next, Continue, Resubmits


-----------------------------------------------------------------------------
(* The invariant *)

LEMMA QueuedFacts ==
  ASSUME NEW F \in SUBSET Frames
  PROVE  LET q == Queued(F)
         IN /\ q \in Runs /\ Apart(q) /\ Live(q) = F /\ q.stage # "telling"
            /\ q.task = {} /\ q.telling = {} /\ q.phase = "layer"
            /\ q.stage = "ended" => F = {}
<1> DEFINE q == Queued(F)
<1>1. /\ q \in Runs /\ q.todo = F /\ q.task = {} /\ q.telling = {}
      /\ q.proceed = {} /\ q.sent = {} /\ q.phase = "layer"
      /\ q.stage = IF F = {} THEN "ended" ELSE "queued"
  BY DEF Queued, Runs, Stages
<1> HIDE DEF q
<1>2. Live(q) = F /\ Apart(q)
  BY <1>1 DEF Live, Apart
<1> QED  BY <1>1, <1>2 DEF q

LEMMA QueuedIs ==
  ASSUME NEW F \in SUBSET Frames, NEW b, F \subseteq FramesOf(b)
  PROVE  Queued(F) \in Runs /\ WellFormed(b, Queued(F)) /\ Live(Queued(F)) = F
  BY QueuedFacts DEF WellFormed

LEMMA ExecutionInit ==
  ASSUME Init
  PROVE  ExecutionInv
<1> DEFINE r(b) == Queued({f \in setup.frames : f.batch = b})
<1>1. /\ setup \in Setups /\ setup.frames \subseteq Frames
      /\ home = [f \in Frames |-> f.batch] /\ retrying = {} /\ left = {}
      /\ run = [b \in Batches |-> r(b)]
      /\ heard = [f \in Frames |-> {}] /\ torn = [f \in Frames |-> 0] /\ advanced = {}
  BY SetupsAssumption DEF Init
<1>2. home \in [Frames -> Batches] /\ \A f \in Frames : f.batch \in Batches /\ home[f] = f.batch
  BY <1>1 DEF Frames
<1>3. ASSUME NEW b \in Batches
      PROVE  r(b) \in Runs /\ WellFormed(b, r(b)) /\ Live(r(b)) = FramesOf(b)
  <2>1. {f \in setup.frames : f.batch = b} = FramesOf(b) /\ FramesOf(b) \subseteq Frames
    BY <1>1, <1>2 DEF FramesOf
  <2> QED  BY <2>1, QueuedIs
<1> HIDE DEF r
<1>4. RunInv
  BY <1>1, <1>2, <1>3 DEF RunInv
<1>5. FateInv
  BY <1>1, <1>2, <1>3 DEF FateInv, FramesOf
<1>6. UnheardInv /\ AdvancedInv
  BY <1>1 DEF UnheardInv, AdvancedInv
<1>7. OnceInv
  <2>1. ASSUME NEW f \in Frames
        PROVE  heard[f] = {} /\ torn[f] = 0
    BY <1>1
  <2> QED  BY <2>1 DEF OnceInv
<1> QED  BY <1>4, <1>5, <1>6, <1>7 DEF ExecutionInv

\* What a step does to each execution and to each frame.
Changes(b, to, told, counted, outcome) ==
  /\ setup' = setup /\ home' = home
  /\ \A c \in Batches : run'[c] = IF c = b THEN to ELSE run[c]
  /\ \A f \in Frames :
       /\ home[f] \in Batches
       /\ heard'[f] = IF f \in told THEN heard[f] \cup {outcome} ELSE heard[f]
       /\ torn'[f] = IF f \in counted THEN torn[f] + 1 ELSE torn[f]
       /\ heard[f] \subseteq {"ready", "discarded"} /\ torn[f] \in Nat
       /\ f \in Live(run[b]) => home[f] = b
  /\ advanced \subseteq advanced' /\ told \subseteq counted
  /\ retrying \subseteq retrying' /\ retrying' \subseteq retrying \cup Live(run[b])
  /\ retrying' \cap Live(to) = {} /\ retrying' \cap counted = {}
  /\ left \subseteq left'
  /\ counted \subseteq Live(run[b]) /\ Live(to) \subseteq Live(run[b])

LEMMA DoesChanges ==
  ASSUME RunInv, NEW b \in Batches, NEW to \in Runs, NEW told \in SUBSET Frames,
         NEW counted \in SUBSET Frames, NEW outcome \in {"ready", "discarded"},
         Does(b, to, told, counted, outcome)
  PROVE  Changes(b, to, told, counted, outcome)
<1>1. \A f \in Frames : home[f] \in Batches
  BY DEF RunInv
<1>2. \A f \in Live(run[b]) : home[f] = b
  BY RunFacts DEF WellFormed, FramesOf
<1>3. \A c \in Batches : run'[c] = IF c = b THEN to ELSE run[c]
  BY RunFacts DEF Does
<1>4. \A f \in Frames :
        /\ heard'[f] = IF f \in told THEN heard[f] \cup {outcome} ELSE heard[f]
        /\ torn'[f] = IF f \in counted THEN torn[f] + 1 ELSE torn[f]
  BY DEF Does, Hears, Tears
<1>5. \A f \in Frames : heard[f] \subseteq {"ready", "discarded"} /\ torn[f] \in Nat
  BY DEF RunInv
<1> QED  BY <1>1, <1>2, <1>3, <1>4, <1>5 DEF Does, Changes

LEMMA MoveKeepsRuns ==
  ASSUME RunInv, NEW b \in Batches, NEW to \in Runs, NEW told \in SUBSET Frames,
         NEW counted \in SUBSET Frames, NEW outcome \in {"ready", "discarded"},
         Does(b, to, told, counted, outcome)
  PROVE  RunInv'
<1>0. Changes(b, to, told, counted, outcome)
  BY DoesChanges
<1>1. /\ setup' \in Setups /\ advanced' \subseteq Frames /\ left' \subseteq Frames
      /\ home' \in [Frames -> Batches]
  BY DEF Does, RunInv
<1>2. run' \in [Batches -> Runs]
  BY DEF Does, RunInv
<1>3. ASSUME NEW c \in Batches
      PROVE  WellFormed(c, run[c])'
  <2>1. WellFormed(b, to) /\ WellFormed(c, run[c]) /\ setup' = setup /\ home' = home
    BY DEF Does, RunInv
  <2>2. run'[c] = IF c = b THEN to ELSE run[c]
    BY <1>0 DEF Changes
  <2> QED  BY <2>1, <2>2 DEF WellFormed, FramesOf, Live, Apart
<1>4. heard' \in [Frames -> SUBSET {"ready", "discarded"}]
  BY DEF Does, Hears, RunInv
<1>5. torn' \in [Frames -> Nat]
  BY DEF Does, Tears, RunInv
<1>6. ASSUME NEW f \in retrying' PROVE f \in setup'.frames /\ f \notin Live(run'[home'[f]])
  <2>1. f \in setup.frames /\ f \in Frames /\ setup' = setup
    BY <1>0, <1>6, SetupFrames, RunFacts DEF Changes, RunInv, WellFormed, FramesOf
  <2>2. home'[f] = home[f] /\ home[f] \in Batches
    BY <2>1, <1>0 DEF Changes
  <2>3. CASE home[f] = b
    BY <2>1, <2>2, <2>3, <1>0, <1>6 DEF Changes
  <2>4. CASE home[f] # b
    <3>1. f \in retrying
      BY <2>1, <2>4, <1>0, <1>6 DEF Changes
    <3>2. f \notin Live(run[home[f]]) /\ run'[home[f]] = run[home[f]]
      BY <2>2, <2>4, <3>1, <1>0 DEF Changes, RunInv
    <3> QED  BY <2>1, <2>2, <3>2
  <2> QED  BY <2>1, <2>3, <2>4
<1> QED  BY <1>1, <1>2, <1>3, <1>4, <1>5, <1>6 DEF RunInv, Live

\* A frame leaves its execution when its owner is told, for a retry, when its handler
\* leaves it, or with a discard callback that raised.
LEMMA MoveKeepsFate ==
  ASSUME RunInv, FateInv, NEW b \in Batches, NEW to \in Runs, NEW told \in SUBSET Frames,
         NEW counted \in SUBSET Frames, NEW outcome \in {"ready", "discarded"},
         Does(b, to, told, counted, outcome)
  PROVE  FateInv'
<1> SUFFICES ASSUME setup'.discardRaises = {}, NEW f \in setup'.frames
             PROVE  \/ f \in Live(run'[home'[f]]) \cup retrying' \cup left'
                    \/ heard'[f] # {} /\ torn'[f] > 0
  BY DEF FateInv, Live
<1>0. Changes(b, to, told, counted, outcome)
  BY DoesChanges
<1>1. setup.discardRaises = {} /\ f \in setup.frames /\ f \in Frames /\ home'[f] = home[f]
  BY <1>0, SetupFrames DEF Changes
<1>2. f \in Live(run[home[f]]) \cup retrying \cup left \/ (heard[f] # {} /\ torn[f] > 0)
  BY <1>1 DEF FateInv
<1>3. CASE heard[f] # {} /\ torn[f] > 0
  <2>1. heard'[f] # {}
    BY <1>1, <1>3, <1>0 DEF Changes
  <2>2. torn[f] \in Nat /\ (torn'[f] = torn[f] \/ torn'[f] = torn[f] + 1)
    BY <1>1, <1>0 DEF Changes
  <2>3. torn'[f] > 0
    BY <2>2, <1>3
  <2> QED  BY <2>1, <2>3
<1>4. CASE f \in retrying \cup left
  BY <1>4, <1>0 DEF Changes
<1>5. CASE home[f] # b /\ f \in Live(run[home[f]])
  BY <1>1, <1>5, <1>0 DEF Changes
<1>6. CASE home[f] = b /\ f \in Live(run[b])
  <2>1. f \in Live(to) \cup told \cup retrying' \cup left'
    BY <1>1, <1>6 DEF Does
  <2>2. CASE f \in told
    <3>1. /\ f \in counted /\ heard'[f] = heard[f] \cup {outcome} /\ torn'[f] = torn[f] + 1
          /\ torn[f] \in Nat
      BY <1>1, <2>2, <1>0 DEF Changes
    <3>2. heard'[f] # {}
      BY <3>1
    <3>3. torn'[f] > 0
      BY <3>1
    <3> QED  BY <3>2, <3>3
  <2>3. CASE f \in Live(to)
    BY <1>1, <1>6, <2>3, <1>0 DEF Changes
  <2> QED  BY <2>1, <2>2, <2>3
<1> QED  BY <1>2, <1>3, <1>4, <1>5, <1>6

\* Who hears that a frame was discarded hears it as the frame leaves.
LEMMA MoveKeepsUnheard ==
  ASSUME RunInv, UnheardInv, NEW b \in Batches, NEW to \in Runs, NEW told \in SUBSET Frames,
         NEW counted \in SUBSET Frames, NEW outcome \in {"ready", "discarded"},
         Does(b, to, told, counted, outcome)
  PROVE  UnheardInv'
<1> SUFFICES ASSUME NEW f \in Frames, f \in Live(run'[home'[f]]) \cup retrying'
             PROVE  "discarded" \notin heard'[f]
  BY DEF UnheardInv, Live
<1>0. Changes(b, to, told, counted, outcome)
  BY DoesChanges
<1>1. home'[f] = home[f] /\ home[f] \in Batches
  BY <1>0 DEF Changes
<1>2. f \in Live(run[home[f]]) \cup retrying
  BY <1>0, <1>1 DEF Changes
<1>3. "discarded" \notin heard[f]
  BY <1>2 DEF UnheardInv
<1>4. f \notin told \/ outcome = "ready"
  <2>1. CASE f \in told
    <3>1. f \in counted /\ home[f] = b /\ f \notin retrying' /\ f \in Live(to)
      BY <1>0, <1>1, <2>1 DEF Changes
    <3> QED  BY <3>1 DEF Does
  <2> QED  BY <2>1
<1>5. heard'[f] = IF f \in told THEN heard[f] \cup {outcome} ELSE heard[f]
  BY <1>0 DEF Changes
<1> QED  BY <1>3, <1>4, <1>5

\* discard() tells every owner before it advances the backlogs, and abort() too.
LEMMA MoveKeepsAdvanced ==
  ASSUME RunInv, AdvancedInv, NEW b \in Batches, NEW to \in Runs, NEW told \in SUBSET Frames,
         NEW counted \in SUBSET Frames, NEW outcome \in {"ready", "discarded"},
         Does(b, to, told, counted, outcome)
  PROVE  AdvancedInv'
<1> SUFFICES ASSUME setup'.discardRaises = {}, NEW f \in Frames, "discarded" \in heard'[f]
             PROVE  \/ f \in advanced'
                    \/ run'[home'[f]].stage = "telling" /\ f \in run'[home'[f]].named
  BY DEF AdvancedInv
<1>0. Changes(b, to, told, counted, outcome)
  BY DoesChanges
<1>1. setup.discardRaises = {} /\ home'[f] = home[f] /\ home[f] \in Batches
  BY <1>0 DEF Changes
<1>2. CASE "discarded" \in heard[f]
  <2>1. f \in advanced \/ (run[home[f]].stage = "telling" /\ f \in run[home[f]].named)
    BY <1>1, <1>2 DEF AdvancedInv
  <2>2. CASE f \in advanced
    BY <2>2, <1>0 DEF Changes
  <2>3. CASE home[f] # b
    BY <2>1, <2>3, <1>1, <1>0 DEF Changes
  <2>4. CASE home[f] = b /\ run[b].stage = "telling" /\ f \in run[b].named
    <3>1. run[b].named \subseteq advanced' \/ (to.stage = "telling" /\ to.named = run[b].named)
      BY <1>1, <2>4 DEF Does
    <3>2. run'[home'[f]] = to
      BY <1>1, <2>4, <1>0 DEF Changes
    <3> QED  BY <3>1, <3>2, <2>4
  <2> QED  BY <2>1, <2>2, <2>3, <2>4
<1>3. CASE "discarded" \notin heard[f]
  <2>0. heard'[f] = IF f \in told THEN heard[f] \cup {outcome} ELSE heard[f]
    BY <1>0 DEF Changes
  <2>1. f \in told /\ outcome = "discarded"
    BY <1>3, <2>0
  <2>2. to.stage = "telling" /\ f \in to.named
    BY <1>1, <2>1 DEF Does
  <2>3. home[f] = b
    BY <2>1, <1>0 DEF Changes
  <2> QED  BY <1>1, <2>2, <2>3, <1>0 DEF Changes
<1> QED  BY <1>2, <1>3

LEMMA MoveKeepsOnce ==
  ASSUME RunInv, OnceInv, NEW b \in Batches, NEW to \in Runs, NEW told \in SUBSET Frames,
         NEW counted \in SUBSET Frames, NEW outcome \in {"ready", "discarded"},
         Does(b, to, told, counted, outcome)
  PROVE  OnceInv'
<1> SUFFICES ASSUME NEW f \in Frames, f.owner \notin setup'.readyRaises
             PROVE  /\ f \in Live(run'[home'[f]]) \cup retrying' => heard'[f] = {} /\ torn'[f] = 0
                    /\ torn'[f] <= 1
                    /\ \E what \in {"ready", "discarded"} : heard'[f] \subseteq {what}
  BY DEF OnceInv, Live
<1>0. Changes(b, to, told, counted, outcome)
  BY DoesChanges
<1>1. f.owner \notin setup.readyRaises /\ home'[f] = home[f] /\ home[f] \in Batches
  BY <1>0 DEF Changes
<1>2. /\ f \in Live(run[home[f]]) \cup retrying => heard[f] = {} /\ torn[f] = 0
      /\ torn[f] <= 1 /\ \E what \in {"ready", "discarded"} : heard[f] \subseteq {what}
  BY <1>1 DEF OnceInv
<1>3. CASE f \in counted
  <2>1. home[f] = b /\ heard[f] = {} /\ torn[f] = 0
    BY <1>2, <1>3, <1>0 DEF Changes
  <2>2. f \notin Live(to) /\ f \notin retrying'
    BY <1>1, <1>3, <1>0 DEF Does, Changes
  <2>3. torn'[f] = 1 /\ heard'[f] \subseteq {outcome}
    <3>1. torn'[f] = torn[f] + 1
      BY <1>3, <1>0 DEF Changes
    <3>2. heard'[f] \subseteq heard[f] \cup {outcome}
      BY <1>0 DEF Changes
    <3> QED  BY <2>1, <3>1, <3>2
  <2>4. run'[home'[f]] = to
    BY <1>1, <2>1, <1>0 DEF Changes
  <2>5. \E what \in {"ready", "discarded"} : heard'[f] \subseteq {what}
    BY <2>3
  <2>6. torn'[f] <= 1
    BY <2>3
  <2> QED  BY <1>1, <2>2, <2>4, <2>5, <2>6
<1>4. CASE f \notin counted
  <2>1. heard'[f] = heard[f] /\ torn'[f] = torn[f]
    BY <1>4, <1>0 DEF Changes
  <2>2. f \in Live(run'[home'[f]]) \cup retrying' => f \in Live(run[home[f]]) \cup retrying
    BY <1>1, <1>0 DEF Changes
  <2> QED  BY <1>2, <2>1, <2>2
<1> QED  BY <1>3, <1>4

\* What is queued again was in no execution, and nobody has heard of it.
LEMMA RejoinsStep ==
  ASSUME ExecutionInv, NEW b \in Batches, NEW F \in SUBSET retrying, Rejoins(b, F)
  PROVE  ExecutionInv'
<1>1. RunInv /\ FateInv /\ UnheardInv /\ AdvancedInv /\ OnceInv
  BY DEF ExecutionInv
<1>2. /\ UNCHANGED <<setup, left, heard, torn, advanced>> /\ retrying' = retrying \ F
      /\ home' = [f \in Frames |-> IF f \in F THEN b ELSE home[f]]
      /\ run[b].stage = "ended"
  BY DEF Rejoins, outcomes
<1>3. /\ F \subseteq setup.frames /\ F \subseteq Frames
      /\ home \in [Frames -> Batches] /\ home' \in [Frames -> Batches]
  BY <1>1, <1>2, SetupFrames DEF RunInv
<1>4. \A c \in Batches : run'[c] = IF c = b THEN Queued(F) ELSE run[c]
  BY <1>1, RunFacts DEF Rejoins, Becomes
<1>5. /\ Queued(F) \in Runs /\ Live(Queued(F)) = F /\ Queued(F).stage # "telling"
  BY <1>3, QueuedFacts
<1>6. Live(run[b]) = {}
  BY <1>1, <1>2, RunFacts DEF WellFormed
\* Frames that stay where they are, and those that come back.
<1>7. ASSUME NEW f \in Frames \ F
      PROVE  /\ home'[f] = home[f] /\ home[f] \in Batches
             /\ f \in Live(run'[home'[f]]) <=> f \in Live(run[home[f]])
             /\ run'[home'[f]] = run[home[f]] \/ run[home[f]].stage = "ended"
             /\ f \in retrying' <=> f \in retrying
  BY <1>2, <1>3, <1>4, <1>5, <1>6
<1>8. ASSUME NEW f \in F
      PROVE  /\ home'[f] = b /\ run'[home'[f]] = Queued(F) /\ f \in retrying /\ f \notin retrying'
             /\ f \in Frames /\ f \in Live(run'[home'[f]])
  BY <1>2, <1>3, <1>4, <1>5
<1>9. RunInv'
  <2>1. ASSUME NEW c \in Batches PROVE WellFormed(c, run[c])'
    <3>1. CASE c = b
      <4>1. F \subseteq {f \in setup'.frames : home'[f] = b}
        BY <1>2, <1>3, <1>8
      <4>2. run'[c] = Queued(F) /\ F \subseteq FramesOf(c)'
        BY <1>4, <3>1, <4>1 DEF FramesOf
      <4>3. /\ Queued(F) \in Runs /\ Apart(Queued(F)) /\ Live(Queued(F)) = F
            /\ Queued(F).task = {} /\ Queued(F).telling = {} /\ Queued(F).phase = "layer"
            /\ Queued(F).stage # "telling" /\ (Queued(F).stage = "ended" => F = {})
        BY <1>3, QueuedFacts
      <4> QED  BY <4>2, <4>3 DEF WellFormed, Apart, Live
    <3>2. CASE c # b
      <4>1. WellFormed(c, run[c]) /\ run'[c] = run[c] /\ setup' = setup
        BY <1>1, <1>2, <1>4, <3>2 DEF RunInv
      <4>2. FramesOf(c) \ F \subseteq FramesOf(c)'
        BY <1>1, <1>2, <1>7, SetupFrames DEF FramesOf
      <4>3. Live(run[c]) \cap F = {}
        BY <1>1, NotLive
      <4>4. Live(run[c]) \subseteq FramesOf(c)'
        BY <4>1, <4>2, <4>3 DEF WellFormed
      <4> QED  BY <4>1, <4>4 DEF WellFormed, Apart, Live
    <3> QED  BY <3>1, <3>2
  <2>2. run' \in [Batches -> Runs]
    BY <1>1, <1>5 DEF RunInv, Rejoins, Becomes
  <2>3. ASSUME NEW f \in retrying' PROVE f \in setup'.frames /\ f \notin Live(run'[home'[f]])
    BY <1>1, <1>2, <1>3, <1>7, <2>3, SetupFrames DEF RunInv
  <2> QED  BY <1>1, <1>2, <1>3, <2>1, <2>2, <2>3 DEF RunInv, Live
<1>10. FateInv'
  <2> SUFFICES ASSUME setup'.discardRaises = {}, NEW f \in setup'.frames
               PROVE  \/ f \in Live(run'[home'[f]]) \cup retrying' \cup left'
                      \/ heard'[f] # {} /\ torn'[f] > 0
    BY DEF FateInv, Live
  <2>1. f \in Frames /\ f \in setup.frames /\ setup.discardRaises = {}
    BY <1>1, <1>2, SetupFrames
  <2>2. CASE f \in F
    BY <1>8, <2>2
  <2>3. CASE f \notin F
    BY <1>1, <1>2, <1>7, <2>1, <2>3 DEF FateInv
  <2> QED  BY <2>2, <2>3
<1>11. UnheardInv'
  <2> SUFFICES ASSUME NEW f \in Frames, f \in Live(run'[home'[f]]) \cup retrying'
               PROVE  "discarded" \notin heard'[f]
    BY DEF UnheardInv, Live
  <2> QED  BY <1>1, <1>2, <1>7, <1>8 DEF UnheardInv
<1>12. AdvancedInv'
  <2> SUFFICES ASSUME setup'.discardRaises = {}, NEW f \in Frames, "discarded" \in heard'[f]
               PROVE  \/ f \in advanced'
                      \/ run'[home'[f]].stage = "telling" /\ f \in run'[home'[f]].named
    BY DEF AdvancedInv
  <2>1. f \notin F
    BY <1>1, <1>2, <1>8 DEF UnheardInv
  <2> QED  BY <1>1, <1>2, <1>7, <2>1 DEF AdvancedInv
<1>13. OnceInv'
  <2> SUFFICES ASSUME NEW f \in Frames, f.owner \notin setup'.readyRaises
               PROVE  /\ f \in Live(run'[home'[f]]) \cup retrying' => heard'[f] = {} /\ torn'[f] = 0
                      /\ torn'[f] <= 1
                      /\ \E what \in {"ready", "discarded"} : heard'[f] \subseteq {what}
    BY DEF OnceInv, Live
  <2>1. f \in Live(run'[home'[f]]) \cup retrying' => f \in Live(run[home[f]]) \cup retrying
    BY <1>7, <1>8
  <2> QED  BY <1>1, <1>2, <2>1 DEF OnceInv
<1> QED  BY <1>9, <1>10, <1>11, <1>12, <1>13 DEF ExecutionInv

LEMMA ExecutionStep ==
  ASSUME ExecutionInv, [Next]_vars
  PROVE  ExecutionInv'
<1>1. RunInv /\ FateInv /\ UnheardInv /\ AdvancedInv /\ OnceInv
  BY DEF ExecutionInv
<1>2. \/ UNCHANGED <<setup, home, retrying, left, run, heard, torn, advanced>>
      \/ \E b \in Batches : Moves(b)
      \/ \E b \in Batches, F \in SUBSET retrying : Rejoins(b, F)
  BY <1>1, StepMoves
<1>3. CASE UNCHANGED <<setup, home, retrying, left, run, heard, torn, advanced>>
  <2>1. RunInv'
    BY <1>1, <1>3 DEF RunInv, WellFormed, FramesOf, Live, Apart
  <2>2. FateInv' /\ UnheardInv' /\ AdvancedInv' /\ OnceInv'
    BY <1>1, <1>3 DEF FateInv, UnheardInv, AdvancedInv, OnceInv, Live
  <2> QED  BY <2>1, <2>2 DEF ExecutionInv
<1>4. ASSUME NEW b \in Batches, Moves(b)
      PROVE  ExecutionInv'
  <2>1. PICK to \in Runs, told \in SUBSET Frames, counted \in SUBSET Frames,
             outcome \in {"ready", "discarded"} : Does(b, to, told, counted, outcome)
    BY <1>4 DEF Moves
  <2> QED
    BY <1>1, <2>1, MoveKeepsRuns, MoveKeepsFate, MoveKeepsUnheard, MoveKeepsAdvanced,
       MoveKeepsOnce
    DEF ExecutionInv
<1> QED  BY <1>2, <1>3, <1>4, RejoinsStep

THEOREM ExecutionInvHolds == Spec => []ExecutionInv
<1>1. Init => ExecutionInv
  BY ExecutionInit
<1>2. ExecutionInv /\ [Next]_vars => ExecutionInv'
  BY ExecutionStep
<1> QED  BY <1>1, <1>2, PTL DEF Spec

\* Whatever handlers and ready callbacks raise and have retried: when its last execution
\* has ended the owner of a frame that its handler did not leave has heard of it and
\* has its slot back, and a discarded one is known to the layers behind
\* (orchestrator.py:430-468, 294-306, 584-596, 717-722).
THEOREM EveryFrameHeard == Spec => []EveryFrameIsHeard
<1>1. ASSUME ExecutionInv, setup.discardRaises = {}, NEW f \in setup.frames, Ended(f), f \notin left
      PROVE  heard[f] # {} /\ torn[f] > 0 /\ ("discarded" \in heard[f] => f \in advanced)
  <2>1. RunInv /\ FateInv /\ AdvancedInv /\ f \in Frames
    BY <1>1, SetupFrames DEF ExecutionInv
  <2>2. home[f] \in Batches /\ run[home[f]].stage = "ended" /\ f \notin retrying
    BY <1>1, <2>1 DEF RunInv, Ended
  <2>3. Live(run[home[f]]) = {}
    BY <2>1, <2>2, RunFacts DEF WellFormed
  <2>4. heard[f] # {} /\ torn[f] > 0
    BY <1>1, <2>1, <2>2, <2>3 DEF FateInv
  <2>5. "discarded" \in heard[f] => f \in advanced
    BY <1>1, <2>1, <2>2 DEF AdvancedInv
  <2> QED  BY <2>4, <2>5
<1>2. ExecutionInv => EveryFrameIsHeard
  BY <1>1 DEF EveryFrameIsHeard
<1> QED  BY <1>2, ExecutionInvHolds, PTL

\* A client whose ready callback does not raise hears once of each frame, and its
\* slot comes back once (orchestrator.py:653-668).
THEOREM HeardOnce == Spec => []HeardAtMostOnce
<1>1. ASSUME ExecutionInv, NEW f \in Frames, f.owner \notin setup.readyRaises
      PROVE  Cardinality(heard[f]) <= 1 /\ torn[f] <= 1
  <2>1. torn[f] <= 1 /\ \E what \in {"ready", "discarded"} : heard[f] \subseteq {what}
    BY <1>1 DEF ExecutionInv, OnceInv
  <2>2. PICK what : heard[f] \subseteq {what}
    BY <2>1
  <2>3. IsFiniteSet({what}) /\ Cardinality({what}) = 1
    BY FS_Singleton
  <2>4. Cardinality(heard[f]) <= Cardinality({what})
    BY <2>2, <2>3, FS_Subset
  <2> QED  BY <2>1, <2>3, <2>4
<1>2. ExecutionInv => HeardAtMostOnce
  BY <1>1 DEF HeardAtMostOnce
<1> QED  BY <1>2, ExecutionInvHolds, PTL

=============================================================================
