----------------------------- MODULE LayerProofs -----------------------------
(***************************************************************************)
(* Proofs about module Layer, for any owners, frames, workers and setups.  *)
(* A layer with min_batch 1 keeps its queue within max_batch; the put-back *)
(* loop of a larger min_batch breaks that (see Layers.cfg), so it is a     *)
(* condition of the invariant.  With min_batch 1, or contiguous, a frame   *)
(* is in one place at a time and is handled once.  And a contiguous layer  *)
(* whose handler does not retry lets no frame overtake an earlier one of   *)
(* its owner: whatever was let in reaches up to the backlog or the batch   *)
(* in hand (OrderInv).                                                     *)
(***************************************************************************)
EXTENDS Layer, FiniteSetTheorems, TLAPS

-----------------------------------------------------------------------------
(* Frames and regions *)

LEMMA FramesFinite == IsFiniteSet(Frames)
<1> DEFINE P == Owners \X (0..MaxIndex)
           b == [p \in P |-> [owner |-> p[1], index |-> p[2]]]
<1>1. IsFiniteSet(P)
  <2>1. IsFiniteSet(0..MaxIndex)
    BY MaxIndexAssumption, FS_Interval
  <2>2. IsFiniteSet(Owners)
    BY OwnersAssumption
  <2> HIDE DEF P
  <2> QED  BY <2>1, <2>2, FS_Product DEF P
<1>2. b \in Surjection(P, Frames)
  <2>1. b \in [P -> Frames]
    BY DEF Frames
  <2>2. ASSUME NEW f \in Frames PROVE \E p \in P : b[p] = f
    <3>1. <<f.owner, f.index>> \in P /\ f = [owner |-> f.owner, index |-> f.index]
      BY DEF Frames
    <3> QED  BY <3>1
  <2> QED  BY <2>1, <2>2 DEF Surjection
<1> QED  BY <1>1, <1>2, FS_Surjection

LEMMA FrameSets ==
  ASSUME NEW F \in SUBSET Frames
  PROVE  IsFiniteSet(F) /\ Cardinality(F) \in Nat
  BY FramesFinite, FS_Subset, FS_CardinalityType

\* One owner's frames differ in their indices.
OneOwners(F) == \A f, g \in F : f.index = g.index => f = g

LEMMA OwnedByOne ==
  ASSUME NEW F \in SUBSET Frames, NEW o
  PROVE  OneOwners(OwnedBy(F, o)) /\ OwnedBy(F, o) \in SUBSET Frames
  BY DEF OneOwners, OwnedBy, Frames

\* F[:k] has at most k frames: the position of a frame in the sorted list tells
\* it from the others.
LEMMA FirstOfCount ==
  ASSUME NEW F \in SUBSET Frames, OneOwners(F), NEW k \in Nat
  PROVE  Cardinality(FirstOf(F, k)) <= k
<1> DEFINE before(f) == {g \in F : g.index < f.index}
           position == [f \in FirstOf(F, k) |-> Cardinality(before(f))]
<1>1. \A f \in F : Cardinality(before(f)) \in Nat /\ IsFiniteSet(before(f))
  BY FrameSets
<1>2. position \in [FirstOf(F, k) -> 0..(k - 1)]
  BY <1>1 DEF FirstOf
<1>3. ASSUME NEW f \in F, NEW g \in F, f.index < g.index
      PROVE  Cardinality(before(f)) # Cardinality(before(g))
  <2>1. before(f) \in SUBSET before(g)
    BY <1>3 DEF Frames
  <2>2. f \in before(g) /\ f \notin before(f)
    BY <1>3 DEF Frames
  <2> HIDE DEF before
  <2> QED  BY <1>1, <2>1, <2>2, FS_Subset
<1>4. ASSUME NEW f \in FirstOf(F, k), NEW g \in FirstOf(F, k),
             position[f] = position[g]
      PROVE  f = g
  <2>1. f \in F /\ g \in F /\ f.index \in Int /\ g.index \in Int
    BY DEF FirstOf, Frames
  <2>2. Cardinality(before(f)) = Cardinality(before(g))
    BY <1>4
  <2>3. ~(f.index < g.index) /\ ~(g.index < f.index)
    BY <1>3, <2>1, <2>2
  <2> QED  BY <2>1, <2>3 DEF OneOwners
<1>5. position \in Injection(FirstOf(F, k), 0..(k - 1))
  BY <1>2, <1>4 DEF Injection, IsInjective
<1>6. IsFiniteSet(0..(k - 1)) /\ Cardinality(0..(k - 1)) = k
  BY FS_Interval
<1> HIDE DEF position
<1> QED  BY <1>5, <1>6, FS_Injection

LEMMA FirstOfSubset == \A F, k : FirstOf(F, k) \subseteq F
  BY DEF FirstOf

\* The region is at most the room, and never negative while there is room.
LEMMA RegionInRoom ==
  ASSUME NEW o, NEW F \in SUBSET Frames, OneOwners(F), NEW r \in Nat
  PROVE  Region(o, F, r) \in 0..r
<1> DEFINE A == {f \in FirstOf(F, r) : FollowsOn(f, F, backlog[o])}
<1>1. FirstOf(F, r) \in SUBSET Frames /\ A \in SUBSET FirstOf(F, r)
  BY FirstOfSubset
<1>2. Cardinality(A) \in Nat /\ Cardinality(A) <= Cardinality(FirstOf(F, r))
  BY <1>1, FrameSets, FS_Subset
<1>3. Cardinality(FirstOf(F, r)) \in Nat /\ Cardinality(FirstOf(F, r)) <= r
  BY <1>1, FrameSets, FirstOfCount
<1>4. Cardinality(A) \in 0..r
  BY <1>2, <1>3
<1>5. AtMost(r, Cardinality(F)) \in 0..r
  BY FrameSets DEF AtMost
<1> QED  BY <1>4, <1>5 DEF Region

-----------------------------------------------------------------------------
(* The queue within its capacity *)

\* Only the holder of the capacity lock pushes, and between two critical
\* sections no accepted frame waits to be put.
HolderInv ==
  /\ \A w \in Workers : pc[w] = "pushing" <=> holder = w
  /\ holder = NoWorker => accepted = {}

\* With min_batch 1 a pull that got a frame never puts it back.
NoPutBackInv ==
  \A w \in Workers :
    /\ pc[w] = "deciding" => got[w] # <<>>
    /\ pc[w] # "putting_back"

\* What is queued, what is accepted and what may still be accepted fit.
RoomInv ==
  /\ room \in Nat
  /\ Len(queue) + Cardinality(accepted) + room <= MaxBatch

\* The types that the argument needs.
ShapeInv ==
  /\ setup \in Setups
  /\ pushes \subseteq SUBSET Frames
  /\ queue \in Seq(Frames)
  /\ todo \subseteq Frames
  /\ accepted \subseteq Frames
  /\ leftovers \subseteq Frames
  /\ posted \subseteq Frames
  /\ holder \in Workers \cup {NoWorker}
  /\ pc \in [Workers -> {"idle", "pushing"} \cup PullStages]
  /\ got \in [Workers -> Seq(Frames)]

CapacityInv == ShapeInv /\ HolderInv /\ NoPutBackInv /\ RoomInv

LEMMA CapacityInit == Init => CapacityInv
  BY FS_EmptySet, WorkerAssumption, MaxBatchAssumption
  DEF Init, CapacityInv, ShapeInv, HolderInv, NoPutBackInv, RoomInv, PullStages

LEMMA PushStartCapacity ==
  ASSUME CapacityInv, NEW w \in Workers, NEW B \in pushes, PushStart(w, B)
  PROVE  CapacityInv'
<1> USE DEF CapacityInv, PushStart
<1>1. ShapeInv'
  BY DEF ShapeInv
<1>2. HolderInv'
  BY WorkerAssumption DEF HolderInv, ShapeInv
<1>3. NoPutBackInv'
  BY DEF NoPutBackInv, ShapeInv
<1>4. RoomInv'
  <2>1. accepted' = {} /\ Cardinality(accepted) = 0 /\ Cardinality(accepted') = 0
    BY FS_EmptySet DEF HolderInv
  <2>2. Len(queue) \in Nat /\ Len(queue) <= MaxBatch
    BY <2>1, MaxBatchAssumption DEF RoomInv, ShapeInv
  <2>3. Cardinality(B) \in Nat
    BY FrameSets DEF ShapeInv
  <2>4. room' = AtMost(MaxBatch - Len(queue), Cardinality(B)) /\ queue' = queue
    OBVIOUS
  <2>5. room' \in Nat /\ room' <= MaxBatch - Len(queue)
    BY <2>2, <2>3, <2>4, MaxBatchAssumption DEF AtMost
  <2>6. Len(queue) + 0 + room' <= MaxBatch
    BY <2>2, <2>5, MaxBatchAssumption
  <2> HIDE DEF CapacityInv, PushStart
  <2> QED  BY <2>1, <2>4, <2>5, <2>6 DEF RoomInv
<1> QED  BY <1>1, <1>2, <1>3, <1>4

LEMMA PushSplitCapacity ==
  ASSUME CapacityInv, NEW w \in Workers, NEW o \in Owners, PushSplit(w, o)
  PROVE  CapacityInv'
<1> DEFINE F == OwnedBy(todo, o)
           k == Region(o, F, room)
<1>1. F \in SUBSET Frames /\ OneOwners(F)
  BY OwnedByOne DEF CapacityInv, ShapeInv
<1>2. k \in 0..room /\ room \in Nat
  BY <1>1, RegionInRoom DEF CapacityInv, RoomInv
<1>3. FirstOf(F, k) \in SUBSET Frames /\ RestOf(F, k) \in SUBSET Frames
  BY <1>1, FirstOfSubset DEF RestOf
<1>4. Cardinality(FirstOf(F, k)) \in Nat /\ Cardinality(FirstOf(F, k)) <= k
  BY <1>1, <1>2, <1>3, FirstOfCount, FrameSets
<1>5. /\ todo' = todo \ F
      /\ accepted' = accepted \cup FirstOf(F, k)
      /\ leftovers' = leftovers \cup RestOf(F, k)
      /\ room' = room - k
      /\ pc[w] = "pushing"
      /\ UNCHANGED <<setup, pushes, queue, posted, holder, pc, got>>
  BY DEF PushSplit
<1> HIDE DEF F, k
<1>6. ShapeInv'
  BY <1>3, <1>5 DEF CapacityInv, ShapeInv
<1>7. HolderInv'
  BY <1>5, WorkerAssumption DEF CapacityInv, HolderInv
<1>8. NoPutBackInv'
  BY <1>5 DEF CapacityInv, NoPutBackInv
<1>9. RoomInv'
  <2>1. IsFiniteSet(accepted) /\ Cardinality(accepted) \in Nat
    BY FrameSets DEF CapacityInv, ShapeInv
  <2>2. IsFiniteSet(FirstOf(F, k))
    BY <1>3, FrameSets
  <2>3. Cardinality(accepted \cap FirstOf(F, k)) \in Nat
    BY <2>1, FS_Intersection, FS_CardinalityType
  <2>4. Cardinality(accepted')
          = Cardinality(accepted) + Cardinality(FirstOf(F, k))
            - Cardinality(accepted \cap FirstOf(F, k))
    BY <1>5, <2>1, <2>2, FS_Union
  <2>5. Cardinality(accepted') + room' <= Cardinality(accepted) + room
    BY <1>2, <1>4, <1>5, <2>1, <2>3, <2>4
  <2>6. Len(queue') = Len(queue) /\ Len(queue) \in Nat
    BY <1>5 DEF CapacityInv, ShapeInv
  <2>7. room' \in Nat /\ Cardinality(accepted') \in Int
    BY <1>2, <1>5, <2>1, <2>3, <2>4, <1>4
  <2> QED  BY <1>2, <2>1, <2>5, <2>6, <2>7, MaxBatchAssumption
           DEF CapacityInv, RoomInv
<1> QED  BY <1>6, <1>7, <1>8, <1>9 DEF CapacityInv

LEMMA PushPutCapacity ==
  ASSUME CapacityInv, NEW w \in Workers, PushPut(w)
  PROVE  CapacityInv'
<1>1. PICK f \in accepted : queue' = Append(queue, f) /\ accepted' = accepted \ {f}
  BY DEF PushPut
<1>2. pc[w] = "pushing"
      /\ UNCHANGED <<setup, pushes, todo, leftovers, room, posted, holder, pc, got>>
  BY DEF PushPut
<1>3. f \in Frames
  BY DEF CapacityInv, ShapeInv
<1>4. ShapeInv'
  BY <1>1, <1>2, <1>3 DEF CapacityInv, ShapeInv
<1>5. HolderInv' /\ NoPutBackInv'
  BY <1>2, WorkerAssumption DEF CapacityInv, HolderInv, NoPutBackInv
<1>6. RoomInv'
  <2>1. Len(queue') = Len(queue) + 1 /\ Len(queue) \in Nat
    BY <1>1, <1>3 DEF CapacityInv, ShapeInv
  <2>2. Cardinality(accepted') = Cardinality(accepted) - 1
        /\ Cardinality(accepted) \in Nat
    BY <1>1, FrameSets, FS_RemoveElement DEF CapacityInv, ShapeInv
  <2> QED  BY <1>2, <2>1, <2>2, MaxBatchAssumption DEF CapacityInv, RoomInv
<1> QED  BY <1>4, <1>5, <1>6 DEF CapacityInv

LEMMA PushDoneCapacity ==
  ASSUME CapacityInv, NEW w \in Workers, PushDone(w)
  PROVE  CapacityInv'
<1> USE DEF CapacityInv, PushDone, EndsPush
<1>1. ShapeInv'
  BY DEF ShapeInv
<1>2. HolderInv'
  BY WorkerAssumption DEF HolderInv, ShapeInv
<1>3. NoPutBackInv'
  BY DEF NoPutBackInv, ShapeInv
<1>4. RoomInv'
  BY FS_EmptySet, MaxBatchAssumption DEF RoomInv, ShapeInv
<1> QED  BY <1>1, <1>2, <1>3, <1>4

LEMMA PullCapacity ==
  ASSUME MinBatch = 1, CapacityInv, NEW w \in Workers,
         PullStep(w) \/ PullStart(w)
  PROVE  CapacityInv'
<1> USE DEF CapacityInv
<1>1. CASE PullStart(w)
  BY <1>1, WorkerAssumption
  DEF PullStart, pushVars, ShapeInv, HolderInv, NoPutBackInv, RoomInv, PullStages
<1>2. CASE PullGet(w)
  <2> USE <1>2 DEF PullGet, pushVars
  <2>1. Len(queue') = Len(queue) - 1 /\ queue' \in Seq(Frames)
        /\ Head(queue) \in Frames /\ Len(queue) \in Nat
    BY DEF ShapeInv
  <2>2. ShapeInv'
    BY <2>1 DEF ShapeInv
  <2>3. HolderInv' /\ NoPutBackInv'
    BY DEF ShapeInv, HolderInv, NoPutBackInv
  <2>4. RoomInv'
    <3>1. Cardinality(accepted) \in Nat
      BY FrameSets DEF ShapeInv
    <3> QED  BY <2>1, <3>1, MaxBatchAssumption DEF RoomInv
  <2> QED  BY <2>2, <2>3, <2>4
<1>3. CASE PullGot(w)
  BY <1>3, WorkerAssumption
  DEF PullGot, pushVars, ShapeInv, HolderInv, NoPutBackInv, RoomInv, PullStages
<1>4. CASE PullPost(w)
  <2> USE <1>4 DEF PullPost, pushVars
  <2>1. Contents(got[w]) \subseteq Frames
    BY DEF Contents, ShapeInv
  <2>2. ShapeInv'
    BY <2>1 DEF ShapeInv
  <2>3. HolderInv' /\ NoPutBackInv' /\ RoomInv'
    BY WorkerAssumption DEF ShapeInv, HolderInv, NoPutBackInv, RoomInv
  <2> QED  BY <2>2, <2>3
<1>5. CASE PullWait(w)
  <2>1. Len(got[w]) < 1 /\ got[w] # <<>> /\ got[w] \in Seq(Frames)
    BY <1>5 DEF PullWait, TooFew, NoPutBackInv, ShapeInv
  <2> QED  BY <2>1
<1>6. CASE PullPutBack(w) \/ PullAgainLater(w)
  BY <1>6 DEF PullPutBack, PullAgainLater, NoPutBackInv
<1> QED  BY <1>1, <1>2, <1>3, <1>4, <1>5, <1>6 DEF PullStep

LEMMA EnvironmentCapacity ==
  ASSUME CapacityInv, Environment
  PROVE  CapacityInv'
<1>a. setup.frames \in SUBSET Frames /\ Discardable \in SUBSET Frames
  BY SetupsAssumption DEF CapacityInv, ShapeInv, Discardable
<1> USE DEF CapacityInv, ShapeInv, HolderInv, NoPutBackInv, RoomInv, pushVars, envVars
<1>1. ASSUME NEW F \in SUBSET Frames, Forward(F) PROVE CapacityInv'
  BY <1>1 DEF Forward
<1>2. ASSUME NEW F \in SUBSET Frames, RetryPosted(F) PROVE CapacityInv'
  BY <1>2 DEF RetryPosted
<1>3. ASSUME NEW o \in Owners, ClearBatch(o) PROVE CapacityInv'
  BY <1>3 DEF ClearBatch
<1>4. ASSUME NEW o \in Owners, NEW F \in SUBSET Frames, DiscardUpstream(o, F)
      PROVE CapacityInv'
  BY <1>4 DEF DiscardUpstream
<1> QED  BY <1>1, <1>2, <1>3, <1>4, <1>a DEF Environment

LEMMA CapacityNext ==
  ASSUME MinBatch = 1, CapacityInv, [Next]_vars
  PROVE  CapacityInv'
<1>1. CASE Environment
  BY <1>1, EnvironmentCapacity
<1>2. ASSUME NEW w \in Workers, PushStep(w) PROVE CapacityInv'
  BY <1>2, PushSplitCapacity, PushPutCapacity, PushDoneCapacity DEF PushStep
<1>3. ASSUME NEW w \in Workers, PullStep(w) \/ PullStart(w) PROVE CapacityInv'
  BY <1>3, PullCapacity
<1>4. ASSUME NEW w \in Workers, NEW B \in pushes, PushStart(w, B) PROVE CapacityInv'
  BY <1>4, PushStartCapacity
<1>5. CASE YieldPasses
  BY <1>5 DEF YieldPasses, CapacityInv, ShapeInv, HolderInv, NoPutBackInv, RoomInv,
              pushVars, envVars
<1>6. CASE UNCHANGED vars
  BY <1>6 DEF vars, CapacityInv, ShapeInv, HolderInv, NoPutBackInv, RoomInv
<1> QED  BY <1>1, <1>2, <1>3, <1>4, <1>5, <1>6 DEF Next

LEMMA SetupStays == [Next]_vars => setup' = setup
<1> SUFFICES ASSUME Next PROVE setup' = setup
  BY DEF vars
<1>1. CASE Environment
  BY <1>1 DEF Environment, Forward, RetryPosted, ClearBatch, DiscardUpstream
<1>2. ASSUME NEW w \in Workers, PushStep(w) PROVE setup' = setup
  BY <1>2 DEF PushStep, PushSplit, PushPut, PushDone, EndsPush
<1>3. ASSUME NEW w \in Workers, PullStep(w) PROVE setup' = setup
  BY <1>3 DEF PullStep, PullGet, PullGot, PullPost, PullWait, PullPutBack, PullAgainLater
<1>4. ASSUME NEW w \in Workers, NEW B \in pushes, PullStart(w) \/ PushStart(w, B)
      PROVE  setup' = setup
  BY <1>4 DEF PullStart, PushStart
<1>5. ASSUME NEW w \in Workers, PullStart(w) PROVE setup' = setup
  BY <1>5 DEF PullStart
<1>6. CASE YieldPasses
  BY <1>6 DEF YieldPasses
<1> QED  BY <1>1, <1>2, <1>3, <1>4, <1>5, <1>6 DEF Next

\* However many workers push and pull at once, the queue of a layer with min_batch 1
\* never holds more than max_batch frames.
THEOREM CapacityKept == Spec => []QueueWithinCapacity
<1>1. (MinBatch = 1 => CapacityInv) => QueueWithinCapacity
  <2> SUFFICES ASSUME CapacityInv PROVE QueueWithinCapacity
    BY DEF QueueWithinCapacity
  <2>1. Cardinality(accepted) \in Nat /\ Len(queue) \in Nat
    BY FrameSets DEF CapacityInv, ShapeInv
  <2> QED  BY <2>1, MaxBatchAssumption DEF CapacityInv, RoomInv, QueueWithinCapacity
<1>2. (MinBatch = 1 => CapacityInv) /\ [Next]_vars => (MinBatch = 1 => CapacityInv)'
  BY CapacityNext, SetupStays DEF MinBatch
<1> QED  BY <1>1, <1>2, CapacityInit, PTL DEF Spec

-----------------------------------------------------------------------------
(* Sequences as sets of their elements *)

Distinct(s) == \A i, j \in DOMAIN s : s[i] = s[j] => i = j

LEMMA AppendAdds ==
  ASSUME NEW s \in Seq(Frames), NEW f \in Frames
  PROVE  /\ Append(s, f) \in Seq(Frames)
         /\ Contents(Append(s, f)) = Contents(s) \cup {f}
         /\ Distinct(s) /\ f \notin Contents(s) => Distinct(Append(s, f))
<1> DEFINE t == Append(s, f)
<1>1. /\ t \in Seq(Frames) /\ Len(t) = Len(s) + 1 /\ t[Len(s) + 1] = f
      /\ \A i \in 1..Len(s) : t[i] = s[i]
      /\ DOMAIN t = 1..(Len(s) + 1) /\ DOMAIN s = 1..Len(s) /\ Len(s) \in Nat
  OBVIOUS
<1> HIDE DEF t
<1>2. \A i \in DOMAIN t : i \in DOMAIN s \/ i = Len(s) + 1
  BY <1>1
<1>3. Contents(t) = Contents(s) \cup {f}
  BY <1>1, <1>2 DEF Contents
<1>4. ASSUME Distinct(s), f \notin Contents(s) PROVE Distinct(t)
  BY <1>1, <1>2, <1>4 DEF Contents, Distinct
<1> QED  BY <1>1, <1>3, <1>4 DEF t

LEMMA TailRemoves ==
  ASSUME NEW s \in Seq(Frames), s # <<>>
  PROVE  /\ Tail(s) \in Seq(Frames) /\ Head(s) \in Frames /\ Head(s) \in Contents(s)
         /\ Contents(s) = Contents(Tail(s)) \cup {Head(s)}
         /\ Distinct(s) => Distinct(Tail(s)) /\ Head(s) \notin Contents(Tail(s))
<1> DEFINE t == Tail(s)
<1>1. /\ t \in Seq(Frames) /\ Len(t) = Len(s) - 1 /\ Head(s) = s[1]
      /\ \A i \in 1..Len(t) : t[i] = s[i + 1]
      /\ DOMAIN t = 1..Len(t) /\ DOMAIN s = 1..Len(s) /\ Len(s) \in Nat \ {0}
      /\ Head(s) \in Frames
  OBVIOUS
<1> HIDE DEF t
<1>2. \A i \in DOMAIN s : i = 1 \/ (i - 1 \in DOMAIN t /\ s[i] = t[i - 1])
  BY <1>1
<1>3. 1 \in DOMAIN s /\ \A i \in DOMAIN t : i + 1 \in DOMAIN s /\ t[i] = s[i + 1] /\ i \in Nat
  BY <1>1
<1>4. Contents(s) = Contents(t) \cup {s[1]}
  BY <1>2, <1>3 DEF Contents
<1>5. ASSUME Distinct(s) PROVE Distinct(t) /\ s[1] \notin Contents(t)
  <2>1. \A i, j \in DOMAIN t : i + 1 = j + 1 => i = j
    BY <1>3
  <2>2. \A i \in DOMAIN t : i + 1 # 1
    BY <1>1
  <2> QED  BY <1>3, <1>5, <2>1, <2>2 DEF Distinct, Contents
<1> QED  BY <1>1, <1>4, <1>5 DEF t

LEMMA EmptyContents == Contents(<<>>) = {} /\ Distinct(<<>>)
  BY DEF Contents, Distinct

LEMMA ContentsTyped == \A s \in Seq(Frames) : Contents(s) \subseteq Frames
  BY DEF Contents

-----------------------------------------------------------------------------
(* Types, and who may be in the middle of a push_batch *)

TypeInv ==
  /\ ShapeInv
  /\ upstream \subseteq Frames
  /\ dropped \subseteq Frames
  /\ backlog \in [Owners -> Int]
  /\ room \in Int
  /\ retries \in Nat

\* Between two critical sections no frame is in the middle of one, and pull_batch
\* takes no more than max_batch.
IdleInv ==
  /\ \A w \in Workers : pc[w] = "pushing" <=> holder = w
  /\ holder = NoWorker => todo = {} /\ accepted = {} /\ leftovers = {}
  /\ \A w \in Workers : Len(got[w]) <= MaxBatch

LEMMA RegionTyped ==
  ASSUME NEW o, NEW F \in SUBSET Frames, NEW r \in Int
  PROVE  Region(o, F, r) \in Int /\ (Contiguous => Region(o, F, r) \in Nat)
<1> DEFINE A == {f \in FirstOf(F, r) : FollowsOn(f, F, backlog[o])}
<1>1. A \in SUBSET Frames
  BY FirstOfSubset
<1>2. Cardinality(A) \in Nat /\ Cardinality(F) \in Nat
  BY <1>1, FrameSets
<1> QED  BY <1>2 DEF Region, AtMost

LEMMA AdvancedTyped ==
  ASSUME NEW b \in Int, NEW F \in SUBSET Frames
  PROVE  Advanced(b, F) \in Int
<1> DEFINE A == {f \in F : f.index > b /\ FollowsOn(f, {g \in F : g.index > b}, b)}
<1>1. A \in SUBSET Frames
  OBVIOUS
<1>2. Cardinality(A) \in Nat
  BY <1>1, FrameSets
<1> QED  BY <1>2 DEF Advanced

LEMMA TypeInit == Init => TypeInv /\ IdleInv
<1> SUFFICES ASSUME Init PROVE TypeInv /\ IdleInv
  OBVIOUS
<1>1. setup.frames \subseteq Frames
  BY SetupsAssumption DEF Init
<1> QED
  BY <1>1, WorkerAssumption, MaxBatchAssumption
  DEF Init, TypeInv, IdleInv, ShapeInv, PullStages

LEMMA TypeNext ==
  ASSUME TypeInv, IdleInv, [Next]_vars
  PROVE  TypeInv' /\ IdleInv'
<1>a. setup.frames \in SUBSET Frames /\ Discardable \in SUBSET Frames
  BY SetupsAssumption DEF TypeInv, ShapeInv, Discardable
<1> USE DEF TypeInv, IdleInv, ShapeInv, pushVars, envVars, PullStages
<1>1. ASSUME NEW F \in SUBSET Frames, Forward(F) PROVE TypeInv' /\ IdleInv'
  BY <1>1 DEF Forward
<1>2. ASSUME NEW F \in SUBSET Frames, RetryPosted(F) PROVE TypeInv' /\ IdleInv'
  BY <1>2 DEF RetryPosted
<1>3. ASSUME NEW o \in Owners, ClearBatch(o) PROVE TypeInv' /\ IdleInv'
  BY <1>3 DEF ClearBatch
<1>4. ASSUME NEW o \in Owners, NEW F \in SUBSET Frames, DiscardUpstream(o, F)
      PROVE  TypeInv' /\ IdleInv'
  <2>1. Advanced(backlog[o], F) \in Int
    BY AdvancedTyped
  <2> QED  BY <1>4, <2>1 DEF DiscardUpstream
<1>5. ASSUME NEW w \in Workers, NEW B \in pushes, PushStart(w, B)
      PROVE  TypeInv' /\ IdleInv'
  <2>1. Cardinality(B) \in Nat /\ Len(queue) \in Nat
    BY FrameSets
  <2>2. room' \in Int
    BY <1>5, <2>1, MaxBatchAssumption DEF PushStart, AtMost
  <2> QED  BY <1>5, <2>2, WorkerAssumption DEF PushStart
<1>6. ASSUME NEW w \in Workers, NEW o \in Owners, PushSplit(w, o)
      PROVE  TypeInv' /\ IdleInv'
  <2> DEFINE F == OwnedBy(todo, o)
             k == Region(o, F, room)
  <2>1. F \in SUBSET Frames
    BY OwnedByOne
  <2>2. k \in Int
    BY <2>1, RegionTyped
  <2>3. FirstOf(F, k) \subseteq Frames /\ RestOf(F, k) \subseteq Frames
    BY <2>1, FirstOfSubset DEF RestOf
  <2>4. /\ todo' = todo \ F /\ accepted' = accepted \cup FirstOf(F, k)
        /\ leftovers' = leftovers \cup RestOf(F, k) /\ room' = room - k
        /\ backlog' = IF Contiguous THEN [backlog EXCEPT ![o] = @ + k] ELSE backlog
        /\ pc[w] = "pushing"
        /\ UNCHANGED <<setup, envVars, pushes, pulls, queue, pending, holder, pc, got, posted>>
    BY <1>6 DEF PushSplit
  <2> HIDE DEF F, k
  <2>5. TypeInv'
    BY <2>2, <2>3, <2>4
  <2>6. IdleInv'
    BY <2>4, WorkerAssumption
  <2> QED  BY <2>5, <2>6
<1>7. ASSUME NEW w \in Workers, PushPut(w) PROVE TypeInv' /\ IdleInv'
  <2>1. PICK f \in accepted : queue' = Append(queue, f) /\ accepted' = accepted \ {f}
    BY <1>7 DEF PushPut
  <2>2. queue' \in Seq(Frames)
    BY <2>1, AppendAdds
  <2> QED  BY <1>7, <2>1, <2>2, WorkerAssumption DEF PushPut
<1>8. ASSUME NEW w \in Workers, PushDone(w) PROVE TypeInv' /\ IdleInv'
  BY <1>8, WorkerAssumption DEF PushDone, EndsPush
<1>9. ASSUME NEW w \in Workers, PullGet(w) PROVE TypeInv' /\ IdleInv'
  <2>1. Tail(queue) \in Seq(Frames) /\ Head(queue) \in Frames
    BY <1>9, TailRemoves DEF PullGet
  <2>2. Append(got[w], Head(queue)) \in Seq(Frames)
        /\ Len(Append(got[w], Head(queue))) = Len(got[w]) + 1 /\ Len(got[w]) \in Nat
    BY <2>1
  <2> QED  BY <1>9, <2>1, <2>2, MaxBatchAssumption DEF PullGet
<1>10. ASSUME NEW w \in Workers, PullGot(w) PROVE TypeInv' /\ IdleInv'
  BY <1>10, WorkerAssumption DEF PullGot
<1>11. ASSUME NEW w \in Workers, PullPost(w) PROVE TypeInv' /\ IdleInv'
  <2>1. Contents(got[w]) \subseteq Frames
    BY ContentsTyped
  <2> QED  BY <1>11, <2>1, MaxBatchAssumption, WorkerAssumption DEF PullPost
<1>12. ASSUME NEW w \in Workers, PullWait(w) \/ PullAgainLater(w) \/ PullStart(w)
       PROVE  TypeInv' /\ IdleInv'
  BY <1>12, WorkerAssumption DEF PullWait, PullAgainLater, PullStart
<1>13. ASSUME NEW w \in Workers, PullPutBack(w) PROVE TypeInv' /\ IdleInv'
  <2>1. Tail(got[w]) \in Seq(Frames) /\ Head(got[w]) \in Frames
        /\ Len(Tail(got[w])) <= Len(got[w]) /\ Len(Tail(got[w])) \in Nat /\ Len(got[w]) \in Nat
    BY <1>13, TailRemoves DEF PullPutBack
  <2>2. Append(queue, Head(got[w])) \in Seq(Frames)
    BY <2>1, AppendAdds
  <2>3. got' = [got EXCEPT ![w] = Tail(got[w])] /\ queue' = Append(queue, Head(got[w]))
    BY <1>13 DEF PullPutBack
  <2>4. \A v \in Workers : Len(got'[v]) <= MaxBatch
    BY <2>1, <2>3, MaxBatchAssumption
  <2> QED  BY <1>13, <2>1, <2>2, <2>3, <2>4 DEF PullPutBack
<1>14. CASE YieldPasses
  BY <1>14 DEF YieldPasses
<1>15. CASE UNCHANGED vars
  BY <1>15 DEF vars
<1> QED
  BY <1>1, <1>2, <1>3, <1>4, <1>5, <1>6, <1>7, <1>8, <1>9, <1>10, <1>11, <1>12, <1>13,
     <1>14, <1>15, <1>a
  DEF Next, Environment, PushStep, PullStep

-----------------------------------------------------------------------------
(* Every frame in one place *)

Pushed == UNION pushes
Queued == Contents(queue)
Held == UNION {Contents(got[w]) : w \in Workers}

\* No frame is in two places ...
ApartInv ==
  /\ upstream \cap (dropped \cup Pushed \cup todo \cup accepted \cup leftovers
                    \cup Queued \cup Held \cup posted) = {}
  /\ dropped \cap (Pushed \cup todo \cup accepted \cup leftovers \cup Queued
                   \cup Held \cup posted) = {}
  /\ Pushed \cap (todo \cup accepted \cup leftovers \cup Queued \cup Held \cup posted) = {}
  /\ todo \cap (accepted \cup leftovers \cup Queued \cup Held \cup posted) = {}
  /\ accepted \cap (leftovers \cup Queued \cup Held \cup posted) = {}
  /\ leftovers \cap (Queued \cup Held \cup posted) = {}
  /\ Queued \cap (Held \cup posted) = {}
  /\ Held \cap posted = {}

\* ... nor twice in one of those places that hold several batches or a sequence ...
OnceInv ==
  /\ \A B, C \in pushes : B # C => B \cap C = {}
  /\ Distinct(queue)
  /\ \A w \in Workers : Distinct(got[w])
  /\ \A v, w \in Workers : v # w => Contents(got[v]) \cap Contents(got[w]) = {}

\* ... and none is nowhere.
SomewhereInv ==
  setup.frames \subseteq upstream \cup dropped \cup Pushed \cup todo \cup accepted
                         \cup leftovers \cup Queued \cup Held \cup posted

PlaceInv == ApartInv /\ OnceInv /\ SomewhereInv

\* The frames of a batch are split in two by any region that is not negative, as it is
\* in a contiguous layer and in one whose queue does not exceed its capacity.
NotNegative == room \in Nat \/ Contiguous

LEMMA SplitInTwo ==
  ASSUME TypeInv, NotNegative, NEW F \in SUBSET Frames, NEW o, OneOwners(F)
  PROVE  LET k == Region(o, F, room)
         IN  FirstOf(F, k) \subseteq F /\ RestOf(F, k) = F \ FirstOf(F, k)
<1> DEFINE k == Region(o, F, room)
<1>1. k \in Nat
  BY RegionInRoom, RegionTyped DEF NotNegative, TypeInv
<1> HIDE DEF k
<1>2. FirstOf(F, k) \subseteq F /\ RestOf(F, k) = F \ FirstOf(F, k)
  BY <1>1, FirstOfSubset DEF RestOf
<1> QED  BY <1>2 DEF k

LEMMA PlaceInit == Init => PlaceInv
<1> SUFFICES ASSUME Init PROVE PlaceInv
  OBVIOUS
<1>1. Pushed = {} /\ Queued = {} /\ Held = {} /\ \A w \in Workers : got[w] = <<>>
  BY EmptyContents DEF Init, Pushed, Queued, Held
<1> HIDE DEF Pushed, Queued, Held
<1> QED  BY <1>1, EmptyContents DEF Init, PlaceInv, ApartInv, OnceInv, SomewhereInv

LEMMA PlaceStays ==
  ASSUME PlaceInv, UNCHANGED <<setup, upstream, dropped, pushes, todo, accepted,
                               leftovers, queue, got, posted>>
  PROVE  PlaceInv'
BY DEF PlaceInv, ApartInv, OnceInv, SomewhereInv, Pushed, Queued, Held

\* The frames in workers' hands when one worker's change.
OthersHold(w) == UNION {Contents(got[v]) : v \in Workers \ {w}}

LEMMA HeldChanges ==
  ASSUME TypeInv, NEW w \in Workers, NEW s, got' = [got EXCEPT ![w] = s]
  PROVE  /\ Held = OthersHold(w) \cup Contents(got[w])
         /\ Held' = OthersHold(w) \cup Contents(s)
<1>1. \A v \in Workers : got'[v] = IF v = w THEN s ELSE got[v]
  BY DEF TypeInv, ShapeInv
<1>2. UNION {Contents(got'[v]) : v \in Workers \ {w}} = OthersHold(w)
  BY <1>1 DEF OthersHold
<1>3. Held = OthersHold(w) \cup Contents(got[w])
  BY DEF Held, OthersHold
<1>4. Held' = (UNION {Contents(got'[v]) : v \in Workers \ {w}}) \cup Contents(got'[w])
  BY DEF Held
<1> QED  BY <1>1, <1>2, <1>3, <1>4

LEMMA EnvironmentPlaces ==
  ASSUME TypeInv, PlaceInv, Environment
  PROVE  PlaceInv'
<1>a. setup.frames \in SUBSET Frames /\ Discardable \in SUBSET Frames
  BY SetupsAssumption DEF TypeInv, ShapeInv, Discardable
<1>b. UNCHANGED <<queue, got>> => Queued' = Queued /\ Held' = Held
  BY DEF Queued, Held
<1>1. ASSUME NEW F \in SUBSET Frames, Forward(F) PROVE PlaceInv'
  <2>1. Pushed' = Pushed \cup F /\ F \subseteq upstream
    BY <1>1 DEF Forward, Pushed
  <2>2. OnceInv'
    BY <1>1 DEF Forward, PlaceInv, ApartInv, OnceInv, Pushed
  <2> HIDE DEF Pushed
  <2> QED  BY <1>1, <1>b, <2>1, <2>2
           DEF Forward, PlaceInv, ApartInv, SomewhereInv, pushVars
<1>2. ASSUME NEW F \in SUBSET Frames, RetryPosted(F) PROVE PlaceInv'
  <2>1. Pushed' = Pushed \cup F /\ F \subseteq posted
    BY <1>2 DEF RetryPosted, Pushed
  <2>2. OnceInv'
    BY <1>2 DEF RetryPosted, PlaceInv, ApartInv, OnceInv, Pushed
  <2> HIDE DEF Pushed
  <2> QED  BY <1>2, <1>b, <2>1, <2>2
           DEF RetryPosted, PlaceInv, ApartInv, SomewhereInv, pushVars
<1>3. ASSUME NEW o \in Owners, ClearBatch(o) PROVE PlaceInv'
  BY <1>3, <1>b
  DEF ClearBatch, PlaceInv, ApartInv, OnceInv, SomewhereInv, pushVars, envVars, Pushed
<1>4. ASSUME NEW o \in Owners, NEW F \in SUBSET Frames, DiscardUpstream(o, F)
      PROVE PlaceInv'
  <2>1. Pushed' = Pushed /\ F \subseteq upstream
    BY <1>4 DEF DiscardUpstream, Pushed, OwnedBy
  <2>2. OnceInv'
    BY <1>4 DEF DiscardUpstream, PlaceInv, OnceInv
  <2> HIDE DEF Pushed
  <2> QED  BY <1>4, <1>b, <2>1, <2>2
           DEF DiscardUpstream, PlaceInv, ApartInv, SomewhereInv, pushVars
<1> QED  BY <1>1, <1>2, <1>3, <1>4, <1>a DEF Environment

LEMMA PushPlaces ==
  ASSUME TypeInv, IdleInv, NotNegative, PlaceInv, NEW w \in Workers,
         PushStep(w) \/ \E B \in pushes : PushStart(w, B)
  PROVE  PlaceInv'
<1>a. UNCHANGED got => Held' = Held
  BY DEF Held
<1>b. UNCHANGED queue => Queued' = Queued
  BY DEF Queued
<1>1. ASSUME NEW B \in pushes, PushStart(w, B) PROVE PlaceInv'
  <2>1. Pushed' = Pushed \ B /\ B \subseteq Pushed /\ todo' = B
        /\ todo = {} /\ accepted = {} /\ leftovers = {}
    BY <1>1 DEF PushStart, Pushed, IdleInv, PlaceInv, OnceInv
  <2>2. OnceInv'
    BY <1>1 DEF PushStart, PlaceInv, OnceInv
  <2> HIDE DEF Pushed
  <2> QED  BY <1>1, <1>a, <1>b, <2>1, <2>2
           DEF PushStart, PlaceInv, ApartInv, SomewhereInv, envVars
<1>2. ASSUME NEW o \in Owners, PushSplit(w, o) PROVE PlaceInv'
  <2> DEFINE F == OwnedBy(todo, o)
             k == Region(o, F, room)
  <2>1. F \in SUBSET Frames /\ OneOwners(F) /\ F \subseteq todo
    BY OwnedByOne DEF TypeInv, ShapeInv, OwnedBy
  <2>2. FirstOf(F, k) \subseteq F /\ RestOf(F, k) = F \ FirstOf(F, k)
    BY <2>1, SplitInTwo
  <2>3. /\ todo' = todo \ F /\ accepted' = accepted \cup FirstOf(F, k)
        /\ leftovers' = leftovers \cup RestOf(F, k)
        /\ UNCHANGED <<setup, upstream, dropped, pushes, queue, got, posted>>
    BY <1>2 DEF PushSplit, envVars
  <2> HIDE DEF F, k
  <2>4. OnceInv' /\ Pushed' = Pushed
    BY <2>3 DEF PlaceInv, OnceInv, Pushed
  <2> QED  BY <1>a, <1>b, <2>1, <2>2, <2>3, <2>4 DEF PlaceInv, ApartInv, SomewhereInv
<1>3. CASE PushPut(w)
  <2>1. PICK f \in accepted : queue' = Append(queue, f) /\ accepted' = accepted \ {f}
    BY <1>3 DEF PushPut
  <2>2. f \in Frames /\ f \notin Contents(queue) /\ queue \in Seq(Frames)
    BY DEF PlaceInv, ApartInv, TypeInv, ShapeInv, Queued
  <2>3. Queued' = Queued \cup {f} /\ Distinct(queue')
    BY <2>1, <2>2, AppendAdds DEF Queued, PlaceInv, OnceInv
  <2>4. UNCHANGED <<setup, upstream, dropped, pushes, todo, leftovers, got, posted>>
    BY <1>3 DEF PushPut, envVars
  <2>5. OnceInv' /\ Pushed' = Pushed
    BY <2>3, <2>4 DEF PlaceInv, OnceInv, Pushed
  <2> HIDE DEF Queued
  <2> QED  BY <1>a, <2>1, <2>3, <2>4, <2>5 DEF PlaceInv, ApartInv, SomewhereInv
<1>4. CASE PushDone(w)
  <2>1. /\ todo = {} /\ accepted = {} /\ leftovers' = {}
        /\ pushes' = pushes \cup (IF leftovers # {} THEN {leftovers} ELSE {})
        /\ UNCHANGED <<setup, upstream, dropped, queue, todo, accepted, got, posted>>
    BY <1>4 DEF PushDone, EndsPush, envVars
  <2>2. Pushed' = Pushed \cup leftovers
    BY <2>1 DEF Pushed
  <2>3. OnceInv'
    <3>1. \A B \in pushes : B \cap leftovers = {}
      BY DEF PlaceInv, ApartInv, Pushed
    <3> QED  BY <2>1, <3>1 DEF PlaceInv, OnceInv
  <2> HIDE DEF Pushed
  <2> QED  BY <1>a, <1>b, <2>1, <2>2, <2>3 DEF PlaceInv, ApartInv, SomewhereInv
<1> QED  BY <1>1, <1>2, <1>3, <1>4 DEF PushStep

LEMMA PullPlaces ==
  ASSUME TypeInv, PlaceInv, NEW w \in Workers, PullStep(w) \/ PullStart(w)
  PROVE  PlaceInv'
<1>a. UNCHANGED pushes => Pushed' = Pushed
  BY DEF Pushed
<1>b. got[w] \in Seq(Frames) /\ queue \in Seq(Frames)
  BY DEF TypeInv, ShapeInv
<1>c. \A v \in Workers : v # w => Contents(got[v]) \cap Contents(got[w]) = {}
  BY DEF PlaceInv, OnceInv
<1>d. OthersHold(w) \cap Contents(got[w]) = {}
  BY <1>c DEF OthersHold
<1>1. CASE PullGet(w)
  <2> DEFINE f == Head(queue)
             s == Append(got[w], f)
  <2>1. /\ queue # <<>> /\ queue' = Tail(queue) /\ got' = [got EXCEPT ![w] = s]
        /\ UNCHANGED <<setup, upstream, dropped, pushes, todo, accepted, leftovers, posted>>
    BY <1>1 DEF PullGet, envVars, pushVars
  <2>2. /\ f \in Frames /\ f \in Queued /\ Queued' = Queued \ {f} /\ Distinct(queue')
    BY <1>b, <2>1, TailRemoves DEF PlaceInv, OnceInv, Queued
  <2>3. Held = OthersHold(w) \cup Contents(got[w]) /\ Held' = OthersHold(w) \cup Contents(s)
    BY <2>1, HeldChanges
  <2>4. f \notin Held
    BY <2>2 DEF PlaceInv, ApartInv
  <2>5. Contents(s) = Contents(got[w]) \cup {f} /\ Distinct(s)
    BY <1>b, <2>2, <2>3, <2>4, AppendAdds DEF PlaceInv, OnceInv
  <2>6. \A v \in Workers : got'[v] = IF v = w THEN s ELSE got[v]
    BY <2>1 DEF TypeInv, ShapeInv
  <2>7. \A v \in Workers : f \notin Contents(got[v])
    BY <2>4 DEF Held
  <2> HIDE DEF f, s
  <2>8. OnceInv'
    BY <2>1, <2>2, <2>5, <2>6, <2>7 DEF PlaceInv, OnceInv
  <2> HIDE DEF Queued, Held
  <2> QED  BY <1>a, <2>1, <2>2, <2>3, <2>5, <2>8 DEF PlaceInv, ApartInv, SomewhereInv
<1>2. CASE PullPutBack(w)
  <2> DEFINE f == Head(got[w])
             s == Tail(got[w])
  <2>1. /\ got[w] # <<>> /\ queue' = Append(queue, f) /\ got' = [got EXCEPT ![w] = s]
        /\ UNCHANGED <<setup, upstream, dropped, pushes, todo, accepted, leftovers, posted>>
    BY <1>2 DEF PullPutBack, envVars, pushVars
  <2>2. /\ f \in Frames /\ Contents(got[w]) = Contents(s) \cup {f}
        /\ Distinct(s) /\ f \notin Contents(s)
    BY <1>b, <2>1, TailRemoves DEF PlaceInv, OnceInv
  <2>3. Held = OthersHold(w) \cup Contents(got[w]) /\ Held' = OthersHold(w) \cup Contents(s)
    BY <2>1, HeldChanges
  <2>4. f \in Held /\ f \notin OthersHold(w)
    BY <1>d, <2>2, <2>3
  <2>5. f \notin Queued
    BY <2>4 DEF PlaceInv, ApartInv
  <2>6. Queued' = Queued \cup {f} /\ Distinct(queue')
    BY <1>b, <2>1, <2>2, <2>5, AppendAdds DEF PlaceInv, OnceInv, Queued
  <2>7. \A v \in Workers : got'[v] = IF v = w THEN s ELSE got[v]
    BY <2>1 DEF TypeInv, ShapeInv
  <2> HIDE DEF f, s
  <2>8. OnceInv'
    <3>1. \A v \in Workers : Contents(got'[v]) \subseteq Contents(got[v])
      BY <2>2, <2>7
    <3>2. \A v, u \in Workers : v # u => Contents(got'[v]) \cap Contents(got'[u]) = {}
      BY <3>1 DEF PlaceInv, OnceInv
    <3> QED  BY <2>1, <2>2, <2>6, <2>7, <3>2 DEF PlaceInv, OnceInv
  <2> HIDE DEF Queued, Held
  <2> QED  BY <1>a, <1>d, <2>1, <2>2, <2>3, <2>4, <2>6, <2>8
           DEF PlaceInv, ApartInv, SomewhereInv
<1>3. CASE PullPost(w)
  <2>1. /\ got' = [got EXCEPT ![w] = <<>>] /\ posted' = posted \cup Contents(got[w])
        /\ UNCHANGED <<setup, upstream, dropped, pushes, todo, accepted, leftovers, queue>>
    BY <1>3 DEF PullPost, envVars, pushVars
  <2>2. Held = OthersHold(w) \cup Contents(got[w]) /\ Held' = OthersHold(w)
    BY <2>1, HeldChanges, EmptyContents
  <2>3. Queued' = Queued
    BY <2>1 DEF Queued
  <2>4. \A v \in Workers : got'[v] = IF v = w THEN <<>> ELSE got[v]
    BY <2>1 DEF TypeInv, ShapeInv
  <2>5. OnceInv'
    BY <2>1, <2>4, EmptyContents DEF PlaceInv, OnceInv
  <2> HIDE DEF Queued, Held
  <2> QED  BY <1>a, <1>d, <2>1, <2>2, <2>3, <2>5 DEF PlaceInv, ApartInv, SomewhereInv
<1>4. CASE PullGot(w) \/ PullWait(w) \/ PullAgainLater(w) \/ PullStart(w)
  BY <1>4, PlaceStays DEF PullGot, PullWait, PullAgainLater, PullStart, pushVars, envVars
<1> QED  BY <1>1, <1>2, <1>3, <1>4 DEF PullStep

LEMMA PlaceNext ==
  ASSUME TypeInv, IdleInv, NotNegative, PlaceInv, [Next]_vars
  PROVE  PlaceInv'
<1>1. CASE YieldPasses \/ UNCHANGED vars
  BY <1>1, PlaceStays DEF YieldPasses, pushVars, envVars, vars
<1> QED  BY <1>1, EnvironmentPlaces, PushPlaces, PullPlaces DEF Next

LEMMA OneCopy == TypeInv /\ IdleInv /\ PlaceInv => EveryFrameInOnePlace
<1> SUFFICES ASSUME TypeInv, IdleInv, PlaceInv, NEW f \in setup.frames
             PROVE  Copies(f) = 1
  BY DEF EveryFrameInOnePlace
<1> DEFINE Named == {p \in DOMAIN Places : f \in Places[p]}
           Batches == {B \in pushes : f \in B}
           Slots == {i \in DOMAIN queue : queue[i] = f}
           Hands == {wi \in Workers \X (1..MaxBatch) :
                       wi[2] <= Len(got[wi[1]]) /\ got[wi[1]][wi[2]] = f}
           Only(S) == \E x : S = {x}
<1>1. Copies(f) = Cardinality(Named) + Cardinality(Batches) + Cardinality(Slots)
                  + Cardinality(Hands)
  BY DEF Copies
<1>2. /\ DOMAIN Places = {"upstream", "dropped", "todo", "accepted", "leftovers", "posted"}
      /\ Places["upstream"] = upstream /\ Places["dropped"] = dropped
      /\ Places["todo"] = todo /\ Places["accepted"] = accepted
      /\ Places["leftovers"] = leftovers /\ Places["posted"] = posted
  BY DEF Places
<1> DEFINE Elsewhere == upstream \cup dropped \cup todo \cup accepted \cup leftovers \cup posted
<1>3. (f \in Elsewhere => Only(Named)) /\ (f \notin Elsewhere => Named = {})
  <2> HIDE DEF Places
  <2>1. CASE f \in upstream
    <3>1. Named = {"upstream"}  BY <1>2, <2>1 DEF PlaceInv, ApartInv
    <3> QED  BY <3>1, <2>1
  <2>2. CASE f \in dropped
    <3>1. Named = {"dropped"}  BY <1>2, <2>2 DEF PlaceInv, ApartInv
    <3> QED  BY <3>1, <2>2
  <2>3. CASE f \in todo
    <3>1. Named = {"todo"}  BY <1>2, <2>3 DEF PlaceInv, ApartInv
    <3> QED  BY <3>1, <2>3
  <2>4. CASE f \in accepted
    <3>1. Named = {"accepted"}  BY <1>2, <2>4 DEF PlaceInv, ApartInv
    <3> QED  BY <3>1, <2>4
  <2>5. CASE f \in leftovers
    <3>1. Named = {"leftovers"}  BY <1>2, <2>5 DEF PlaceInv, ApartInv
    <3> QED  BY <3>1, <2>5
  <2>6. CASE f \in posted
    <3>1. Named = {"posted"}  BY <1>2, <2>6 DEF PlaceInv, ApartInv
    <3> QED  BY <3>1, <2>6
  <2>7. CASE f \notin Elsewhere
    <3>1. Named = {}  BY <1>2, <2>7
    <3> QED  BY <3>1, <2>7
  <2> QED  BY <2>1, <2>2, <2>3, <2>4, <2>5, <2>6, <2>7
<1>4. (f \in Pushed => Only(Batches)) /\ (f \notin Pushed => Batches = {})
  <2>1. ASSUME f \in Pushed PROVE Only(Batches)
    <3>1. PICK B \in pushes : f \in B
      BY <2>1 DEF Pushed
    <3>2. Batches = {B}
      BY <3>1 DEF PlaceInv, OnceInv
    <3> QED  BY <3>2
  <2> QED  BY <2>1 DEF Pushed
<1>5. (f \in Queued => Only(Slots)) /\ (f \notin Queued => Slots = {})
  <2>1. ASSUME f \in Queued PROVE Only(Slots)
    <3>1. PICK i \in DOMAIN queue : queue[i] = f
      BY <2>1 DEF Queued, Contents
    <3>2. Slots = {i}
      BY <3>1 DEF PlaceInv, OnceInv, Distinct
    <3> QED  BY <3>2
  <2> QED  BY <2>1 DEF Queued, Contents
<1>6. (f \in Held => Only(Hands)) /\ (f \notin Held => Hands = {})
  <2>0. \A w \in Workers : /\ DOMAIN got[w] = 1..Len(got[w]) /\ Len(got[w]) \in Nat
                           /\ Len(got[w]) <= MaxBatch
    BY DEF TypeInv, ShapeInv, IdleInv
  <2>1. ASSUME f \in Held PROVE Only(Hands)
    <3>1. PICK w \in Workers : f \in Contents(got[w])
      BY <2>1 DEF Held
    <3>2. PICK i \in DOMAIN got[w] : got[w][i] = f
      BY <3>1 DEF Contents
    <3>3. i \in 1..MaxBatch /\ i <= Len(got[w])
      BY <2>0, MaxBatchAssumption
    <3>4. <<w, i>> \in Hands
      BY <3>2, <3>3
    <3>5. ASSUME NEW h \in Hands PROVE h = <<w, i>>
      <4>1. h[1] \in Workers /\ h[2] \in DOMAIN got[h[1]] /\ got[h[1]][h[2]] = f
            /\ h = <<h[1], h[2]>>
        BY <2>0
      <4>2. h[1] = w
        BY <3>1, <4>1 DEF PlaceInv, OnceInv, Contents
      <4>3. h[2] = i
        BY <3>2, <4>1, <4>2 DEF PlaceInv, OnceInv, Distinct
      <4> QED  BY <4>1, <4>2, <4>3
    <3> HIDE DEF Hands
    <3>6. Hands = {<<w, i>>}
      BY <3>4, <3>5
    <3> QED  BY <3>6
  <2>2. ASSUME f \notin Held, NEW h \in Hands PROVE FALSE
    <3>1. h[1] \in Workers /\ h[2] \in DOMAIN got[h[1]] /\ got[h[1]][h[2]] = f
      BY <2>0
    <3> QED  BY <3>1, <2>2 DEF Held, Contents
  <2> QED  BY <2>1, <2>2
<1>7. \A S : (Only(S) => Cardinality(S) = 1) /\ (S = {} => Cardinality(S) = 0)
  BY FS_Singleton, FS_EmptySet
<1>8. f \in Elsewhere \cup Pushed \cup Queued \cup Held
  BY DEF PlaceInv, SomewhereInv
<1>9. /\ f \in Elsewhere => f \notin Pushed \cup Queued \cup Held
      /\ f \in Pushed => f \notin Queued \cup Held
      /\ f \in Queued => f \notin Held
  BY DEF PlaceInv, ApartInv
<1> HIDE DEF Named, Batches, Slots, Hands, Elsewhere, Only
<1> QED  BY <1>1, <1>3, <1>4, <1>5, <1>6, <1>7, <1>8, <1>9

PlacesKept ==
  /\ TypeInv /\ IdleInv
  /\ MinBatch = 1 => CapacityInv
  /\ MinBatch = 1 \/ Contiguous => PlaceInv

LEMMA PlacesKeptNext == PlacesKept /\ [Next]_vars => PlacesKept'
<1> SUFFICES ASSUME PlacesKept, [Next]_vars PROVE PlacesKept'
  OBVIOUS
<1>1. TypeInv' /\ IdleInv'
  BY TypeNext DEF PlacesKept
<1>2. MinBatch' = MinBatch /\ Contiguous' = Contiguous
  BY SetupStays DEF MinBatch, Contiguous
<1>3. MinBatch = 1 => CapacityInv'
  BY CapacityNext DEF PlacesKept
<1>4. MinBatch = 1 \/ Contiguous => PlaceInv'
  <2>1. MinBatch = 1 \/ Contiguous => NotNegative
    BY DEF PlacesKept, CapacityInv, RoomInv, NotNegative
  <2> QED  BY <2>1, PlaceNext DEF PlacesKept
<1> QED  BY <1>1, <1>2, <1>3, <1>4 DEF PlacesKept

\* No frame is lost or handled twice by a layer that does not wait for larger batches or
\* is contiguous, however many workers push, pull and put back at once.  In the others a
\* queue beyond its capacity makes the slices of push_batch overlap.
THEOREM FramesStayInOnePlace ==
  Spec => [](MinBatch = 1 \/ Contiguous => EveryFrameInOnePlace)
<1>1. Init => PlacesKept
  BY TypeInit, CapacityInit, PlaceInit DEF PlacesKept
<1>2. PlacesKept => (MinBatch = 1 \/ Contiguous => EveryFrameInOnePlace)
  BY OneCopy DEF PlacesKept
<1> QED  BY <1>1, <1>2, PlacesKeptNext, PTL DEF Spec

-----------------------------------------------------------------------------
(* The order of a contiguous layer *)

\* The frames D, which are sorted before the others of G, of which those that follow on
\* from b are some with the very next indices.
LEMMA RunOfFrames ==
  ASSUME NEW G \in SUBSET Frames, OneOwners(G), NEW b \in Int, NEW D \in SUBSET G,
         \A f \in D, g \in G : g.index <= f.index => g \in D
  PROVE  LET A == {f \in D : FollowsOn(f, G, b)}
             n == Cardinality(A)
         IN  /\ n \in Nat
             /\ {f.index : f \in A} = (b + 1)..(b + n)
             /\ \A f \in A, g \in G : g.index <= f.index => g \in A
<1> DEFINE A == {f \in D : FollowsOn(f, G, b)}
           n == Cardinality(A)
           I == {f.index : f \in A}
           index == [f \in A |-> f.index]
<1>0. \A f \in G : f.index \in Int
  BY DEF Frames
<1>1. ASSUME NEW f \in A, NEW g \in G, g.index <= f.index
      PROVE  g \in A /\ g.index \in (b + 1)..f.index
  <2> DEFINE To(h) == {e.index : e \in {e \in G : e.index <= h.index}}
  <2>1. f \in G /\ g \in D /\ f.index \in Int /\ g.index \in Int
    BY <1>0, <1>1
  <2>2. To(f) = (b + 1)..f.index
    BY DEF FollowsOn
  <2>3. g.index \in To(f)
    BY <1>1
  <2>4. \A i : i \in To(g) <=> i \in To(f) /\ i <= g.index
    BY <1>0, <1>1, <2>1
  <2>5. To(g) = (b + 1)..g.index
    <3>1. \A i : i \in To(g) <=> i \in (b + 1)..g.index
      BY <1>1, <2>1, <2>2, <2>4
    <3> HIDE DEF To
    <3> QED  BY <3>1
  <2> QED  BY <2>1, <2>2, <2>3, <2>5 DEF FollowsOn
<1>2. ASSUME NEW i \in I PROVE i \in Int /\ (b + 1)..i \subseteq I /\ i >= b + 1
  <2>1. PICK f \in A : f.index = i
    OBVIOUS
  <2>2. f \in G /\ i \in Int /\ i \in (b + 1)..i
    BY <1>0, <1>1, <2>1
  <2>3. ASSUME NEW j \in (b + 1)..i PROVE j \in I
    <3>1. \E g \in G : g.index <= f.index /\ g.index = j
      BY <2>1, <2>3 DEF FollowsOn
    <3> QED  BY <1>1, <3>1
  <2> QED  BY <2>2, <2>3
<1>3. A \in SUBSET Frames /\ IsFiniteSet(A) /\ n \in Nat
  <2>1. A \in SUBSET Frames
    OBVIOUS
  <2> QED  BY <2>1, FrameSets
<1>4. index \in Bijection(A, I)
  <2>1. index \in [A -> I] /\ \A i \in I : \E f \in A : index[f] = i
    OBVIOUS
  <2>2. \A f, g \in A : index[f] = index[g] => f = g
    BY DEF OneOwners
  <2> QED  BY <2>1, <2>2 DEF Bijection, Injection, IsInjective, Surjection
<1> HIDE DEF A, I, index
<1>5. IsFiniteSet(I) /\ Cardinality(I) = n
  BY <1>3, <1>4, FS_Bijection DEF ExistsBijection
<1>6. ASSUME NEW i \in I PROVE i \in (b + 1)..(b + n)
  <2>1. (b + 1)..i \in SUBSET I /\ i \in Int /\ i >= b + 1
    BY <1>2
  <2>2. Cardinality((b + 1)..i) <= n
    BY <1>5, <2>1, FS_Subset
  <2>3. Cardinality((b + 1)..i) = i - b
    BY <2>1, FS_Interval
  <2> QED  BY <1>3, <2>1, <2>2, <2>3
<1>7. I = (b + 1)..(b + n)
  <2>1. IsFiniteSet((b + 1)..(b + n)) /\ Cardinality((b + 1)..(b + n)) = n
    <3> HIDE DEF n
    <3>1. b + n \in Int /\ b + 1 \in Int
      BY <1>3
    <3>2. \A x, y \in Int : /\ IsFiniteSet(x..y)
                            /\ Cardinality(x..y) = IF x > y THEN 0 ELSE y - x + 1
      BY FS_Interval
    <3> QED  BY <1>3, <3>1, <3>2
  <2>2. I \in SUBSET ((b + 1)..(b + n))
    BY <1>6
  <2> QED  BY <1>5, <2>1, <2>2, FS_Subset
<1> QED  BY <1>1, <1>3, <1>7 DEF A, I

\* The frames sorted before f: how many there are is f's position.
Before(f, F) == {g \in F : g.index < f.index}

LEMMA FirstOfBefore ==
  ASSUME NEW F, NEW k
  PROVE  \A f : f \in FirstOf(F, k) <=> f \in F /\ Cardinality(Before(f, F)) < k
BY DEF FirstOf, Before

\* The region that _ensure_batch of a contiguous layer lets in has the indices that
\* follow the backlog, as many as it counts.
LEMMA RegionFollowsOn ==
  ASSUME Contiguous, TypeInv, NEW o \in Owners, NEW F \in SUBSET Frames, OneOwners(F)
  PROVE  LET k == Region(o, F, room)
         IN  /\ k \in Nat /\ FirstOf(F, k) \subseteq F
             /\ {f.index : f \in FirstOf(F, k)} = (backlog[o] + 1)..(backlog[o] + k)
<1> DEFINE b == backlog[o]
           D == FirstOf(F, room)
           A == {f \in D : FollowsOn(f, F, b)}
           k == Region(o, F, room)
<1>0. b \in Int /\ room \in Int /\ \A f \in F : f.index \in Int
  BY DEF TypeInv, Frames
<1>1. \A f \in F : IsFiniteSet(Before(f, F)) /\ Cardinality(Before(f, F)) \in Nat
  <2>1. \A f \in F : Before(f, F) \in SUBSET Frames
    BY DEF Before
  <2> QED  BY <2>1, FrameSets
<1>2. D \in SUBSET F
  BY FirstOfSubset
<1>3. ASSUME NEW f \in D, NEW g \in F, g.index <= f.index PROVE g \in D
  <2>1. Before(g, F) \in SUBSET Before(f, F) /\ f \in F
    BY <1>0, <1>2, <1>3 DEF Before
  <2>2. Cardinality(Before(g, F)) <= Cardinality(Before(f, F))
    BY <1>1, <2>1, FS_Subset
  <2>3. Cardinality(Before(f, F)) < room
    BY FirstOfBefore
  <2>4. Cardinality(Before(g, F)) < room
    BY <1>0, <1>1, <2>1, <2>2, <2>3
  <2> QED  BY <2>4, FirstOfBefore
<1>4. k = Cardinality(A)
  BY DEF Region
<1> HIDE DEF k
<1>5. /\ k \in Nat /\ {f.index : f \in A} = (b + 1)..(b + k)
      /\ \A f \in A, g \in F : g.index <= f.index => g \in A
  BY <1>0, <1>2, <1>3, <1>4, RunOfFrames
<1>6. A \in SUBSET F /\ A \in SUBSET Frames /\ IsFiniteSet(A)
  <2>1. A \in SUBSET F
    BY <1>2
  <2> HIDE DEF A
  <2> QED  BY <2>1, FrameSets
<1> HIDE DEF A, D
<1>7. ASSUME NEW f \in A PROVE f \in FirstOf(F, k)
  <2>1. Before(f, F) \in SUBSET A /\ f \notin Before(f, F) /\ f \in F
    BY <1>0, <1>5, <1>6 DEF Before
  <2>2. Cardinality(Before(f, F)) <= k /\ Cardinality(Before(f, F)) # k
    BY <1>4, <1>6, <2>1, FS_Subset
  <2>3. Cardinality(Before(f, F)) < k
    BY <1>1, <1>5, <2>1, <2>2
  <2> QED  BY <2>1, <2>3, FirstOfBefore
<1>8. ASSUME NEW f \in FirstOf(F, k) PROVE f \in A
  <2>1. f \in F /\ Cardinality(Before(f, F)) < k
    BY FirstOfBefore
  <2>2. SUFFICES ASSUME f \notin A PROVE FALSE
    OBVIOUS
  <2>3. A \in SUBSET Before(f, F)
    BY <1>0, <1>5, <1>6, <2>1, <2>2 DEF Before
  <2>4. k <= Cardinality(Before(f, F))
    BY <1>1, <1>4, <2>1, <2>3, FS_Subset
  <2> QED  BY <1>1, <1>5, <2>1, <2>4
<1>9. FirstOf(F, k) = A
  BY <1>7, <1>8
<1> QED  BY <1>5, <1>6, <1>9 DEF k

\* _advance_backlog passes over indices of the frames it is given alone.
LEMMA AdvancedFollowsOn ==
  ASSUME NEW b \in Int, NEW F \in SUBSET Frames, OneOwners(F)
  PROVE  /\ Advanced(b, F) \in Int
         /\ \A i \in Int : b < i /\ i <= Advanced(b, F) => \E f \in F : f.index = i
<1> DEFINE G == {g \in F : g.index > b}
           A == {f \in G : FollowsOn(f, G, b)}
<1>1. G \in SUBSET Frames /\ OneOwners(G)
  BY DEF OneOwners
<1>2. Cardinality(A) \in Nat /\ {f.index : f \in A} = (b + 1)..(b + Cardinality(A))
  <2> HIDE DEF G
  <2> QED  BY <1>1, RunOfFrames
<1>3. Advanced(b, F) = b + Cardinality(A)
  <2>1. A = {f \in F : f.index > b /\ FollowsOn(f, {g \in F : g.index > b}, b)}
    OBVIOUS
  <2> QED  BY <2>1 DEF Advanced
<1>4. \A i \in Int : b < i /\ i <= b + Cardinality(A) => \E f \in A : f.index = i
  BY <1>2
<1>5. A \subseteq F
  OBVIOUS
<1> HIDE DEF A
<1> QED  BY <1>2, <1>3, <1>4, <1>5

\* All of an owner's frames up to its backlog have been let in or discarded, and so have
\* those before any frame that was let in.
ReachedInv ==
  \A o \in Owners, g \in Frames :
    g.owner = o /\ g.index <= backlog[o] => g \in Admitted \cup dropped

BehindInv ==
  \A f \in Admitted, g \in Frames :
    g.owner = f.owner /\ g.index < f.index => g \in Admitted \cup dropped

OrderInv == ReachedInv /\ BehindInv

LEMMA AdmittedPlaces ==
  /\ Admitted = accepted \cup Queued \cup posted \cup Held
  /\ Admitted' = accepted' \cup Queued' \cup posted' \cup Held'
BY DEF Admitted, Queued, Held

LEMMA OrderStays ==
  ASSUME OrderInv, Admitted' = Admitted, dropped' = dropped, backlog' = backlog
  PROVE  OrderInv'
BY DEF OrderInv, ReachedInv, BehindInv

LEMMA EnvironmentOrder ==
  ASSUME TypeInv, MaxRetries = 0, OrderInv, Environment
  PROVE  OrderInv'
<1>a. setup.frames \in SUBSET Frames /\ Discardable \in SUBSET Frames
  BY SetupsAssumption DEF TypeInv, ShapeInv, Discardable
<1>b. UNCHANGED <<accepted, queue, posted, got>> => Admitted' = Admitted
  BY DEF Admitted
<1>1. ASSUME NEW F \in SUBSET Frames, Forward(F) PROVE OrderInv'
  BY <1>1, <1>b, OrderStays DEF Forward, pushVars
<1>2. ASSUME NEW F \in SUBSET Frames, RetryPosted(F) PROVE OrderInv'
  BY <1>2 DEF RetryPosted, TypeInv
<1>3. ASSUME NEW o \in Owners, ClearBatch(o) PROVE OrderInv'
  <2>1. Admitted' = Admitted /\ dropped' = dropped
        /\ backlog' = [backlog EXCEPT ![o] = -1]
    BY <1>3, <1>b DEF ClearBatch, pushVars, envVars
  <2>2. \A g \in Frames : g.owner = o => ~(g.index <= -1)
    BY DEF Frames
  <2> QED  BY <2>1, <2>2 DEF OrderInv, ReachedInv, BehindInv, TypeInv
<1>4. ASSUME NEW o \in Owners, NEW F \in SUBSET Frames, DiscardUpstream(o, F)
      PROVE OrderInv'
  <2>1. /\ Admitted' = Admitted /\ dropped' = dropped \cup F /\ F \subseteq OwnedBy(upstream, o)
        /\ backlog' = IF Contiguous
                      THEN [backlog EXCEPT ![o] = Advanced(backlog[o], F)] ELSE backlog
    BY <1>4, <1>b DEF DiscardUpstream, pushVars
  <2>2. F \in SUBSET Frames /\ OneOwners(F) /\ \A f \in F : f.owner = o
    BY <2>1 DEF OneOwners, OwnedBy, Frames
  <2>3. BehindInv'
    BY <2>1 DEF OrderInv, BehindInv
  <2>4. ASSUME NEW p \in Owners, NEW g \in Frames, g.owner = p, g.index <= backlog'[p]
        PROVE  g \in Admitted' \cup dropped'
    <3>1. CASE g.index <= backlog[p]
      BY <2>1, <2>4, <3>1 DEF OrderInv, ReachedInv
    <3>2. CASE ~(g.index <= backlog[p])
      <4>1. backlog[o] \in Int /\ backlog[p] \in Int /\ g.index \in Int
        BY DEF TypeInv, Frames
      <4>2. p = o /\ backlog[o] < g.index /\ g.index <= Advanced(backlog[o], F)
        BY <2>1, <2>4, <3>2, <4>1 DEF TypeInv
      <4>3. PICK f \in F : f.index = g.index
        BY <2>2, <4>1, <4>2, AdvancedFollowsOn
      <4>4. f = g
        BY <2>2, <2>4, <4>2, <4>3 DEF Frames
      <4> QED  BY <2>1, <4>4
    <3> QED  BY <3>1, <3>2
  <2> QED  BY <2>3, <2>4 DEF OrderInv, ReachedInv
<1> QED  BY <1>1, <1>2, <1>3, <1>4, <1>a DEF Environment

LEMMA PushSplitOrder ==
  ASSUME Contiguous, TypeInv, OrderInv, NEW w \in Workers, NEW o \in Owners, PushSplit(w, o)
  PROVE  OrderInv'
<1> DEFINE F == OwnedBy(todo, o)
           k == Region(o, F, room)
           b == backlog[o]
           A == FirstOf(F, k)
<1>1. F \in SUBSET Frames /\ OneOwners(F) /\ \A f \in F : f.owner = o
  BY OwnedByOne DEF TypeInv, ShapeInv, OwnedBy
<1>2. /\ k \in Nat /\ A \subseteq F /\ {f.index : f \in A} = (b + 1)..(b + k)
  BY <1>1, RegionFollowsOn
<1>3. /\ accepted' = accepted \cup A /\ dropped' = dropped
      /\ backlog' = [backlog EXCEPT ![o] = @ + k]
      /\ UNCHANGED <<queue, posted, got>>
  BY DEF PushSplit, envVars
<1> HIDE DEF F, k, A
<1>4. Admitted' = Admitted \cup A
  BY <1>3 DEF Admitted
<1>5. b \in Int /\ \A g \in Frames : g.index \in Int
  BY DEF TypeInv, Frames
<1>6. ASSUME NEW g \in Frames, g.owner = o, g.index <= b + k
      PROVE  g \in Admitted' \cup dropped'
  <2>1. CASE g.index <= b
    BY <1>3, <1>4, <1>6, <2>1 DEF OrderInv, ReachedInv
  <2>2. CASE ~(g.index <= b)
    <3>1. g.index \in (b + 1)..(b + k)
      BY <1>2, <1>5, <1>6, <2>2
    <3>2. PICK f \in A : f.index = g.index
      BY <1>2, <3>1
    <3>3. f = g
      BY <1>1, <1>2, <1>6, <3>2 DEF Frames
    <3> QED  BY <1>4, <3>3
  <2> QED  BY <2>1, <2>2
<1>7. ReachedInv'
  <2>1. \A p \in Owners : backlog'[p] = IF p = o THEN b + k ELSE backlog[p]
    BY <1>3 DEF TypeInv
  <2> QED  BY <1>3, <1>4, <1>6, <2>1 DEF OrderInv, ReachedInv
<1>8. BehindInv'
  <2>1. ASSUME NEW f \in A, NEW g \in Frames, g.owner = f.owner, g.index < f.index
        PROVE  g \in Admitted' \cup dropped'
    <3>1. f \in Frames /\ f.owner = o /\ f.index <= b + k
      BY <1>1, <1>2, <1>5
    <3>2. g.index <= b + k
      BY <1>2, <1>5, <2>1, <3>1
    <3> QED  BY <1>6, <2>1, <3>1, <3>2
  <2> QED  BY <1>3, <1>4, <2>1 DEF OrderInv, BehindInv
<1> QED  BY <1>7, <1>8 DEF OrderInv

\* No other step of a worker lets a frame in or out.
LEMMA WorkerOrder ==
  ASSUME TypeInv, IdleInv, OrderInv, NEW w \in Workers,
         \/ PushPut(w) \/ PushDone(w) \/ \E B \in pushes : PushStart(w, B)
         \/ PullStep(w) \/ PullStart(w)
  PROVE  OrderInv'
<1>a. got[w] \in Seq(Frames) /\ queue \in Seq(Frames)
  BY DEF TypeInv, ShapeInv
<1>b. UNCHANGED <<accepted, queue, posted, got>> => Admitted' = Admitted
  BY DEF Admitted
<1>1. CASE PushPut(w)
  <2>1. PICK f \in accepted : queue' = Append(queue, f) /\ accepted' = accepted \ {f}
    BY <1>1 DEF PushPut
  <2>2. Queued' = Queued \cup {f}
    BY <1>a, <2>1, AppendAdds DEF Queued, TypeInv, ShapeInv
  <2>3. UNCHANGED <<dropped, backlog, got, posted>>
    BY <1>1 DEF PushPut, envVars
  <2>4. Held' = Held
    BY <2>3 DEF Held
  <2>5. Admitted' = Admitted
    BY <2>1, <2>2, <2>3, <2>4, AdmittedPlaces
  <2> QED  BY <2>3, <2>5, OrderStays
<1>2. CASE PullGet(w)
  <2> DEFINE s == Append(got[w], Head(queue))
  <2>1. /\ queue # <<>> /\ queue' = Tail(queue) /\ got' = [got EXCEPT ![w] = s]
        /\ UNCHANGED <<dropped, backlog, accepted, posted>>
    BY <1>2 DEF PullGet, envVars, pushVars
  <2>2. Queued = Queued' \cup {Head(queue)} /\ Head(queue) \in Frames
    BY <1>a, <2>1, TailRemoves DEF Queued
  <2>3. Contents(s) = Contents(got[w]) \cup {Head(queue)}
    BY <1>a, <2>2, AppendAdds
  <2>4. Held' = Held \cup {Head(queue)}
    BY <2>1, <2>3, HeldChanges
  <2>5. Admitted' = Admitted
    BY <2>1, <2>2, <2>4, AdmittedPlaces
  <2> QED  BY <2>1, <2>5, OrderStays
<1>3. CASE PullPutBack(w)
  <2> DEFINE s == Tail(got[w])
             f == Head(got[w])
  <2>1. /\ got[w] # <<>> /\ queue' = Append(queue, f) /\ got' = [got EXCEPT ![w] = s]
        /\ UNCHANGED <<dropped, backlog, accepted, posted>>
    BY <1>3 DEF PullPutBack, envVars, pushVars
  <2>2. Contents(got[w]) = Contents(s) \cup {f} /\ f \in Frames
    BY <1>a, <2>1, TailRemoves
  <2>3. Queued' = Queued \cup {f}
    BY <1>a, <2>1, <2>2, AppendAdds DEF Queued
  <2>4. Held \cup {f} = Held' \cup {f} /\ f \in Held
    BY <2>1, <2>2, HeldChanges
  <2>5. Admitted' = Admitted
    BY <2>1, <2>3, <2>4, AdmittedPlaces
  <2> QED  BY <2>1, <2>5, OrderStays
<1>4. CASE PullPost(w)
  <2>1. /\ got' = [got EXCEPT ![w] = <<>>] /\ posted' = posted \cup Contents(got[w])
        /\ UNCHANGED <<dropped, backlog, accepted, queue>>
    BY <1>4 DEF PullPost, envVars, pushVars
  <2>2. Held = Held' \cup Contents(got[w])
    BY <2>1, HeldChanges, EmptyContents
  <2>3. Queued' = Queued
    BY <2>1 DEF Queued
  <2>4. Admitted' = Admitted
    BY <2>1, <2>2, <2>3, AdmittedPlaces
  <2> QED  BY <2>1, <2>4, OrderStays
<1>5. CASE PullGot(w) \/ PullWait(w) \/ PullAgainLater(w) \/ PullStart(w) \/ PushDone(w)
  BY <1>5, <1>b, OrderStays
  DEF PullGot, PullWait, PullAgainLater, PullStart, PushDone, EndsPush, pushVars, envVars
<1>6. ASSUME NEW B \in pushes, PushStart(w, B) PROVE OrderInv'
  BY <1>6, <1>b, OrderStays DEF PushStart, envVars
<1> QED  BY <1>1, <1>2, <1>3, <1>4, <1>5, <1>6 DEF PullStep

OrderKept ==
  /\ TypeInv /\ IdleInv
  /\ Contiguous /\ MaxRetries = 0 => OrderInv

LEMMA OrderKeptNext == OrderKept /\ [Next]_vars => OrderKept'
<1> SUFFICES ASSUME OrderKept, [Next]_vars PROVE OrderKept'
  OBVIOUS
<1>1. TypeInv' /\ IdleInv'
  BY TypeNext DEF OrderKept
<1>2. MaxRetries' = MaxRetries /\ Contiguous' = Contiguous
  BY SetupStays DEF MaxRetries, Contiguous
<1>3. ASSUME Contiguous, MaxRetries = 0 PROVE OrderInv'
  <2> USE <1>3 DEF OrderKept
  <2>1. CASE YieldPasses \/ UNCHANGED vars
    <3>1. Admitted' = Admitted /\ dropped' = dropped /\ backlog' = backlog
      BY <2>1 DEF YieldPasses, vars, pushVars, envVars, Admitted
    <3> QED  BY <3>1, OrderStays
  <2>2. ASSUME NEW w \in Workers, PushStep(w) PROVE OrderInv'
    BY <2>2, PushSplitOrder, WorkerOrder DEF PushStep
  <2> QED  BY <2>1, <2>2, EnvironmentOrder, WorkerOrder DEF Next
<1> QED  BY <1>1, <1>2, <1>3 DEF OrderKept

\* A contiguous layer whose handler does not retry lets no frame overtake an earlier one
\* of its owner that was not discarded, whoever discards upstream, pulls, puts frames
\* back or closes beside it.  A frame that is retried is behind those that followed it.
THEOREM NoFrameOvertakes == Spec => [](MaxRetries = 0 => NothingOvertakes)
<1>1. Init => OrderKept
  <2> SUFFICES ASSUME Init PROVE OrderInv
    BY TypeInit DEF OrderKept
  <2>1. Admitted = {}
    BY EmptyContents DEF Init, Admitted
  <2>2. \A g \in Frames : ~(g.index <= -1)
    BY DEF Frames
  <2> QED  BY <2>1, <2>2 DEF OrderInv, ReachedInv, BehindInv, Init
<1>2. OrderKept => (MaxRetries = 0 => NothingOvertakes)
  BY DEF OrderKept, OrderInv, BehindInv, NothingOvertakes
<1> QED  BY <1>1, <1>2, OrderKeptNext, PTL DEF Spec

=============================================================================
