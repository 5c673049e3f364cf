---------------------------- MODULE WindowProofs ----------------------------
(***************************************************************************)
(* Proofs about module Window, for any number of items and pumps and any   *)
(* window.  As long as the wrapper and the ready callback do not raise,    *)
(* _window_size is the room in use and the window bounds the frames in     *)
(* flight; both conditions are needed, as WindowLimits.cfg shows.  Frames  *)
(* are chained to their predecessors whatever raises, and carry the items  *)
(* in the order these were fed when each can be framed.                    *)
(***************************************************************************)
EXTENDS Window, FiniteSetTheorems, TLAPS, SequenceTheorems

ShapeInv ==
  /\ windowSize \in Int
  /\ logt \in Nat
  /\ pc \in [Pumps -> {"idle", "limited", "reserved", "feeding"}]
  /\ want \in [Pumps -> Int]
  /\ collected \in [Pumps -> SUBSET Nat]

\* Where a pump is tells what it holds.
PumpInv ==
  \A p \in Pumps :
    /\ pc[p] # "feeding" => collected[p] = {}
    /\ pc[p] = "reserved" => want[p] \in 1..MaxWindow

\* Indices are used once, and a frame is in one place.
PlaceInv ==
  /\ Outstanding \subseteq 0..(logt - 1)
  /\ \A p, q \in Pumps : p # q => collected[p] \cap collected[q] = {}
  /\ \A p \in Pumps : collected[p] \cap (inflight \cup tearing) = {}
  /\ inflight \cap tearing = {}
  /\ raised = {}

SizeInv == RoomIsExact /\ windowSize <= MaxWindow

WindowInv == ShapeInv /\ PumpInv /\ PlaceInv /\ SizeInv

-----------------------------------------------------------------------------
(* Counting *)

\* The slots of one pump.
SlotsOf(p, m) == {p} \X (1..m)

LEMMA SlotCount ==
  ASSUME NEW p, NEW m \in Nat
  PROVE  IsFiniteSet(SlotsOf(p, m)) /\ Cardinality(SlotsOf(p, m)) = m
<1>1. IsFiniteSet(1..m) /\ Cardinality(1..m) = m
  BY FS_Interval
<1>2. IsFiniteSet({p}) /\ Cardinality({p}) = 1
  BY FS_Singleton
<1>3. /\ IsFiniteSet({p} \X (1..m))
      /\ Cardinality({p} \X (1..m)) = Cardinality({p}) * Cardinality(1..m)
  BY <1>1, <1>2, FS_Product
<1>4. 1 * m = m
  OBVIOUS
<1> QED  BY <1>1, <1>2, <1>3, <1>4 DEF SlotsOf

LEMMA ReservedFinite == IsFiniteSet(Reserved) /\ Cardinality(Reserved) \in Nat
<1>1. IsFiniteSet(1..MaxWindow)
  BY WindowAssumption, FS_Interval
<1>2. IsFiniteSet(Pumps \X (1..MaxWindow))
  BY <1>1, PumpsAssumption, FS_Product
<1>3. Reserved \subseteq Pumps \X (1..MaxWindow)
  BY DEF Reserved
<1> QED  BY <1>2, <1>3, FS_Subset, FS_CardinalityType

LEMMA OutstandingFinite ==
  ASSUME WindowInv
  PROVE  /\ IsFiniteSet(Outstanding)
         /\ Cardinality(Outstanding) \in Nat
<1>1. logt - 1 \in Int /\ 0 \in Int
  BY DEF WindowInv, ShapeInv
<1>2. IsFiniteSet(0..(logt - 1))
  BY <1>1, FS_Interval
<1> QED  BY <1>2, FS_Subset, FS_CardinalityType DEF WindowInv, PlaceInv

\* Adding to and taking from a finite set what is not, or is, in it.
LEMMA AddDisjoint ==
  ASSUME NEW S, NEW T, IsFiniteSet(S), IsFiniteSet(T), S \cap T = {}
  PROVE  IsFiniteSet(S \cup T)
         /\ Cardinality(S \cup T) = Cardinality(S) + Cardinality(T)
<1>1. Cardinality(S \cap T) = 0
  BY FS_EmptySet
<1>2. Cardinality(S) \in Nat /\ Cardinality(T) \in Nat
  BY FS_CardinalityType
<1>3. IsFiniteSet(S \cup T) /\ Cardinality(S \cup T)
        = Cardinality(S) + Cardinality(T) - Cardinality(S \cap T)
  BY FS_Union
<1> QED  BY <1>1, <1>2, <1>3

LEMMA TakeSubset ==
  ASSUME NEW S, NEW T \in SUBSET S, IsFiniteSet(S)
  PROVE  IsFiniteSet(S \ T)
         /\ Cardinality(S \ T) = Cardinality(S) - Cardinality(T)
<1>1. S \cap T = T
  OBVIOUS
<1> QED  BY <1>1, FS_Difference

-----------------------------------------------------------------------------

LEMMA WindowInit == Init => WindowInv
<1> SUFFICES ASSUME Init PROVE WindowInv
  OBVIOUS
<1>1. Outstanding = {} /\ Reserved = {}
  BY DEF Init, Outstanding, Reserved
<1>2. SizeInv
  BY <1>1, FS_EmptySet, WindowAssumption DEF Init, SizeInv, RoomIsExact
<1> QED  BY <1>1, <1>2 DEF Init, WindowInv, ShapeInv, PumpInv, PlaceInv

\* Steps that move frames between places or pumps between stages, and neither
\* reserve room nor give any back.
LEMMA SameSize ==
  ASSUME WindowInv, windowSize' = windowSize,
         Outstanding' = Outstanding, Reserved' = Reserved
  PROVE  SizeInv'
  BY DEF WindowInv, SizeInv, RoomIsExact

LEMMA FeedStepInv ==
  ASSUME WindowInv, FeedPut \/ FeedDispatch
  PROVE  WindowInv'
<1>1. UNCHANGED <<windowSize, logt, pc, want, collected, inflight, tearing, raised>>
  BY DEF FeedPut, FeedDispatch, frameVars, lifeVars
<1>2. Outstanding' = Outstanding /\ Reserved' = Reserved
  BY <1>1 DEF Outstanding, Reserved
<1> QED  BY <1>1, <1>2, SameSize DEF WindowInv, ShapeInv, PumpInv, PlaceInv

LEMMA PumpLimitInv ==
  ASSUME WindowInv, NEW p \in Pumps, NEW r \in Int, PumpLimit(p, r)
  PROVE  WindowInv'
<1> USE DEF PumpLimit, frameVars, lifeVars
<1>1. Outstanding' = Outstanding
  BY DEF Outstanding
<1>2. \A q \in Pumps : /\ pc'[q] = IF q = p THEN "limited" ELSE pc[q]
                       /\ want'[q] = IF q = p THEN r ELSE want[q]
  BY DEF WindowInv, ShapeInv
<1>3. pc[p] = "idle"
  OBVIOUS
<1>4. Reserved' = Reserved
  BY <1>2, <1>3 DEF Reserved
<1>5. ShapeInv' /\ PumpInv' /\ PlaceInv'
  BY <1>1, <1>2 DEF WindowInv, ShapeInv, PumpInv, PlaceInv
<1> QED  BY <1>1, <1>4, <1>5, SameSize DEF WindowInv

LEMMA PumpReserveInv ==
  ASSUME WindowInv, NEW p \in Pumps, PumpReserve(p)
  PROVE  WindowInv'
<1> DEFINE m == AtMost(want[p], MaxWindow - windowSize)
<1>1. /\ pc[p] = "limited"
      /\ UNCHANGED <<logt, collected, inflight, tearing, raised>>
  BY DEF PumpReserve, frameVars, lifeVars
<1>2. Outstanding' = Outstanding
  BY <1>1 DEF Outstanding
<1>3. m \in Int /\ m <= MaxWindow - windowSize
  BY WindowAssumption DEF AtMost, WindowInv, ShapeInv
<1>4. PlaceInv'
  BY <1>1, <1>2 DEF WindowInv, PlaceInv
<1>5. CASE m > 0
  <2>1. /\ windowSize' = windowSize + m
        /\ want' = [want EXCEPT ![p] = m]
        /\ pc' = [pc EXCEPT ![p] = "reserved"]
    BY <1>5 DEF PumpReserve
  <2>2. \A q \in Pumps : /\ pc'[q] = IF q = p THEN "reserved" ELSE pc[q]
                         /\ want'[q] = IF q = p THEN m ELSE want[q]
    BY <2>1 DEF WindowInv, ShapeInv
  <2>3. Cardinality(Outstanding) \in Nat /\ Cardinality(Reserved) \in Nat
    BY OutstandingFinite, ReservedFinite
  <2>4. windowSize \in Nat /\ m \in 1..MaxWindow
    BY <2>3, <1>3, <1>5, WindowAssumption
    DEF WindowInv, ShapeInv, SizeInv, RoomIsExact
  <2> HIDE DEF m
  <2>5. Reserved' = Reserved \cup SlotsOf(p, m)
    BY <1>1, <2>2, <2>4, WindowAssumption DEF Reserved, SlotsOf
  <2>6. Reserved \cap SlotsOf(p, m) = {}
    BY <1>1 DEF Reserved, SlotsOf
  <2>7. Cardinality(Reserved') = Cardinality(Reserved) + m
    <3>1. m \in Nat
      BY <2>4
    <3>2. IsFiniteSet(SlotsOf(p, m)) /\ Cardinality(SlotsOf(p, m)) = m
      BY <3>1, SlotCount
    <3> QED  BY <2>5, <2>6, <3>2, ReservedFinite, AddDisjoint
  <2>8. SizeInv'
    BY <1>2, <1>3, <2>1, <2>3, <2>4, <2>7, WindowAssumption
    DEF WindowInv, SizeInv, RoomIsExact
  <2>9. ShapeInv' /\ PumpInv'
    BY <1>1, <2>1, <2>2, <2>4 DEF WindowInv, ShapeInv, PumpInv
  <2> QED  BY <1>4, <2>8, <2>9 DEF WindowInv
<1>6. CASE ~(m > 0)
  <2>1. /\ windowSize' = windowSize
        /\ want' = [want EXCEPT ![p] = 0]
        /\ pc' = [pc EXCEPT ![p] = "idle"]
    BY <1>6 DEF PumpReserve
  <2>2. \A q \in Pumps : /\ pc'[q] = IF q = p THEN "idle" ELSE pc[q]
                         /\ want'[q] = IF q = p THEN 0 ELSE want[q]
    BY <2>1 DEF WindowInv, ShapeInv
  <2>3. Reserved' = Reserved
    BY <1>1, <2>2 DEF Reserved
  <2>4. ShapeInv' /\ PumpInv'
    BY <1>1, <2>1, <2>2 DEF WindowInv, ShapeInv, PumpInv
  <2> QED  BY <1>2, <1>4, <2>1, <2>3, <2>4, SameSize DEF WindowInv
<1> QED  BY <1>5, <1>6

LEMMA PumpCollectInv ==
  ASSUME WindowInv, NEW p \in Pumps, NEW k \in Nat, PumpCollect(p, k)
  PROVE  WindowInv'
<1> DEFINE new == logt..(logt + k - 1)
<1>1. /\ pc[p] = "reserved"
      /\ k <= want[p]
      /\ collected' = [collected EXCEPT ![p] = new]
      /\ logt' = logt + k
      /\ windowSize' = windowSize - (want[p] - k)
      /\ want' = [want EXCEPT ![p] = 0]
      /\ pc' = [pc EXCEPT ![p] = IF k = 0 THEN "idle" ELSE "feeding"]
      /\ UNCHANGED <<inflight, tearing, raised>>
  BY DEF PumpCollect, Reach, Framable, lifeVars
<1>2. \A q \in Pumps :
        /\ pc'[q] = IF q = p THEN (IF k = 0 THEN "idle" ELSE "feeding") ELSE pc[q]
        /\ want'[q] = IF q = p THEN 0 ELSE want[q]
        /\ collected'[q] = IF q = p THEN new ELSE collected[q]
  BY <1>1 DEF WindowInv, ShapeInv
<1>3. logt \in Nat /\ want[p] \in 1..MaxWindow /\ collected[p] = {}
      /\ windowSize \in Int
  BY <1>1 DEF WindowInv, ShapeInv, PumpInv
<1>4. IsFiniteSet(new) /\ Cardinality(new) = k
  <2>1. logt \in Int /\ logt + k - 1 \in Int
    BY <1>3
  <2>2. IsFiniteSet(new) /\ Cardinality(new)
          = IF logt > logt + k - 1 THEN 0 ELSE (logt + k - 1) - logt + 1
    BY <2>1, FS_Interval
  <2> QED  BY <2>2, <1>3
<1>5. new \cap Outstanding = {} /\ new \subseteq Nat
      /\ new \subseteq 0..(logt + k - 1)
  BY <1>3 DEF WindowInv, PlaceInv
<1>6. k = 0 => new = {}
  BY <1>3
<1> HIDE DEF new
<1>7. Outstanding' = Outstanding \cup new
  <2>1. ASSUME NEW i \in Outstanding' PROVE i \in Outstanding \cup new
    <3>1. CASE i \in inflight' \cup tearing'
      BY <3>1, <1>1 DEF Outstanding
    <3>2. CASE \E q \in Pumps : i \in collected'[q]
      BY <3>2, <1>2 DEF Outstanding
    <3> QED  BY <2>1, <3>1, <3>2 DEF Outstanding
  <2>2. ASSUME NEW i \in Outstanding \cup new PROVE i \in Outstanding'
    <3>1. CASE i \in inflight \cup tearing
      BY <3>1, <1>1 DEF Outstanding
    <3>2. CASE i \in new
      BY <3>2, <1>2 DEF Outstanding
    <3>3. CASE \E q \in Pumps : i \in collected[q]
      <4>1. PICK q \in Pumps : i \in collected[q]
        BY <3>3
      <4>2. q # p
        BY <4>1, <1>3
      <4> QED  BY <4>1, <4>2, <1>2 DEF Outstanding
    <3> QED  BY <2>2, <3>1, <3>2, <3>3 DEF Outstanding
  <2> QED  BY <2>1, <2>2
<1>8. Cardinality(Outstanding') = Cardinality(Outstanding) + k
  BY <1>4, <1>5, <1>7, OutstandingFinite, AddDisjoint
<1>9. Reserved' = Reserved \ SlotsOf(p, want[p])
  BY <1>1, <1>2, <1>3, WindowAssumption DEF Reserved, SlotsOf
<1>10. SlotsOf(p, want[p]) \subseteq Reserved
  BY <1>1, <1>3, WindowAssumption DEF Reserved, SlotsOf
<1>11. Cardinality(Reserved') = Cardinality(Reserved) - want[p]
  <2>1. want[p] \in Nat
    BY <1>3
  <2>2. Cardinality(SlotsOf(p, want[p])) = want[p]
    BY <2>1, SlotCount
  <2> QED  BY <1>9, <1>10, <2>2, ReservedFinite, TakeSubset
<1>12. SizeInv'
  <2>1. Cardinality(Outstanding) \in Nat /\ Cardinality(Reserved) \in Nat
    BY OutstandingFinite, ReservedFinite
  <2> QED  BY <2>1, <1>1, <1>3, <1>8, <1>11, WindowAssumption
           DEF WindowInv, SizeInv, RoomIsExact
<1>13. ShapeInv' /\ PumpInv'
  <2>1. windowSize' \in Int /\ logt' \in Nat
    BY <1>1, <1>3, WindowAssumption
  <2>2. (IF k = 0 THEN "idle" ELSE "feeding") \in {"idle", "feeding"}
    OBVIOUS
  <2>3. ShapeInv'
    BY <1>1, <1>5, <2>1, <2>2 DEF WindowInv, ShapeInv
  <2>4. PumpInv'
    BY <1>2, <1>6, <2>2 DEF WindowInv, PumpInv
  <2> QED  BY <2>3, <2>4
<1>14. PlaceInv'
  <2>1. Outstanding' \subseteq 0..(logt' - 1)
    BY <1>1, <1>3, <1>5, <1>7 DEF WindowInv, PlaceInv
  <2>2. \A q \in Pumps : collected[q] \subseteq Outstanding
    BY DEF Outstanding
  <2>3. inflight \cup tearing \subseteq Outstanding
    BY DEF Outstanding
  <2>4. ASSUME NEW q \in Pumps, NEW r \in Pumps, q # r
        PROVE  collected'[q] \cap collected'[r] = {}
    <3>1. collected[q] \cap collected[r] = {}
      BY <2>4 DEF WindowInv, PlaceInv
    <3>2. new \cap collected[q] = {} /\ new \cap collected[r] = {}
      BY <1>5, <2>2
    <3> QED  BY <2>4, <3>1, <3>2, <1>2
  <2>5. ASSUME NEW q \in Pumps
        PROVE  collected'[q] \cap (inflight' \cup tearing') = {}
    <3>1. new \cap (inflight \cup tearing) = {}
      BY <1>5, <2>3
    <3> QED  BY <3>1, <1>1, <1>2 DEF WindowInv, PlaceInv
  <2>6. inflight' \cap tearing' = {} /\ raised' = {}
    BY <1>1 DEF WindowInv, PlaceInv
  <2> QED  BY <2>1, <2>4, <2>5, <2>6 DEF PlaceInv
<1> QED  BY <1>12, <1>13, <1>14 DEF WindowInv

LEMMA PumpFeedInv ==
  ASSUME WindowInv, NEW p \in Pumps, PumpFeed(p)
  PROVE  WindowInv'
<1>1. /\ pc[p] = "feeding"
      /\ inflight' = inflight \cup collected[p]
      /\ collected' = [collected EXCEPT ![p] = {}]
      /\ pc' = [pc EXCEPT ![p] = "idle"]
      /\ UNCHANGED <<windowSize, logt, want, tearing, raised>>
  BY DEF PumpFeed, frameVars
<1>2. \A q \in Pumps : /\ pc'[q] = IF q = p THEN "idle" ELSE pc[q]
                       /\ collected'[q] = IF q = p THEN {} ELSE collected[q]
  BY <1>1 DEF WindowInv, ShapeInv
<1>3. Reserved' = Reserved
  BY <1>1, <1>2 DEF Reserved
<1>4. Outstanding' = Outstanding
  <2>1. ASSUME NEW i \in Outstanding' PROVE i \in Outstanding
    BY <2>1, <1>1, <1>2 DEF Outstanding
  <2>2. ASSUME NEW i \in Outstanding PROVE i \in Outstanding'
    BY <2>2, <1>1, <1>2 DEF Outstanding
  <2> QED  BY <2>1, <2>2
<1>5. ShapeInv' /\ PumpInv'
  BY <1>1, <1>2 DEF WindowInv, ShapeInv, PumpInv
<1>6. PlaceInv'
  BY <1>1, <1>2, <1>4 DEF WindowInv, PlaceInv
<1> QED  BY <1>1, <1>3, <1>4, <1>5, <1>6, SameSize DEF WindowInv

LEMMA CallbackInv ==
  ASSUME WindowInv, NEW F \in SUBSET Indices, Discarded(F) \/ Ready(F, FALSE)
  PROVE  WindowInv'
<1>1. /\ F \subseteq inflight
      /\ inflight' = inflight \ F
      /\ tearing' = tearing \cup F
      /\ UNCHANGED <<windowSize, logt, pc, want, collected, raised>>
  BY DEF Discarded, Ready, frameVars
<1>2. Outstanding' = Outstanding
  BY <1>1 DEF Outstanding
<1>3. Reserved' = Reserved
  BY <1>1 DEF Reserved
<1>4. ShapeInv' /\ PumpInv' /\ PlaceInv'
  BY <1>1, <1>2 DEF WindowInv, ShapeInv, PumpInv, PlaceInv
<1> QED  BY <1>1, <1>2, <1>3, <1>4, SameSize DEF WindowInv

LEMMA TearInv ==
  ASSUME WindowInv, NEW F \in SUBSET Indices, Tear(F)
  PROVE  WindowInv'
<1>1. /\ F \subseteq tearing
      /\ windowSize' = windowSize - Cardinality(F)
      /\ tearing' = tearing \ F
      /\ UNCHANGED <<logt, pc, want, collected, inflight, raised>>
  BY DEF Tear, frameVars
<1>2. Outstanding' = Outstanding \ F
  BY <1>1 DEF Outstanding, WindowInv, PlaceInv
<1>3. F \in SUBSET Outstanding
  BY <1>1 DEF Outstanding
<1>4. Cardinality(Outstanding') = Cardinality(Outstanding) - Cardinality(F)
  BY <1>2, <1>3, OutstandingFinite, TakeSubset
<1>5. Reserved' = Reserved
  BY <1>1 DEF Reserved
<1>6. SizeInv'
  <2>1. Cardinality(F) \in Nat /\ Cardinality(Outstanding) \in Nat
        /\ Cardinality(Reserved) \in Nat
    BY <1>3, OutstandingFinite, ReservedFinite, FS_Subset, FS_CardinalityType
  <2> QED  BY <2>1, <1>1, <1>4, <1>5, WindowAssumption
           DEF WindowInv, ShapeInv, SizeInv, RoomIsExact
<1>7. windowSize' \in Int
  BY <1>1, <1>3, OutstandingFinite, FS_Subset, FS_CardinalityType
  DEF WindowInv, ShapeInv
<1>8. ShapeInv' /\ PumpInv' /\ PlaceInv'
  BY <1>1, <1>2, <1>7 DEF WindowInv, ShapeInv, PumpInv, PlaceInv
<1> QED  BY <1>6, <1>8 DEF WindowInv

\* What is fed and what raises stays what Init took.
LEMMA SetupStays == [Next]_vars => setup' = setup
  BY DEF Next, vars, FeedPut, FeedDispatch, FrameEnds, Discarded, Ready, Tear,
         AbortTear, Pump, PumpStep, PumpLimit, PumpReserve, PumpCollect, PumpRaises,
         PumpFeed

LEMMA WindowNext ==
  (NothingRaises => WindowInv) /\ [Next]_vars => (NothingRaises => WindowInv)'
<1> SUFFICES ASSUME NothingRaises', NothingRaises => WindowInv, [Next]_vars
             PROVE  WindowInv'
  OBVIOUS
<1>0. BadItems = {} /\ ~CallbackRaises /\ WindowInv
  BY SetupStays DEF NothingRaises, BadItems, CallbackRaises
<1>1. CASE FeedPut \/ FeedDispatch
  BY <1>1, <1>0, FeedStepInv
<1>2. ASSUME NEW p \in Pumps, Pump(p) PROVE WindowInv'
  <2>1. ASSUME NEW r \in -1..HeadRoom, PumpLimit(p, r) PROVE WindowInv'
    BY <2>1, <1>0, PumpLimitInv, HeadRoomAssumption
  <2>2. CASE PumpReserve(p)
    BY <2>2, <1>0, PumpReserveInv
  <2>3. CASE PumpFeed(p)
    BY <2>3, <1>0, PumpFeedInv
  <2>4. ASSUME NEW k \in 0..Items, PumpCollect(p, k) PROVE WindowInv'
    BY <2>4, <1>0, PumpCollectInv, ItemsAssumption
  <2>5. ASSUME NEW k \in 0..Items, PumpRaises(p, k) PROVE WindowInv'
    BY <2>5, <1>0 DEF PumpRaises, StopsAt
  <2> QED  BY <1>2, <2>1, <2>2, <2>3, <2>4, <2>5 DEF Pump, PumpStep
<1>3. CASE FrameEnds
  <2>1. PICK F \in SUBSET Indices :
          \/ Discarded(F) \/ Tear(F) \/ AbortTear(F)
          \/ \E raises \in BOOLEAN : Ready(F, raises)
    BY <1>3 DEF FrameEnds
  <2>2. ~AbortTear(F)
    BY <1>0 DEF AbortTear, WindowInv, PlaceInv
  <2>3. \A raises \in BOOLEAN : Ready(F, raises) => raises = FALSE
    BY <1>0 DEF Ready
  <2> QED  BY <2>1, <2>2, <2>3, <1>0, CallbackInv, TearInv
<1>4. CASE UNCHANGED vars
  <2>1. UNCHANGED <<windowSize, logt, pc, want, collected, inflight, tearing, raised>>
    BY <1>4 DEF vars
  <2>2. Outstanding' = Outstanding /\ Reserved' = Reserved
    BY <2>1 DEF Outstanding, Reserved
  <2> QED  BY <2>1, <2>2, <1>0, SameSize DEF WindowInv, ShapeInv, PumpInv, PlaceInv
<1> QED  BY <1>1, <1>2, <1>3, <1>4 DEF Next

\* _window_size is the room of the frames in flight and of the reservations of
\* all pumps, exactly, as long as nothing raises.
THEOREM WindowSizeExact == Spec => []WindowAccounting
<1>1. (NothingRaises => WindowInv) => WindowAccounting
  BY DEF WindowAccounting, WindowInv, SizeInv
<1> QED  BY <1>1, WindowInit, WindowNext, PTL DEF Spec

\* At most max_window frames of an orchestrator are in flight, however many
\* pumps and feed() calls race.
THEOREM WindowBounded == Spec => []WindowBound
<1>1. (NothingRaises => WindowInv) => WindowBound
  <2> SUFFICES ASSUME WindowInv PROVE FramesFit
    BY DEF WindowBound
  <2>1. Cardinality(Outstanding) \in Nat /\ Cardinality(Reserved) \in Nat
    BY OutstandingFinite, ReservedFinite
  <2> QED  BY <2>1, WindowAssumption
           DEF WindowInv, SizeInv, RoomIsExact, FramesFit
<1> QED  BY <1>1, WindowInit, WindowNext, PTL DEF Spec

-----------------------------------------------------------------------------
(* Order *)

ChainInv ==
  /\ logt \in Nat
  /\ lastOf \in Seq(Int)
  /\ ends = logt - 1
  /\ ChainedToPredecessor

LEMMA ChainCollect ==
  ASSUME ChainInv, NEW p \in Pumps, NEW k \in Nat, PumpCollect(p, k)
  PROVE  ChainInv'
<1> DEFINE links == [i \in 1..k |-> IF i = 1 THEN ends ELSE logt + i - 2]
<1>1. /\ logt' = logt + k
      /\ ends' = IF k = 0 THEN ends ELSE logt + k - 1
      /\ lastOf' = lastOf \o links
  BY DEF PumpCollect, Newest
<1>2. links \in Seq(Int) /\ Len(links) = k
      /\ \A i \in 1..k : links[i] = logt + i - 2
  <2>1. links \in [1..k -> Int] /\ \A i \in 1..k : links[i] = logt + i - 2
    BY DEF ChainInv
  <2>2. links \in Seq(Int)
    BY <2>1, SeqDef
  <2>3. DOMAIN links = 1..k /\ DOMAIN links = 1..Len(links) /\ Len(links) \in Nat
    BY <2>2, LenProperties
  <2> QED  BY <2>1, <2>2, <2>3
<1> HIDE DEF links
<1>3. lastOf' \in Seq(Int) /\ Len(lastOf') = logt + k
  <2>1. lastOf \in Seq(Int) /\ Len(lastOf) = logt
    BY DEF ChainInv, ChainedToPredecessor
  <2>2. lastOf \o links \in Seq(Int) /\ Len(lastOf \o links) = Len(lastOf) + Len(links)
    BY <2>1, <1>2, ConcatProperties
  <2> QED  BY <2>1, <2>2, <1>1, <1>2
<1>4. ASSUME NEW i \in 1..Len(lastOf') PROVE lastOf'[i] = i - 2
  <2>1. CASE i <= logt
    BY <2>1, <1>1, <1>2, <1>3 DEF ChainInv, ChainedToPredecessor
  <2>2. CASE i > logt
    <3>1. i - logt \in 1..k /\ lastOf'[i] = links[i - logt]
      BY <2>2, <1>1, <1>2, <1>3 DEF ChainInv, ChainedToPredecessor
    <3> QED  BY <3>1, <1>2 DEF ChainInv
  <2> QED  BY <2>1, <2>2, <1>3 DEF ChainInv
<1> QED  BY <1>1, <1>3, <1>4 DEF ChainInv, ChainedToPredecessor

LEMMA ChainNext == ChainInv /\ [Next]_vars => ChainInv'
<1> SUFFICES ASSUME ChainInv, [Next]_vars PROVE ChainInv'
  OBVIOUS
<1>1. CASE \E p \in Pumps, k \in 0..Items : PumpCollect(p, k)
  BY <1>1, ChainCollect, ItemsAssumption
<1>2. CASE UNCHANGED frameVars
  BY <1>2 DEF frameVars, ChainInv, ChainedToPredecessor
<1>3. Next => \/ \E p \in Pumps, k \in 0..Items : PumpCollect(p, k)
              \/ UNCHANGED frameVars
  BY DEF Next, FeedPut, FeedDispatch, FrameEnds, Discarded, Ready, Tear, AbortTear,
         Pump, PumpStep, PumpLimit, PumpReserve, PumpRaises, PumpFeed
<1>4. UNCHANGED vars => UNCHANGED frameVars
  BY DEF vars, frameVars
<1> QED  BY <1>1, <1>2, <1>3, <1>4

\* Whatever items are fed and whichever pump frames them, every frame is linked
\* to the frame with the index before its own.
THEOREM FramesAreChained == Spec => []ChainedToPredecessor
<1>1. Init => ChainInv
  BY DEF Init, ChainInv, ChainedToPredecessor
<1>2. ChainInv => ChainedToPredecessor
  BY DEF ChainInv
<1> QED  BY <1>1, <1>2, ChainNext, PTL DEF Spec

InOrder == itemOf \o interim = [i \in 1..fed |-> i]

OrderInv ==
  /\ fed \in Nat
  /\ interim \in Seq(Int)
  /\ itemOf \in Seq(Int)
  /\ InOrder

AllFramable == NoneItems = {} /\ BadItems = {}

\* A sequence cut in two.
LEMMA CutAndJoin ==
  ASSUME NEW s \in Seq(Int), NEW t \in Seq(Int), NEW k \in 0..Len(t)
  PROVE  /\ SubSeq(t, 1, k) \in Seq(Int)
         /\ SubSeq(t, k + 1, Len(t)) \in Seq(Int)
         /\ (s \o SubSeq(t, 1, k)) \o SubSeq(t, k + 1, Len(t)) = s \o t
<1> DEFINE a == SubSeq(t, 1, k)
           b == SubSeq(t, k + 1, Len(t))
<1>1. a \in Seq(Int)
  <2>1. \A i \in 1..k : t[i] \in Int
    BY LenProperties, ElementOfSeq
  <2> QED  BY <2>1, SubSeqProperties
<1>2. b \in Seq(Int)
  <2>1. \A i \in (k + 1)..Len(t) : t[i] \in Int
    BY LenProperties, ElementOfSeq
  <2>2. k + 1 \in Int /\ Len(t) \in Int
    BY LenProperties
  <2> QED  BY <2>1, <2>2, SubSeqProperties
<1>3. a \o b = t
  <2>1. Len(t) \in Nat
    BY LenProperties
  <2>2. 1 \in 1..(Len(t) + 1) /\ k \in (1 - 1)..Len(t) /\ Len(t) \in k..Len(t)
    BY <2>1
  <2>3. a \o b = SubSeq(t, 1, Len(t))
    BY <2>2, ConcatAdjacentSubSeq
  <2> QED  BY <2>3, SubSeqFull
<1> HIDE DEF a, b
<1>4. (s \o a) \o b = s \o (a \o b)
  <2> DEFINE S == Int
  <2>1. s \in Seq(S) /\ a \in Seq(S) /\ b \in Seq(S)
    BY <1>1, <1>2
  <2> HIDE DEF S
  <2> QED  BY <2>1, ConcatAssociative
<1> QED  BY <1>1, <1>2, <1>3, <1>4 DEF a, b

\* Counting one further.
LEMMA CountUp ==
  ASSUME NEW n \in Nat
  PROVE  [i \in 1..n |-> i] \o <<n + 1>> = [i \in 1..(n + 1) |-> i]
<1> DEFINE s == [i \in 1..n |-> i]
           t == [i \in 1..(n + 1) |-> i]
           one == <<n + 1>>
<1>1. s \in Seq(Int) /\ Len(s) = n
  <2>1. s \in [1..n -> Int]
    OBVIOUS
  <2>2. s \in Seq(Int)
    BY <2>1, SeqDef
  <2>3. DOMAIN s = 1..n /\ DOMAIN s = 1..Len(s) /\ Len(s) \in Nat
    BY <2>2, LenProperties
  <2> QED  BY <2>2, <2>3
<1>2. t \in Seq(Int) /\ Len(t) = n + 1
  <2>1. t \in [1..(n + 1) -> Int] /\ n + 1 \in Nat
    OBVIOUS
  <2>2. t \in Seq(Int)
    BY <2>1, SeqDef
  <2>3. DOMAIN t = 1..(n + 1) /\ DOMAIN t = 1..Len(t) /\ Len(t) \in Nat
    BY <2>2, LenProperties
  <2> QED  BY <2>2, <2>3
<1>3. one \in Seq(Int) /\ Len(one) = 1 /\ one[1] = n + 1
  OBVIOUS
<1>4. \A i \in 1..n : s[i] = i
  OBVIOUS
<1>5. \A i \in 1..(n + 1) : t[i] = i
  OBVIOUS
<1> HIDE DEF s, t, one
<1>6. /\ s \o one \in Seq(Int)
      /\ Len(s \o one) = n + 1
      /\ \A i \in 1..(n + 1) : (s \o one)[i] = IF i <= n THEN s[i] ELSE one[i - n]
  <2>1. /\ s \o one \in Seq(Int)
        /\ Len(s \o one) = Len(s) + Len(one)
        /\ \A i \in 1..(Len(s) + Len(one)) :
             (s \o one)[i] = IF i <= Len(s) THEN s[i] ELSE one[i - Len(s)]
    BY <1>1, <1>3, ConcatProperties
  <2> QED  BY <1>1, <1>3, <2>1
<1>7. \A i \in 1..(n + 1) : (s \o one)[i] = t[i]
  BY <1>3, <1>4, <1>5, <1>6
<1>8. s \o one = t
  BY <1>2, <1>6, <1>7, SeqEqual
<1> QED  BY <1>8 DEF s, t, one

LEMMA OrderNext ==
  (AllFramable => OrderInv) /\ [Next]_vars => (AllFramable => OrderInv)'
<1> SUFFICES ASSUME AllFramable', AllFramable => OrderInv, [Next]_vars
             PROVE  OrderInv'
  OBVIOUS
<1>0. NoneItems = {} /\ BadItems = {} /\ OrderInv
  BY SetupStays DEF AllFramable, NoneItems, BadItems
<1>1. ASSUME NEW p \in Pumps, NEW k \in 0..Items, PumpCollect(p, k)
      PROVE  OrderInv'
  <2>1. /\ interim' = SubSeq(interim, k + 1, Len(interim))
        /\ itemOf' = itemOf \o SubSeq(interim, 1, k)
        /\ fed' = fed
        /\ k \in 0..Len(interim)
    BY <1>0, <1>1, ItemsAssumption
    DEF PumpCollect, Rest, StopsAt, Prefix, Reach, Framable, feedVars, OrderInv
  <2>2. /\ SubSeq(interim, 1, k) \in Seq(Int)
        /\ interim' \in Seq(Int)
        /\ itemOf' \o interim' = itemOf \o interim
    BY <1>0, <2>1, CutAndJoin DEF OrderInv
  <2>3. itemOf' \in Seq(Int)
    <3>1. itemOf \o SubSeq(interim, 1, k) \in Seq(Int)
      BY <1>0, <2>2, ConcatProperties DEF OrderInv
    <3> QED  BY <2>1, <3>1
  <2>4. itemOf' \o interim' = [i \in 1..fed' |-> i]
    <3>1. itemOf \o interim = [i \in 1..fed |-> i]
      BY <1>0 DEF OrderInv, InOrder
    <3> QED  BY <2>1, <2>2, <3>1, Zenon
  <2>5. fed' \in Nat
    BY <1>0, <2>1 DEF OrderInv
  <2> QED  BY <1>0, <2>2, <2>3, <2>4, <2>5, Zenon DEF OrderInv, InOrder
<1>2. CASE FeedPut
  <2>1. fed' = fed + 1 /\ interim' = Append(interim, fed + 1) /\ itemOf' = itemOf
    BY <1>2 DEF FeedPut, frameVars
  <2>2. itemOf \o Append(interim, fed + 1) = (itemOf \o interim) \o <<fed + 1>>
    <3>1. Append(interim, fed + 1) = interim \o <<fed + 1>>
      BY <1>0, AppendIsConcat DEF OrderInv
    <3>2. <<fed + 1>> \in Seq(Int)
      BY <1>0 DEF OrderInv
    <3> QED  BY <1>0, <3>1, <3>2, ConcatAssociative DEF OrderInv
  <2>3. [i \in 1..fed |-> i] \o <<fed + 1>> = [i \in 1..(fed + 1) |-> i]
    BY <1>0, CountUp DEF OrderInv
  <2>4. interim' \in Seq(Int)
    BY <1>0, <2>1, AppendProperties DEF OrderInv
  <2>5. itemOf' \o interim' = [i \in 1..fed' |-> i]
    <3>1. itemOf \o interim = [i \in 1..fed |-> i]
      BY <1>0 DEF OrderInv, InOrder
    <3> QED  BY <2>1, <2>2, <2>3, <3>1, Zenon
  <2>6. fed' \in Nat /\ itemOf' \in Seq(Int)
    BY <1>0, <2>1 DEF OrderInv
  <2> QED  BY <1>0, <2>4, <2>5, <2>6, Zenon DEF OrderInv, InOrder
<1>3. CASE UNCHANGED <<fed, interim, itemOf>>
  BY <1>0, <1>3 DEF OrderInv, InOrder
<1>4. ASSUME NEW p \in Pumps, NEW k \in 0..Items PROVE ~PumpRaises(p, k)
  BY <1>0 DEF PumpRaises, StopsAt
<1>5. Next => \/ \E p \in Pumps, k \in 0..Items : PumpCollect(p, k)
              \/ FeedPut
              \/ UNCHANGED <<fed, interim, itemOf>>
  BY <1>4 DEF Next, FeedDispatch, FrameEnds, Discarded, Ready, Tear, AbortTear,
         Pump, PumpStep, PumpLimit, PumpReserve, PumpFeed, feedVars, frameVars
<1>6. UNCHANGED vars => UNCHANGED <<fed, interim, itemOf>>
  BY DEF vars
<1> QED  BY <1>1, <1>2, <1>3, <1>5, <1>6

\* Items become frames in the order they were fed and none is skipped, with any
\* number of racing pumps, as long as no item is None and the wrapper does not
\* raise.
THEOREM FeedOrderKept == Spec => []FramedInFeedOrder
<1>1. Init => OrderInv
  <2> SUFFICES ASSUME Init PROVE OrderInv
    OBVIOUS
  <2>1. <<>> \o <<>> = [i \in 1..0 |-> i]
    OBVIOUS
  <2> QED  BY <2>1 DEF Init, OrderInv, InOrder
<1>2. (AllFramable => OrderInv) => FramedInFeedOrder
  BY DEF AllFramable, OrderInv, InOrder, FramedInFeedOrder
<1> QED  BY <1>1, <1>2, OrderNext, PTL DEF Spec

=============================================================================
