------------------------------- MODULE Window -------------------------------
(***************************************************************************)
(* One Orchestrator of src/nam/concurrency/orchestrator.py: items are fed  *)
(* into an unbounded interim queue, "pumps" (_pull_window calls, several   *)
(* of which may run at once) turn them into frames and hand these to the   *)
(* pipeline, and at most max_window frames should be in flight.            *)
(*                                                                         *)
(* A pump works in two critical sections of _window_lock: it first         *)
(* reserves room for as many frames as the head layer can take, and later  *)
(* collects items and gives back the room it did not use.  A frame's room  *)
(* is given back by _tear_window when the frame is ready or discarded.     *)
(***************************************************************************)
EXTENDS Integers, FiniteSets, Sequences

CONSTANTS
  Items,          \* bound: the items 1..Items are fed, in this order
  MaxWindow,      \* _max_window
  HeadRoom,       \* bound: the most pipeline.limit() returns
  Pumps,          \* executor threads running _pull_window
  Setups          \* what is fed and what raises, one of which Init takes

ASSUME ItemsAssumption == Items \in Nat
ASSUME WindowAssumption == MaxWindow \in Nat \ {0}
ASSUME HeadRoomAssumption == HeadRoom \in Nat \ {0}
ASSUME PumpsAssumption == IsFiniteSet(Pumps)
ASSUME SetupsAssumption ==
  Setups \subseteq [none : SUBSET (1..Items), bad : SUBSET (1..Items),
                    raises : BOOLEAN]

VARIABLES
  setup,       \* the one taken
  fed,         \* how many items were put into the interim queue
  feeding,     \* whether a feed() call has put items and not dispatched yet
  interim,     \* _queue_interim
  pumps,       \* _pull_window calls queued on the executor or on a timer
  windowSize,  \* _window_size
  logt,        \* _window_logt, the next index
  ends,        \* _window_ends: the index of the newest frame, -1 for none
  pc,          \* where each pump is
  want,        \* its collected_max
  collected,   \* its collected frames
  itemOf,      \* the item of each frame issued, by index + 1
  lastOf,      \* its last_frame
  inflight,    \* frames the pipeline has
  tearing,     \* frames whose callback was made, _tear_window to come
  raised       \* frames whose ready callback raised, abort() to come

vars == <<setup, fed, feeding, interim, pumps, windowSize, logt, ends, pc, want,
          collected, itemOf, lastOf, inflight, tearing, raised>>
feedVars == <<fed, feeding>>
frameVars == <<logt, ends, itemOf, lastOf>>
lifeVars == <<inflight, tearing, raised>>

\* The items that are None, those the wrapper (_create_frame, on_dispatch) raises
\* for, and whether the on_ready callback, or a window_listener after it, may raise.
NoneItems == setup.none
BadItems == setup.bad
CallbackRaises == setup.raises

Indices == 0..(Items - 1)

TypeOK ==
  /\ setup \in Setups
  /\ fed \in 0..Items
  /\ feeding \in BOOLEAN
  /\ interim \in Seq(1..Items)
  /\ pumps \in Nat
  /\ windowSize \in Int
  /\ logt \in Nat
  /\ ends \in -1..(Items - 1)
  /\ pc \in [Pumps -> {"idle", "limited", "reserved", "feeding"}]
  /\ want \in [Pumps -> Int]
  /\ collected \in [Pumps -> SUBSET Indices]
  /\ itemOf \in Seq(1..Items)
  /\ lastOf \in Seq(-1..(Items - 1))
  /\ inflight \subseteq Indices
  /\ tearing \subseteq Indices
  /\ raised \subseteq Indices

Init ==
  /\ setup \in Setups
  /\ fed = 0 /\ feeding = FALSE /\ interim = <<>> /\ pumps = 0
  /\ windowSize = 0 /\ logt = 0 /\ ends = -1
  /\ pc = [p \in Pumps |-> "idle"]
  /\ want = [p \in Pumps |-> 0]
  /\ collected = [p \in Pumps |-> {}]
  /\ itemOf = <<>> /\ lastOf = <<>>
  /\ inflight = {} /\ tearing = {} /\ raised = {}

AtMost(a, b) == IF a < b THEN a ELSE b

-----------------------------------------------------------------------------
(* feed() *)

FeedPut ==
  /\ fed < Items
  /\ fed' = fed + 1
  /\ interim' = Append(interim, fed + 1)
  /\ feeding' = TRUE
  /\ UNCHANGED <<setup, pumps, windowSize, frameVars, pc, want, collected, lifeVars>>

FeedDispatch ==
  /\ feeding
  /\ feeding' = FALSE
  /\ pumps' = pumps + 1
  /\ UNCHANGED <<setup, fed, interim, windowSize, frameVars, pc, want, collected,
                 lifeVars>>

-----------------------------------------------------------------------------
(* _pull_window *)

\* The pump asks the head layer for its room; it may be stale when used.  The
\* head's queue may hold more than its maximum: then the room is negative.  With
\* no room at all the call goes back on a timer and nothing has changed.
PumpLimit(p, r) ==
  /\ pc[p] = "idle" /\ pumps > 0 /\ r # 0
  /\ pumps' = pumps - 1
  /\ pc' = [pc EXCEPT ![p] = "limited"]
  /\ want' = [want EXCEPT ![p] = r]
  /\ UNCHANGED <<setup, feedVars, interim, windowSize, frameVars, collected, lifeVars>>

\* Slip: the room the window has is not looked at.
PumpReserveAll(p) ==
  /\ pc[p] = "limited" /\ want[p] > 0
  /\ windowSize' = windowSize + want[p]
  /\ pc' = [pc EXCEPT ![p] = "reserved"]
  /\ UNCHANGED <<setup, feedVars, interim, pumps, frameVars, want, collected, lifeVars>>

\* Slip: a pump without room does not try again.
PumpReserveOnce(p) ==
  LET m == AtMost(want[p], MaxWindow - windowSize)
  IN /\ pc[p] = "limited"
     /\ windowSize' = IF m > 0 THEN windowSize + m ELSE windowSize
     /\ want' = [want EXCEPT ![p] = IF m > 0 THEN m ELSE 0]
     /\ pc' = [pc EXCEPT ![p] = IF m > 0 THEN "reserved" ELSE "idle"]
     /\ UNCHANGED <<setup, feedVars, interim, pumps, frameVars, collected, lifeVars>>

\* The first critical section: the room it gets is what the head and the window
\* both have; with none it tries again later.
PumpReserve(p) ==
  LET m == AtMost(want[p], MaxWindow - windowSize)
  IN /\ pc[p] = "limited"
     /\ IF m > 0
        THEN /\ windowSize' = windowSize + m
             /\ want' = [want EXCEPT ![p] = m]
             /\ pc' = [pc EXCEPT ![p] = "reserved"]
             /\ UNCHANGED pumps
        ELSE /\ want' = [want EXCEPT ![p] = 0]
             /\ pc' = [pc EXCEPT ![p] = "idle"]
             /\ pumps' = pumps + 1
             /\ UNCHANGED windowSize
     /\ UNCHANGED <<setup, feedVars, interim, frameVars, collected, lifeVars>>

Prefix(k) == SubSeq(interim, 1, k)

\* The first k items can be framed, and the pump can have k of them.
Framable(p, k) ==
  /\ k <= want[p] /\ k <= Len(interim)
  /\ \A i \in 1..k : interim[i] \notin NoneItems \cup BadItems

\* The pump stops after k items: it has enough, or no more are there, or the
\* next one (which it takes out of the queue too) cannot be framed.
Reach(p, k) == Framable(p, k) /\ ~Framable(p, k + 1)

StopsAt(p, k, S) ==
  k < want[p] /\ k < Len(interim) /\ interim[k + 1] \in S

\* Slip: a pump with enough frames takes one item more before it notices.
RestAfterOneMore(p, k) == SubSeq(interim, k + 2, Len(interim))

\* What stays in the interim queue.
Rest(p, k) ==
  SubSeq(interim, IF StopsAt(p, k, NoneItems) THEN k + 2 ELSE k + 1, Len(interim))

\* Slip: the newest frame is recorded only by a pump that got all it wanted.
NewestIfAll(p, k) == IF k < want[p] THEN ends ELSE logt + k - 1

\* The newest frame, once the pump has made k.
Newest(p, k) == IF k = 0 THEN ends ELSE logt + k - 1

\* The second critical section.  A None item ends the loop like an empty queue.
PumpCollect(p, k) ==
  /\ pc[p] = "reserved" /\ Reach(p, k) /\ ~StopsAt(p, k, BadItems)
  /\ interim' = Rest(p, k)
  /\ collected' = [collected EXCEPT ![p] = logt..(logt + k - 1)]
  /\ itemOf' = itemOf \o Prefix(k)
  /\ lastOf' = lastOf \o [i \in 1..k |-> IF i = 1 THEN ends ELSE logt + i - 2]
  /\ ends' = Newest(p, k)
  /\ logt' = logt + k
  /\ windowSize' = windowSize - (want[p] - k)
  /\ want' = [want EXCEPT ![p] = 0]
  /\ pc' = [pc EXCEPT ![p] = IF k = 0 THEN "idle" ELSE "feeding"]
  /\ UNCHANGED <<setup, feedVars, pumps, lifeVars>>

\* The wrapper raises: the exception leaves _pull_window, whose caller logs it.
\* The items taken so far are gone and the room stays reserved.
PumpRaises(p, k) ==
  /\ pc[p] = "reserved" /\ Reach(p, k) /\ StopsAt(p, k, BadItems)
  /\ interim' = SubSeq(interim, k + 2, Len(interim))
  /\ want' = [want EXCEPT ![p] = 0]
  /\ pc' = [pc EXCEPT ![p] = "idle"]
  /\ UNCHANGED <<setup, feedVars, pumps, windowSize, frameVars, collected, lifeVars>>

\* The frames enter the pipeline and the pump dispatches its successor.
PumpFeed(p) ==
  /\ pc[p] = "feeding"
  /\ inflight' = inflight \cup collected[p]
  /\ collected' = [collected EXCEPT ![p] = {}]
  /\ pumps' = pumps + 1
  /\ pc' = [pc EXCEPT ![p] = "idle"]
  /\ UNCHANGED <<setup, feedVars, interim, windowSize, frameVars, want, tearing, raised>>

-----------------------------------------------------------------------------
(* The end of a frame *)

\* A layer discards frames: the discard callback, then (finally) the tear.
Discarded(F) ==
  /\ F # {} /\ F \subseteq inflight
  /\ inflight' = inflight \ F
  /\ tearing' = tearing \cup F
  /\ UNCHANGED <<setup, feedVars, interim, pumps, windowSize, frameVars, pc, want,
                 collected, raised>>

\* The finish layer's handler makes the ready callback, which may raise.  A
\* window_listener that raises as the window is torn comes to the same: the slots are
\* given back before it is called.  For a discard it changes nothing here.
Ready(F, raises) ==
  /\ F # {} /\ F \subseteq inflight /\ (raises => CallbackRaises)
  /\ inflight' = inflight \ F
  /\ tearing' = tearing \cup F
  /\ raised' = IF raises THEN raised \cup F ELSE raised
  /\ UNCHANGED <<setup, feedVars, interim, pumps, windowSize, frameVars, pc, want,
                 collected>>

\* Slip: one frame's room is given back for the whole batch.
TearOne(F) ==
  /\ F # {} /\ F \subseteq tearing
  /\ windowSize' = windowSize - 1
  /\ tearing' = tearing \ F
  /\ UNCHANGED <<setup, feedVars, interim, pumps, frameVars, pc, want, collected,
                 inflight, raised>>

\* _tear_window, from _handle_discarded or the finish handler's finally clause.
Tear(F) ==
  /\ F # {} /\ F \subseteq tearing
  /\ windowSize' = windowSize - Cardinality(F)
  /\ tearing' = tearing \ F
  /\ UNCHANGED <<setup, feedVars, interim, pumps, frameVars, pc, want, collected,
                 inflight, raised>>

\* Where the ready callback raised, _execute_batch aborts the finish layer's
\* task afterwards: _handle_discarded tears the window for the same frames.
AbortTear(F) ==
  /\ F # {} /\ F \subseteq raised \ tearing
  /\ windowSize' = windowSize - Cardinality(F)
  /\ raised' = raised \ F
  /\ UNCHANGED <<setup, feedVars, interim, pumps, frameVars, pc, want, collected,
                 inflight, tearing>>

-----------------------------------------------------------------------------

PumpStep(p) ==
  PumpReserve(p) \/ PumpFeed(p)
  \/ \E k \in 0..Items : PumpCollect(p, k) \/ PumpRaises(p, k)

Pump(p) == PumpStep(p) \/ \E r \in -1..HeadRoom : PumpLimit(p, r)

FrameEnds ==
  \E F \in SUBSET Indices :
    \/ Discarded(F) \/ Tear(F) \/ AbortTear(F)
    \/ \E raises \in BOOLEAN : Ready(F, raises)

Next == FeedPut \/ FeedDispatch \/ FrameEnds \/ \E p \in Pumps : Pump(p)

StartWithRoom == \E p \in Pumps : \E r \in 1..HeadRoom : PumpLimit(p, r)

EndsFor(i) == \E F \in SUBSET Indices :
  i \in F /\ (Discarded(F) \/ Tear(F) \/ Ready(F, FALSE))

\* Threads run on, the pipeline finishes each frame, and a pump that polls
\* again and again finds room at the head layer in the end, for its queue
\* drains.
Fairness ==
  /\ WF_vars(FeedDispatch)
  /\ \A p \in Pumps : WF_vars(PumpStep(p))
  /\ SF_vars(StartWithRoom)
  /\ \A i \in Indices : WF_vars(EndsFor(i))

Spec == Init /\ [][Next]_vars /\ Fairness

-----------------------------------------------------------------------------
(* Correctness *)

\* Every frame between _create_frame and _tear_window.
Outstanding == inflight \cup tearing \cup UNION {collected[p] : p \in Pumps}

\* The room reserved by pumps for frames they have not collected, slot by slot.
Reserved == {pi \in Pumps \X (1..MaxWindow) :
               pc[pi[1]] = "reserved" /\ pi[2] <= want[pi[1]]}

FramesFit == Cardinality(Outstanding) <= MaxWindow
RoomIsExact == windowSize = Cardinality(Outstanding) + Cardinality(Reserved)
NothingRaises == BadItems = {} /\ ~CallbackRaises

\* max_window caps how many frames are in flight, with any number of pumps,
\* unless the wrapper, the ready callback or the window's listener raises
\* (orchestrator.py:753-762).
WindowBound == NothingRaises => FramesFit

\* _window_size is exactly the room in use: that of the frames in flight and
\* what pumps hold reserved; none leaks and none is given back twice, unless the
\* wrapper, the ready callback or the window's listener raises
\* (orchestrator.py:758-759, 784-785, 796-800).
WindowAccounting == NothingRaises => RoomIsExact

\* Items become frames in the order they were fed, none skipped, where every item
\* can be framed: the frames' items, then the interim queue, are all that was fed
\* (orchestrator.py:770-782).
FramedInFeedOrder ==
  NoneItems = {} /\ BadItems = {} => itemOf \o interim = [i \in 1..fed |-> i]

\* last_frame links every frame to the one just before it, whichever pumps
\* created the two (orchestrator.py:767, 776, 783).
ChainedToPredecessor ==
  Len(lastOf) = logt /\ \A i \in 1..Len(lastOf) : lastOf[i] = i - 2

IsFramed(n) == \E i \in 1..Len(itemOf) : itemOf[i] = n

\* Every fed item becomes a frame: no pump leaves items behind with nobody to
\* pump them, unless an item is None or something raises (orchestrator.py:787-794,
\* 810-814).
FedIsFramed ==
  NoneItems = {} /\ NothingRaises => \A n \in 1..Items : fed >= n ~> IsFramed(n)

\* What docs/feature_unified_concurrency.md says of items beyond the window:
\* those after a None are pulled in too, once room frees up.
ItemsAreFramed ==
  \A n \in (1..Items) : n \notin NoneItems \cup BadItems /\ fed >= n ~> IsFramed(n)

=============================================================================
