--------------------------- MODULE SchedulingProofs ---------------------------
(***************************************************************************)
(* No call is slept through and no wakeup is lost, for any number of       *)
(* calls, sources, partitions and workers, any delays and any clock, and   *)
(* the congestion of a partition is the weight of what is outstanding.  A  *)
(* step of the three kinds of threads together is one of module Dispatch   *)
(* or of module DelayQueue, or leaves it alone, so that what holds of each *)
(* holds of both.                                                          *)
(***************************************************************************)
EXTENDS Scheduling, FiniteSetTheorems, TLAPS

LEMMA StepsOfDispatch == [SchedulingNext]_allVars => [Next]_vars
<1> SUFFICES ASSUME [SchedulingNext]_allVars PROVE [Next]_vars
  OBVIOUS
<1>1. ASSUME OfDelay PROVE [Next]_vars
  BY <1>1 DEF OfDelay
<1>2. CASE Passes
  BY <1>1, <1>2 DEF Passes
<1>3. CASE SchedulerStep
  <2>1. ASSUME NEW c \in Delayed, Callback(c) PROVE [Next]_vars
    BY <2>1, DelayedAssumption DEF Callback, Next
  <2> QED  BY <1>1, <1>3, <2>1 DEF SchedulerStep, CallbackEnds
<1>4. CASE Exits
  BY <1>1, <1>4 DEF Exits, Next
<1>5. CASE BalancerStep
  BY <1>5 DEF Next
<1>6. ASSUME NEW c \in Delayed, Schedules(c) \/ Pushes(c) PROVE [Next]_vars
  BY <1>1, <1>6 DEF Schedules, Pushes
<1>7. ASSUME NEW t \in Tasks, DirectCall(t) \/ DirectCaller(t) PROVE [Next]_vars
  BY <1>7 DEF DirectCall, DirectCaller, Next
<1>8. ASSUME NEW w \in Workers, WorkerStep(w) PROVE [Next]_vars
  BY <1>8 DEF Next
<1>9. CASE UNCHANGED allVars
  BY <1>9 DEF allVars
<1> QED  BY <1>2, <1>3, <1>4, <1>5, <1>6, <1>7, <1>8, <1>9 DEF SchedulingNext

LEMMA StepsOfDelayQueue == [SchedulingNext]_allVars => [Delay!Next]_(Delay!vars)
<1> SUFFICES ASSUME [SchedulingNext]_allVars PROVE [Delay!Next]_(Delay!vars)
  OBVIOUS
<1>1. ASSUME OfDispatch PROVE [Delay!Next]_(Delay!vars)
  BY <1>1 DEF OfDispatch, delayVars, Delay!vars
<1>2. CASE Passes
  BY <1>2 DEF Passes, Delay!Next
<1>3. CASE SchedulerStep
  BY <1>1, <1>3 DEF SchedulerStep, Callback, CallbackEnds, Delay!Next, Delay!ThreadStep
<1>4. CASE Exits
  BY <1>1, <1>4 DEF Exits, Delay!Next
<1>5. ASSUME NEW c \in Delayed, Schedules(c) \/ Pushes(c) PROVE Delay!Next
  BY <1>5 DEF Schedules, Pushes, Delay!Next
<1>6. ASSUME NEW t \in Tasks, DirectCall(t) \/ DirectCaller(t) PROVE OfDispatch
  BY <1>6 DEF DirectCall, DirectCaller
<1>7. CASE UNCHANGED allVars
  BY <1>7 DEF allVars, delayVars, Delay!vars
<1> QED  BY <1>1, <1>2, <1>3, <1>4, <1>5, <1>6, <1>7 DEF SchedulingNext

-----------------------------------------------------------------------------
(* The balancer's thread *)

\* A source's weight is positive, so that a call has no weight before it is made,
\* and only calls with a partition get one.
PostedInv ==
  /\ unit \in [Sources -> Nat \ {0}]
  /\ weight \in [Tasks -> Nat]
  /\ draining \in Nat
  /\ posted \subseteq Tasks
  /\ \A t \in Tasks : weight[t] > 0 => RoleOfTask(t) \in Roles
  /\ \A t \in posted : RoleOfTask(t) \in Roles

\* The drain has not come to t's partition yet, or is at it.
WillReach(t) ==
  balancer = "draining" /\ \E i \in draining..Len(Partitions) : Partitions[i] = RoleOfTask(t)

\* Somebody has seen to it that the balancer will look at t again: its caller will,
\* the event is set, the event was cleared only for the drain that is to come, or that
\* drain has yet to reach t's partition.
SeenTo(t) == t \in notifying \/ WillReach(t)
AllSeenTo == wake \/ balancer = "woken" \/ \A t \in posted : SeenTo(t)

WakeupInv == PostedInv /\ AllSeenTo

LEMMA PostedNext ==
  ASSUME PostedInv, [Next]_vars
  PROVE  PostedInv'
<1> USE SourcesAssumption, UnitAssumption DEF PostedInv
<1>1. ASSUME NEW t \in Tasks, Construct(t) PROVE PostedInv'
  <2>1. unit[SourceOf[t]] \in Nat
    OBVIOUS
  <2> QED  BY <1>1, <2>1 DEF Construct, balancerVars, Roles, RoleOfTask
<1>2. ASSUME NEW t \in Tasks, Refuse(t) \/ Notify(t) PROVE PostedInv'
  BY <1>2 DEF Refuse, Notify, balancerVars, Roles, RoleOfTask
<1>3. ASSUME NEW t \in Tasks, Post(t) PROVE PostedInv'
  BY <1>3 DEF Post, balancerVars, Roles, RoleOfTask
<1>4. CASE BalancerStep
  BY <1>4 DEF BalancerStep, BalancerTests, BalancerWakes, BalancerClears, BalancerDrained,
              BalancerSubmits, BalancerLoops, BalancerPulls, BalancerCounts, callVars,
              workerVars, Roles, RoleOfTask
<1>5. ASSUME NEW w \in Workers, WorkerRan(w) PROVE PostedInv'
  <2>1. PICK u \in 1..MaxUnit : unit' = [unit EXCEPT ![SourceOf[doing[w]]] = u]
    BY <1>5 DEF WorkerRan
  <2>2. u \in Nat \ {0}
    OBVIOUS
  <2>3. unit' \in [Sources -> Nat \ {0}]
    BY <2>1, <2>2
  <2> QED  BY <1>5, <2>3 DEF WorkerRan, callVars, balancerVars, Roles, RoleOfTask
<1>6. ASSUME NEW w \in Workers, WorkerStep(w), ~WorkerRan(w) PROVE PostedInv'
  BY <1>6 DEF WorkerStep, WorkerTests, WorkerFindsNone, WorkerTakes, WorkerReduces,
              WorkerWakesBalancer, WorkerRealizes, callVars, balancerVars, Roles, RoleOfTask
<1>7. ASSUME NEW part \in {"balancer", "executor"}, ShutDown(part) PROVE PostedInv'
  BY <1>7 DEF ShutDown, callVars, balancerVars, Roles, RoleOfTask
<1>8. CASE UNCHANGED vars
  BY <1>8 DEF vars, Roles, RoleOfTask
<1> QED  BY <1>1, <1>2, <1>3, <1>4, <1>5, <1>6, <1>7, <1>8 DEF Next, Caller

\* Clearing the event is safe because the drain that follows reaches every partition.
LEMMA ClearingIsSafe ==
  ASSUME PostedInv, BalancerClears
  PROVE  AllSeenTo'
<1> SUFFICES ASSUME NEW t \in posted PROVE WillReach(t)'
  BY DEF BalancerClears, AllSeenTo, SeenTo
<1>1. RoleOfTask(t) \in Roles
  BY DEF PostedInv
<1>2. PICK i \in 1..Len(Partitions) : Partitions[i] = RoleOfTask(t)
  BY <1>1, PartitionsAssumption DEF Roles
<1> QED  BY <1>2 DEF BalancerClears, WillReach, RoleOfTask

\* Going on to the next partition, or to the dispatch, leaves nothing behind.
LEMMA DrainedIsEmpty ==
  ASSUME PostedInv, BalancerDrained, AllSeenTo
  PROVE  AllSeenTo'
<1> SUFFICES ASSUME NEW t \in posted, t \notin notifying, ~wake PROVE WillReach(t)'
  BY DEF BalancerDrained, callVars, AllSeenTo, SeenTo
<1>1. PICK i \in draining..Len(Partitions) : Partitions[i] = RoleOfTask(t)
  BY DEF BalancerDrained, AllSeenTo, SeenTo, WillReach
<1>2. i # draining
  BY <1>1 DEF BalancerDrained, Waiting
<1>3. Len(Partitions) \in Nat /\ draining \in Nat
  BY PartitionsAssumption DEF PostedInv
<1>4. draining < Len(Partitions) /\ i \in (draining + 1)..Len(Partitions)
  BY <1>2, <1>3
<1> QED  BY <1>1, <1>4 DEF BalancerDrained, WillReach, RoleOfTask

LEMMA SeenToNext ==
  ASSUME WakeupInv, [Next]_vars
  PROVE  AllSeenTo'
<1> USE DEF WakeupInv, AllSeenTo, SeenTo, WillReach, RoleOfTask
<1>1. ASSUME NEW t \in Tasks, Construct(t) \/ Refuse(t) PROVE AllSeenTo'
  BY <1>1 DEF Construct, Refuse, balancerVars
<1>2. ASSUME NEW t \in Tasks, Post(t) PROVE AllSeenTo'
  BY <1>2 DEF Post, balancerVars
<1>3. ASSUME NEW t \in Tasks, Notify(t) PROVE AllSeenTo'
  BY <1>3 DEF Notify
<1>4. CASE BalancerStep
  <2>1. CASE BalancerClears
    BY <2>1, ClearingIsSafe
  <2>2. CASE BalancerDrained
    BY <2>2, DrainedIsEmpty
  <2>3. ASSUME NEW t \in Tasks, BalancerPulls(t) PROVE AllSeenTo'
    BY <2>3 DEF BalancerPulls, callVars
  <2>4. CASE BalancerTests \/ BalancerWakes
    BY <2>4 DEF BalancerTests, BalancerWakes, callVars
  <2>5. CASE BalancerSubmits \/ BalancerLoops
    BY <2>5 DEF BalancerSubmits, BalancerLoops, callVars
  <2>6. ASSUME NEW t \in Tasks, BalancerCounts(t) PROVE AllSeenTo'
    BY <2>6 DEF BalancerCounts, callVars
  <2> QED  BY <1>4, <2>1, <2>2, <2>3, <2>4, <2>5, <2>6 DEF BalancerStep
<1>5. ASSUME NEW w \in Workers, WorkerStep(w) PROVE AllSeenTo'
  BY <1>5 DEF WorkerStep, WorkerTests, WorkerFindsNone, WorkerTakes, WorkerRan,
              WorkerReduces, WorkerWakesBalancer, WorkerRealizes, callVars, balancerVars
<1>6. ASSUME NEW part \in {"balancer", "executor"}, ShutDown(part) PROVE AllSeenTo'
  BY <1>6 DEF ShutDown, callVars, balancerVars
<1>7. CASE UNCHANGED vars
  BY <1>7 DEF vars
<1> QED  BY <1>1, <1>2, <1>3, <1>4, <1>5, <1>6, <1>7 DEF Next, Caller

\* The balancer never waits with a task in a partition and its event cleared, unless
\* the task's caller has yet to set it: whichever calls come while it clears the event,
\* drains and dispatches (load_balancer.py:216-217, 282-284).
THEOREM WakeupsAreNotLost == SchedulingSpec => []NoLostWakeup
<1>1. SchedulingInit => WakeupInv
  BY UnitAssumption DEF SchedulingInit, Init, WakeupInv, PostedInv, AllSeenTo
<1>2. WakeupInv /\ [SchedulingNext]_allVars => WakeupInv'
  BY StepsOfDispatch, PostedNext, SeenToNext DEF WakeupInv
<1>3. WakeupInv => NoLostWakeup
  BY DEF WakeupInv, AllSeenTo, SeenTo, WillReach, NoLostWakeup
<1> QED  BY <1>1, <1>2, <1>3, PTL DEF SchedulingSpec

-----------------------------------------------------------------------------
(* What is dispatched *)

Enqueued == {queue[i] : i \in DOMAIN queue}
Held == {t \in Tasks : \E w \in Workers : doing[w] = t}

\* What the balancer and the workers have in hand.
HandsInv ==
  /\ congestion \in [Roles -> Int]
  /\ queue \in Seq(Tasks)
  /\ posted \subseteq Tasks /\ batch \subseteq Tasks
  /\ submitting \in Tasks \cup {NoTask}
  /\ balancer = "submitting" <=> submitting # NoTask
  /\ pc \in [Workers -> {"testing", "getting", "running", "reducing", "waking",
                         "realizing", "stopped", "dead"}]
  /\ doing \in [Workers -> Tasks \cup {NoTask}]
  /\ \A w \in Workers : pc[w] \in {"testing", "getting", "stopped"} <=> doing[w] = NoTask

\* A task is in one place on its way, and has its weight there.
OneHandInv ==
  /\ posted \cap (batch \cup {submitting} \cup Enqueued \cup Held) = {}
  /\ batch \cap ({submitting} \cup Enqueued \cup Held) = {}
  /\ submitting \notin Enqueued \cup Held
  /\ Enqueued \cap Held = {}
  /\ \A i, j \in DOMAIN queue : queue[i] = queue[j] => i = j
  /\ \A v, w \in Workers : doing[v] = doing[w] /\ doing[v] # NoTask => v = w

WeighedInv ==
  \A t \in Tasks :
    t \in posted \cup batch \cup {submitting} \cup Enqueued \cup Held => weight[t] > 0

CountInv == PostedInv /\ HandsInv /\ OneHandInv /\ WeighedInv

\* The congestion of a partition moves with what is outstanding there: up by the weight
\* of a task that is dispatched, down by the weight of one that ends, and that weight
\* stays while it is outstanding.
MovesTogether(r) ==
  /\ \A t \in Outstanding(r) : weight'[t] = weight[t]
  /\ \/ Outstanding(r)' = Outstanding(r) /\ congestion'[r] = congestion[r]
     \/ \E t \in Tasks \ Outstanding(r) :
          /\ Outstanding(r)' = Outstanding(r) \cup {t}
          /\ congestion'[r] = congestion[r] + weight'[t]
     \/ \E t \in Outstanding(r) :
          /\ Outstanding(r)' = Outstanding(r) \ {t}
          /\ congestion'[r] = congestion[r] - weight[t]

LEMMA Appended ==
  ASSUME queue \in Seq(Tasks), NEW t \in Tasks, queue' = Append(queue, t)
  PROVE  /\ queue' \in Seq(Tasks)
         /\ Enqueued' = Enqueued \cup {t}
         /\ t \notin Enqueued /\ (\A i, j \in DOMAIN queue : queue[i] = queue[j] => i = j)
              => \A i, j \in DOMAIN queue' : queue'[i] = queue'[j] => i = j
<1>1. /\ queue' \in Seq(Tasks) /\ Len(queue) \in Nat
      /\ DOMAIN queue = 1..Len(queue) /\ DOMAIN queue' = 1..(Len(queue) + 1)
  OBVIOUS
<1>2. /\ \A i \in 1..Len(queue) : queue'[i] = queue[i]
      /\ queue'[Len(queue) + 1] = t
  OBVIOUS
<1>3. 1..(Len(queue) + 1) = 1..Len(queue) \cup {Len(queue) + 1}
  BY <1>1
<1>4. Enqueued' = Enqueued \cup {t}
  BY <1>1, <1>2, <1>3 DEF Enqueued
<1>5. ASSUME t \notin Enqueued, \A i, j \in DOMAIN queue : queue[i] = queue[j] => i = j,
             NEW i \in DOMAIN queue', NEW j \in DOMAIN queue', queue'[i] = queue'[j]
      PROVE  i = j
  <2>1. \A k \in DOMAIN queue : queue[k] # t
    BY <1>5 DEF Enqueued
  <2> QED  BY <1>1, <1>2, <1>3, <1>5, <2>1
<1> QED  BY <1>1, <1>4, <1>5

LEMMA Taken ==
  ASSUME queue \in Seq(Tasks), queue # <<>>, queue' = Tail(queue)
  PROVE  /\ queue' \in Seq(Tasks) /\ Head(queue) \in Tasks
         /\ Enqueued = Enqueued' \cup {Head(queue)}
         /\ (\A i, j \in DOMAIN queue : queue[i] = queue[j] => i = j)
              => /\ Head(queue) \notin Enqueued'
                 /\ \A i, j \in DOMAIN queue' : queue'[i] = queue'[j] => i = j
<1>1. /\ queue' \in Seq(Tasks) /\ Len(queue) \in Nat \ {0} /\ Head(queue) = queue[1]
      /\ DOMAIN queue = 1..Len(queue) /\ DOMAIN queue' = 1..(Len(queue) - 1)
      /\ Head(queue) \in Tasks
  OBVIOUS
<1>2. \A i \in 1..(Len(queue) - 1) : queue'[i] = queue[i + 1] /\ i + 1 \in 2..Len(queue)
  BY <1>1
<1>3. \A i \in 2..Len(queue) : i - 1 \in 1..(Len(queue) - 1) /\ queue[i] = queue'[i - 1]
  BY <1>1, <1>2
<1>4. Enqueued' = {queue[i] : i \in 2..Len(queue)}
  <2>1. ASSUME NEW i \in 1..(Len(queue) - 1) PROVE \E j \in 2..Len(queue) : queue'[i] = queue[j]
    BY <1>2
  <2>2. Enqueued' \subseteq {queue[i] : i \in 2..Len(queue)}
    BY <1>1, <2>1 DEF Enqueued
  <2>3. ASSUME NEW i \in 2..Len(queue) PROVE queue[i] \in Enqueued'
    BY <1>1, <1>3 DEF Enqueued
  <2> QED  BY <2>2, <2>3
<1>5. 1..Len(queue) = {1} \cup 2..Len(queue) /\ 1 \notin 2..Len(queue)
  BY <1>1
<1>6. Enqueued = Enqueued' \cup {Head(queue)}
  BY <1>1, <1>4, <1>5 DEF Enqueued
<1>7. ASSUME \A i, j \in DOMAIN queue : queue[i] = queue[j] => i = j
      PROVE  /\ Head(queue) \notin Enqueued'
             /\ \A i, j \in DOMAIN queue' : queue'[i] = queue'[j] => i = j
  <2>1. Head(queue) \notin Enqueued'
    BY <1>1, <1>4, <1>5, <1>7
  <2>2. ASSUME NEW i \in DOMAIN queue', NEW j \in DOMAIN queue', queue'[i] = queue'[j]
        PROVE  i = j
    <3>1. i \in Nat /\ j \in Nat /\ i + 1 \in DOMAIN queue /\ j + 1 \in DOMAIN queue
      BY <1>1, <2>2
    <3>2. queue[i + 1] = queue[j + 1]
      BY <1>1, <1>2, <2>2
    <3>3. i + 1 = j + 1
      BY <1>7, <3>1, <3>2
    <3> QED  BY <3>1, <3>3
  <2> QED  BY <2>1, <2>2
<1> QED  BY <1>1, <1>6, <1>7

\* What is outstanding, by the places it is in.
Active == {t \in Tasks : \E w \in Workers : doing[w] = t /\ pc[w] \in {"running", "reducing"}}

LEMMA OutstandingIs ==
  ASSUME NEW r
  PROVE  Outstanding(r)
           = {t \in Tasks : RoleOfTask(t) = r /\ t \in {submitting} \cup Enqueued \cup Active}
  BY DEF Outstanding, Enqueued, Active

LEMMA OutstandingBecomes ==
  ASSUME NEW r
  PROVE  Outstanding(r)'
           = {t \in Tasks : RoleOfTask(t) = r
                              /\ t \in {submitting'} \cup Enqueued' \cup Active'}
  BY DEF Outstanding, Enqueued, Active, RoleOfTask

\* A step that leaves the places of dispatched tasks, their weights and the
\* congestion alone.
LEMMA NothingMoves ==
  ASSUME {submitting'} \cup Enqueued' \cup Active' = {submitting} \cup Enqueued \cup Active,
         congestion' = congestion,
         \A t \in {submitting} \cup Enqueued \cup Active : t \in Tasks => weight'[t] = weight[t]
  PROVE  \A r \in Roles : MovesTogether(r)
  BY OutstandingIs, OutstandingBecomes DEF MovesTogether

LEMMA ActiveHeld ==
  ASSUME HandsInv
  PROVE  Active \subseteq Held /\ Held \subseteq Tasks
  BY DEF Active, Held

LEMMA CallSteps ==
  ASSUME CountInv,
         NEW t \in Tasks, Refuse(t) \/ Construct(t) \/ Post(t) \/ Notify(t)
  PROVE  /\ HandsInv' /\ OneHandInv' /\ WeighedInv'
         /\ \A r \in Roles : MovesTogether(r)
<1> USE DEF CountInv, HandsInv
<1>1. UNCHANGED <<batch, submitting, balancer, congestion, queue, pc, doing>>
  BY DEF Refuse, Construct, Post, Notify, balancerVars, workerVars
<1>2. Enqueued' = Enqueued /\ Held' = Held /\ Active' = Active
  BY <1>1 DEF Enqueued, Held, Active
<1>3. posted' \subseteq Tasks /\ (posted' = posted \/ (posted' = posted \cup {t} /\ Post(t)))
  BY DEF Refuse, Construct, Post, Notify
<1>4. HandsInv'
  BY <1>1, <1>3 DEF Roles
<1>5. Post(t) => t \notin batch \cup {submitting} \cup Enqueued \cup Held /\ weight[t] > 0
  BY DEF Post, Called, Dispatched, Enqueued, Held
<1>6. OneHandInv'
  BY <1>1, <1>2, <1>3, <1>5 DEF OneHandInv
<1>7. \A u \in Tasks : weight[u] > 0 => weight'[u] = weight[u]
  BY DEF Refuse, Construct, New, Post, Notify, PostedInv
<1>8. WeighedInv'
  BY <1>1, <1>2, <1>3, <1>5, <1>7 DEF WeighedInv
<1>9. \A r \in Roles : MovesTogether(r)
  BY <1>1, <1>2, <1>7, ActiveHeld, NothingMoves DEF WeighedInv
<1> QED  BY <1>4, <1>6, <1>8, <1>9

LEMMA CountsMoves ==
  ASSUME CountInv, NEW t \in Tasks, BalancerCounts(t)
  PROVE  /\ HandsInv' /\ OneHandInv' /\ WeighedInv'
         /\ \A r \in Roles : MovesTogether(r)
<1> USE TasksAssumption DEF CountInv, HandsInv
<1>1. /\ UNCHANGED <<posted, queue, pc, doing, weight>>
      /\ balancer = "dispatching" /\ balancer' = "submitting"
      /\ t \in batch /\ batch' = batch \ {t} /\ submitting = NoTask /\ submitting' = t
  BY DEF BalancerCounts, callVars, workerVars
<1>2. Enqueued' = Enqueued /\ Held' = Held /\ Active' = Active
  BY <1>1 DEF Enqueued, Held, Active
<1>3. RoleOfTask(t) \in Roles /\ weight[t] \in Nat
  BY <1>1 DEF WeighedInv, PostedInv
<1>4. HandsInv'
  BY <1>1, <1>3 DEF BalancerCounts, Roles
<1>5. t \notin Enqueued \cup Held \cup posted
  BY <1>1 DEF OneHandInv
<1>6. OneHandInv' /\ WeighedInv'
  BY <1>1, <1>2, <1>5 DEF OneHandInv, WeighedInv
<1>7. ASSUME NEW r \in Roles PROVE MovesTogether(r)
  <2>1. \A u \in Outstanding(r) : weight'[u] = weight[u]
    BY <1>1
  <2>2. t \notin Outstanding(r)
    BY <1>1, <1>5, ActiveHeld, OutstandingIs
  <2>3. CASE r = RoleOfTask(t)
    <3>1. Outstanding(r)' = Outstanding(r) \cup {t}
      BY <1>1, <1>2, <2>3, OutstandingIs, OutstandingBecomes
    <3>2. congestion'[r] = congestion[r] + weight'[t]
      BY <1>1, <2>3 DEF BalancerCounts
    <3> QED  BY <2>1, <2>2, <3>1, <3>2 DEF MovesTogether
  <2>4. CASE r # RoleOfTask(t)
    <3>1. Outstanding(r)' = Outstanding(r)
      BY <1>1, <1>2, <2>4, OutstandingIs, OutstandingBecomes
    <3>2. congestion'[r] = congestion[r]
      BY <1>3, <2>4 DEF BalancerCounts
    <3> QED  BY <2>1, <3>1, <3>2 DEF MovesTogether
  <2> QED  BY <2>3, <2>4
<1> QED  BY <1>4, <1>6, <1>7

LEMMA SubmitMoves ==
  ASSUME CountInv, BalancerSubmits
  PROVE  /\ HandsInv' /\ OneHandInv' /\ WeighedInv'
         /\ \A r \in Roles : MovesTogether(r)
<1> USE TasksAssumption DEF CountInv, HandsInv
<1>1. /\ UNCHANGED <<posted, batch, congestion, pc, doing, weight>>
      /\ submitting \in Tasks /\ submitting' = NoTask /\ queue' = Append(queue, submitting)
      /\ balancer' = "dispatching"
  BY DEF BalancerSubmits, callVars, workerVars
<1>2. Held' = Held /\ Active' = Active /\ Held \subseteq Tasks
  BY <1>1 DEF Held, Active
<1>3. /\ queue' \in Seq(Tasks) /\ Enqueued' = Enqueued \cup {submitting}
      /\ \A i, j \in DOMAIN queue' : queue'[i] = queue'[j] => i = j
  BY <1>1, Appended DEF OneHandInv
<1>4. Enqueued' \subseteq Tasks
  BY <1>3 DEF Enqueued
<1>5. HandsInv'
  BY <1>1, <1>3 DEF Roles
<1>6. OneHandInv' /\ WeighedInv'
  BY <1>1, <1>2, <1>3, <1>4 DEF OneHandInv, WeighedInv
<1>7. ASSUME NEW r \in Roles PROVE MovesTogether(r)
  <2>1. Outstanding(r)' = Outstanding(r)
    BY <1>1, <1>2, <1>3, OutstandingIs, OutstandingBecomes
  <2> QED  BY <1>1, <2>1 DEF MovesTogether
<1> QED  BY <1>5, <1>6, <1>7

\* The other steps of the balancer touch no task that is dispatched.
LEMMA BalancerMoves ==
  ASSUME CountInv, BalancerStep
  PROVE  /\ HandsInv' /\ OneHandInv' /\ WeighedInv'
         /\ \A r \in Roles : MovesTogether(r)
<1>1. CASE BalancerSubmits
  BY <1>1, SubmitMoves
<1>2. ASSUME NEW t \in Tasks, BalancerCounts(t)
      PROVE  /\ HandsInv' /\ OneHandInv' /\ WeighedInv'
             /\ \A r \in Roles : MovesTogether(r)
  BY <1>2, CountsMoves
<1> DEFINE Quiet == BalancerTests \/ BalancerWakes \/ BalancerClears \/ BalancerDrained
                    \/ BalancerLoops
<1>3. ASSUME Quiet \/ \E t \in Tasks : BalancerPulls(t)
      PROVE  /\ HandsInv' /\ OneHandInv' /\ WeighedInv'
             /\ \A r \in Roles : MovesTogether(r)
  <2> USE TasksAssumption DEF CountInv, HandsInv
  <2>1. /\ UNCHANGED <<submitting, congestion, queue, pc, doing, weight>>
        /\ balancer # "submitting" /\ balancer' # "submitting"
    BY <1>3 DEF BalancerTests, BalancerWakes, BalancerClears, BalancerDrained, BalancerLoops,
       BalancerPulls, callVars, workerVars
  <2>2. \/ posted' = posted /\ batch' = batch
        \/ \E t \in posted : posted' = posted \ {t} /\ batch' = batch \cup {t}
    BY <1>3 DEF BalancerTests, BalancerWakes, BalancerClears, BalancerDrained, BalancerLoops,
       BalancerPulls, Waiting
  <2>3. Enqueued' = Enqueued /\ Held' = Held /\ Active' = Active
    BY <2>1 DEF Enqueued, Held, Active
  <2>4. HandsInv'
    BY <2>1, <2>2 DEF Roles
  <2>5. OneHandInv' /\ WeighedInv'
    BY <2>1, <2>2, <2>3 DEF OneHandInv, WeighedInv
  <2>6. \A r \in Roles : MovesTogether(r)
    BY <2>1, <2>3, NothingMoves
  <2> QED  BY <2>4, <2>5, <2>6
<1> QED  BY <1>1, <1>2, <1>3 DEF BalancerStep

LEMMA TakesMoves ==
  ASSUME CountInv, NEW w \in Workers, WorkerTakes(w)
  PROVE  /\ HandsInv' /\ OneHandInv' /\ WeighedInv'
         /\ \A r \in Roles : MovesTogether(r)
<1> USE TasksAssumption DEF CountInv, HandsInv
<1> DEFINE t == Head(queue)
<1>1. /\ UNCHANGED <<posted, batch, submitting, balancer, congestion, weight>>
      /\ pc[w] = "getting" /\ queue # <<>> /\ queue' = Tail(queue)
      /\ pc' = [pc EXCEPT ![w] = "running"]
      /\ doing' = [doing EXCEPT ![w] = t] /\ doing[w] = NoTask
  BY DEF WorkerTakes, Goto, callVars, balancerVars
<1>2. /\ queue' \in Seq(Tasks) /\ t \in Tasks /\ Enqueued = Enqueued' \cup {t}
      /\ t \notin Enqueued'
      /\ \A i, j \in DOMAIN queue' : queue'[i] = queue'[j] => i = j
  BY <1>1, Taken DEF OneHandInv
<1> HIDE DEF t
<1>3. Held' = Held \cup {t} /\ Active' = Active \cup {t}
  BY <1>1, <1>2 DEF Held, Active
<1>4. HandsInv'
  BY <1>1, <1>2 DEF Roles
<1>5. t \notin Held /\ \A v \in Workers : doing[v] # t
  BY <1>2 DEF OneHandInv, Held
<1>6. \A u, v \in Workers : doing'[u] = doing'[v] /\ doing'[u] # NoTask => u = v
  BY <1>1, <1>5 DEF OneHandInv
<1>7. OneHandInv' /\ WeighedInv'
  BY <1>1, <1>2, <1>3, <1>5, <1>6 DEF OneHandInv, WeighedInv
<1>8. \A r \in Roles : MovesTogether(r)
  <2>1. {submitting'} \cup Enqueued' \cup Active' = {submitting} \cup Enqueued \cup Active
    BY <1>1, <1>2, <1>3
  <2> QED  BY <1>1, <2>1, NothingMoves
<1> QED  BY <1>4, <1>7, <1>8

LEMMA ReducesMoves ==
  ASSUME CountInv, NEW w \in Workers, WorkerReduces(w)
  PROVE  /\ HandsInv' /\ OneHandInv' /\ WeighedInv'
         /\ \A r \in Roles : MovesTogether(r)
<1> USE TasksAssumption DEF CountInv, HandsInv
<1> DEFINE t == doing[w]
<1>1. /\ UNCHANGED <<posted, batch, submitting, balancer, queue, doing, weight>>
      /\ pc[w] = "reducing" /\ pc' = [pc EXCEPT ![w] = "waking"] /\ t \in Tasks
      /\ congestion' = [congestion EXCEPT ![RoleOfTask(t)] = @ - weight[t]]
  BY DEF WorkerReduces, Goto, callVars, balancerVars
<1>2. Enqueued' = Enqueued /\ Held' = Held /\ t \in Held
  BY <1>1 DEF Enqueued, Held
<1>3. RoleOfTask(t) \in Roles /\ weight[t] \in Nat
  BY <1>1, <1>2 DEF WeighedInv, PostedInv
<1>4. \A v \in Workers : doing[v] = t => v = w
  BY <1>1 DEF OneHandInv
<1>5. Active' = Active \ {t} /\ t \in Active
  BY <1>1, <1>4 DEF Active
<1>6. HandsInv'
  BY <1>1, <1>3 DEF Roles
<1>7. OneHandInv' /\ WeighedInv'
  BY <1>1, <1>2 DEF OneHandInv, WeighedInv
<1>8. ASSUME NEW r \in Roles PROVE MovesTogether(r)
  <2>1. \A u \in Outstanding(r) : weight'[u] = weight[u]
    BY <1>1
  <2>2. t \notin {submitting} \cup Enqueued
    BY <1>2 DEF OneHandInv
  <2>3. CASE r = RoleOfTask(t)
    <3>1. Outstanding(r)' = Outstanding(r) \ {t} /\ t \in Outstanding(r)
      BY <1>1, <1>2, <1>5, <2>2, <2>3, OutstandingIs, OutstandingBecomes
    <3>2. congestion'[r] = congestion[r] - weight[t]
      BY <1>1, <2>3
    <3> QED  BY <2>1, <3>1, <3>2 DEF MovesTogether
  <2>4. CASE r # RoleOfTask(t)
    <3>1. Outstanding(r)' = Outstanding(r)
      BY <1>1, <1>2, <1>5, <2>4, OutstandingIs, OutstandingBecomes
    <3>2. congestion'[r] = congestion[r]
      BY <1>1, <2>4
    <3> QED  BY <2>1, <3>1, <3>2 DEF MovesTogether
  <2> QED  BY <2>3, <2>4
<1> QED  BY <1>6, <1>7, <1>8

LEMMA WorkerMoves ==
  ASSUME CountInv, NEW w \in Workers, WorkerStep(w)
  PROVE  /\ HandsInv' /\ OneHandInv' /\ WeighedInv'
         /\ \A r \in Roles : MovesTogether(r)
<1>1. CASE WorkerTakes(w)
  BY <1>1, TakesMoves
<1>2. CASE WorkerReduces(w)
  BY <1>2, ReducesMoves
<1>3. CASE WorkerTests(w) \/ WorkerFindsNone(w) \/ WorkerRan(w) \/ WorkerWakesBalancer(w)
  <2> USE TasksAssumption DEF CountInv, HandsInv
  <2>1. UNCHANGED <<posted, batch, submitting, balancer, congestion, queue, doing, weight>>
    BY <1>3 DEF WorkerTests, WorkerFindsNone, WorkerRan, WorkerWakesBalancer, callVars,
       balancerVars
  <2>2. \E stage \in {"testing", "getting", "reducing", "realizing", "stopped", "dead"} :
          /\ pc' = [pc EXCEPT ![w] = stage]
          /\ stage \in {"testing", "getting", "stopped"}
               <=> pc[w] \in {"testing", "getting", "stopped"}
          /\ stage = "reducing" <=> pc[w] \in {"running", "reducing"}
    BY <1>3 DEF WorkerTests, WorkerFindsNone, WorkerRan, WorkerWakesBalancer, Goto
  <2>3. Enqueued' = Enqueued /\ Held' = Held
    BY <2>1 DEF Enqueued, Held
  <2>4. \A v \in Workers : pc'[v] \in {"running", "reducing"} <=> pc[v] \in {"running", "reducing"}
    BY <2>2
  <2>5. Active' = Active
    BY <2>1, <2>4 DEF Active
  <2>6. HandsInv'
    BY <2>1, <2>2 DEF Roles
  <2>7. OneHandInv' /\ WeighedInv'
    BY <2>1, <2>3 DEF OneHandInv, WeighedInv
  <2>8. \A r \in Roles : MovesTogether(r)
    BY <2>1, <2>3, <2>5, NothingMoves
  <2> QED  BY <2>6, <2>7, <2>8
<1>4. CASE WorkerRealizes(w)
  <2> USE TasksAssumption DEF CountInv, HandsInv
  <2>1. /\ UNCHANGED <<posted, batch, submitting, balancer, congestion, queue, weight>>
        /\ pc[w] = "realizing" /\ pc' = [pc EXCEPT ![w] = "testing"]
        /\ doing' = [doing EXCEPT ![w] = NoTask]
    BY <1>4 DEF WorkerRealizes, Goto, callVars, balancerVars
  <2>2. Enqueued' = Enqueued /\ Held' \subseteq Held /\ Active' = Active
    BY <2>1 DEF Enqueued, Held, Active
  <2>3. HandsInv'
    BY <2>1 DEF Roles
  <2>4. OneHandInv' /\ WeighedInv'
    BY <2>1, <2>2 DEF OneHandInv, WeighedInv
  <2>5. \A r \in Roles : MovesTogether(r)
    BY <2>1, <2>2, NothingMoves
  <2> QED  BY <2>3, <2>4, <2>5
<1> QED  BY <1>1, <1>2, <1>3, <1>4 DEF WorkerStep

LEMMA CountStep ==
  ASSUME CountInv, [Next]_vars
  PROVE  CountInv' /\ \A r \in Roles : MovesTogether(r)
<1>1. PostedInv'
  BY PostedNext DEF CountInv
<1>2. ASSUME NEW t \in Tasks, Refuse(t) \/ Construct(t) \/ Caller(t)
      PROVE  /\ HandsInv' /\ OneHandInv' /\ WeighedInv'
             /\ \A r \in Roles : MovesTogether(r)
  BY <1>2, CallSteps DEF Caller
<1>3. ASSUME \/ UNCHANGED vars
             \/ \E part \in {"balancer", "executor"} : ShutDown(part)
      PROVE  /\ HandsInv' /\ OneHandInv' /\ WeighedInv'
             /\ \A r \in Roles : MovesTogether(r)
  <2>1. UNCHANGED <<posted, batch, submitting, balancer, congestion, queue, pc, doing, weight>>
    BY <1>3 DEF ShutDown, vars, callVars, balancerVars, workerVars
  <2>2. Enqueued' = Enqueued /\ Held' = Held /\ Active' = Active
    BY <2>1 DEF Enqueued, Held, Active
  <2>3. HandsInv' /\ OneHandInv' /\ WeighedInv'
    BY <2>1, <2>2 DEF CountInv, HandsInv, OneHandInv, WeighedInv, Roles
  <2> QED  BY <2>1, <2>2, <2>3, NothingMoves
<1> QED  BY <1>1, <1>2, <1>3, BalancerMoves, WorkerMoves DEF CountInv, Next

\* The units of the outstanding tasks, with the sum that congestion has to be.
UnitsCounted(r) == IsFiniteSet(Units(r)) /\ congestion[r] = Cardinality(Units(r))

LEMMA UnitsOfOne ==
  ASSUME NEW t, NEW n \in Nat
  PROVE  IsFiniteSet({t} \X (1..n)) /\ Cardinality({t} \X (1..n)) = n
<1>1. IsFiniteSet(1..n) /\ Cardinality(1..n) = n
  BY FS_Interval
<1>2. IsFiniteSet({t}) /\ Cardinality({t}) = 1
  BY FS_Singleton
<1>3. /\ IsFiniteSet({t} \X (1..n))
      /\ Cardinality({t} \X (1..n)) = Cardinality({t}) * Cardinality(1..n)
  BY <1>1, <1>2, FS_Product
<1>4. 1 * n = n
  OBVIOUS
<1> QED  BY <1>1, <1>2, <1>3, <1>4

\* One more task, or one less: its units are nobody else's.
LEMMA UnitsAdded ==
  ASSUME NEW S, IsFiniteSet(S), NEW t, NEW n \in Nat, \A u \in S : u[1] # t
  PROVE  /\ IsFiniteSet(S \cup ({t} \X (1..n)))
         /\ Cardinality(S \cup ({t} \X (1..n))) = Cardinality(S) + n
<1>1. IsFiniteSet({t} \X (1..n)) /\ Cardinality({t} \X (1..n)) = n
  BY UnitsOfOne
<1>2. S \cap ({t} \X (1..n)) = {}
  OBVIOUS
<1>3. Cardinality(S \cap ({t} \X (1..n))) = 0
  BY <1>2, FS_EmptySet
<1>4. /\ IsFiniteSet(S \cup ({t} \X (1..n)))
      /\ Cardinality(S \cup ({t} \X (1..n)))
           = Cardinality(S) + Cardinality({t} \X (1..n)) - Cardinality(S \cap ({t} \X (1..n)))
  BY <1>1, FS_Union
<1>5. Cardinality(S) \in Nat
  BY FS_CardinalityType
<1> QED  BY <1>1, <1>3, <1>4, <1>5

LEMMA UnitsStep ==
  ASSUME CountInv, CountInv', NEW r \in Roles, MovesTogether(r), UnitsCounted(r)
  PROVE  UnitsCounted(r)'
<1>1. /\ \A t \in Tasks : weight[t] \in Nat /\ weight'[t] \in Nat
      /\ Outstanding(r) \subseteq Tasks
      /\ \A t \in Outstanding(r) : weight'[t] = weight[t]
      /\ IsFiniteSet(Units(r)) /\ congestion[r] = Cardinality(Units(r))
      /\ Cardinality(Units(r)) \in Nat
  BY FS_CardinalityType
     DEF CountInv, PostedInv, Outstanding, MovesTogether, UnitsCounted
<1>2. CASE Outstanding(r)' = Outstanding(r) /\ congestion'[r] = congestion[r]
  <2>1. Units(r)' = Units(r)
    BY <1>1, <1>2 DEF Units
  <2> QED  BY <1>1, <1>2, <2>1 DEF UnitsCounted
<1>3. ASSUME NEW t \in Tasks \ Outstanding(r), Outstanding(r)' = Outstanding(r) \cup {t},
             congestion'[r] = congestion[r] + weight'[t]
      PROVE  UnitsCounted(r)'
  <2>1. Units(r)' = Units(r) \cup ({t} \X (1..weight'[t]))
    BY <1>1, <1>3 DEF Units
  <2>2. \A u \in Units(r) : u[1] # t
    BY <1>3 DEF Units
  <2>3. /\ IsFiniteSet(Units(r)')
        /\ Cardinality(Units(r)') = Cardinality(Units(r)) + weight'[t]
    <3>1. ASSUME NEW n \in Nat
          PROVE  /\ IsFiniteSet(Units(r) \cup ({t} \X (1..n)))
                 /\ Cardinality(Units(r) \cup ({t} \X (1..n))) = Cardinality(Units(r)) + n
      <4>1. IsFiniteSet(Units(r))
        BY <1>1
      <4> QED  BY <2>2, <4>1, UnitsAdded
    <3>2. weight'[t] \in Nat
      BY <1>1
    <3> QED  BY <2>1, <3>1, <3>2
  <2> QED  BY <1>1, <1>3, <2>3 DEF UnitsCounted
<1>4. ASSUME NEW t \in Outstanding(r), Outstanding(r)' = Outstanding(r) \ {t},
             congestion'[r] = congestion[r] - weight[t]
      PROVE  UnitsCounted(r)'
  <2>1. Units(r) = Units(r)' \cup ({t} \X (1..weight[t]))
    BY <1>1, <1>4 DEF Units
  <2>2. \A u \in Units(r)' : u[1] # t
    BY <1>4 DEF Units
  <2>3. IsFiniteSet(Units(r)')
    BY <1>1, <2>1, FS_Subset
  <2>4. Cardinality(Units(r)) = Cardinality(Units(r)') + weight[t]
    <3>1. \A n \in Nat :
            Cardinality(Units(r)' \cup ({t} \X (1..n))) = Cardinality(Units(r)') + n
      BY <2>2, <2>3, UnitsAdded
    <3>2. weight[t] \in Nat
      BY <1>1
    <3> QED  BY <2>1, <3>1, <3>2
  <2>5. Cardinality(Units(r)') \in Nat
    BY <2>3, FS_CardinalityType
  <2> QED  BY <1>1, <1>4, <2>3, <2>4, <2>5 DEF UnitsCounted
<1> QED  BY <1>2, <1>3, <1>4 DEF MovesTogether

\* The congestion of a partition is the weight of what is outstanding: every step that
\* adds a task to the outstanding ones or takes one away adds or takes away that task's
\* weight, which stays meanwhile, however the sources' weights move
\* (load_balancer.py:72-80, 139-148).
THEOREM CongestionNeverDrifts == SchedulingSpec => []CongestionIsOutstanding
<1> DEFINE Counted == \A r \in Roles : UnitsCounted(r)
<1>1. SchedulingInit => CountInv /\ Counted
  <2> SUFFICES ASSUME SchedulingInit PROVE CountInv /\ Counted
    OBVIOUS
  <2>1. Enqueued = {} /\ Held = {} /\ Active = {} /\ submitting = NoTask
    BY TasksAssumption DEF SchedulingInit, Init, Enqueued, Held, Active
  <2>2. PostedInv
    BY UnitAssumption DEF SchedulingInit, Init, PostedInv
  <2>3. HandsInv
    BY DEF SchedulingInit, Init, HandsInv
  <2>4. OneHandInv /\ WeighedInv
    BY <2>1, TasksAssumption DEF SchedulingInit, Init, OneHandInv, WeighedInv
  <2>5. ASSUME NEW r \in Roles PROVE UnitsCounted(r)
    <3>1. Outstanding(r) = {}
      BY <2>1, OutstandingIs, TasksAssumption
    <3>2. Units(r) = {} /\ congestion[r] = 0
      BY <3>1 DEF Units, SchedulingInit, Init
    <3> QED  BY <3>2, FS_EmptySet DEF UnitsCounted
  <2> QED  BY <2>2, <2>3, <2>4, <2>5 DEF CountInv
<1>2. CountInv /\ Counted /\ [SchedulingNext]_allVars => CountInv' /\ Counted'
  <2> SUFFICES ASSUME CountInv, Counted, [SchedulingNext]_allVars PROVE CountInv' /\ Counted'
    OBVIOUS
  <2>1. CountInv' /\ \A r \in Roles : MovesTogether(r)
    BY StepsOfDispatch, CountStep
  <2>2. \A r \in Roles : UnitsCounted(r)'
    BY <2>1, UnitsStep
  <2> QED  BY <2>1, <2>2 DEF Roles
<1>3. Counted => CongestionIsOutstanding
  BY DEF UnitsCounted, CongestionIsOutstanding
<1> QED  BY <1>1, <1>2, <1>3, PTL DEF SchedulingSpec

-----------------------------------------------------------------------------
(* The scheduler's thread *)

\* Calls on the heap have their time, and it is not touched any more.
SleepInv ==
  /\ now \in Nat
  /\ runAt \in [Delayed -> Nat]
  /\ heap \subseteq Delayed
  /\ notified \in BOOLEAN
  /\ \A c \in heap : runAt[c] < Delay!Forever
  /\ Delay!NoOversleep

LEMMA SleepNext ==
  ASSUME SleepInv, [Delay!Next]_(Delay!vars)
  PROVE  SleepInv'
<1> USE DEF SleepInv, Delay!NoOversleep, Delay!threadVars
<1>0. Delay!Forever \in Nat
  BY TimeAssumption DEF Delay!Forever
<1>1. CASE Delay!Tick
  BY <1>1 DEF Delay!Tick
<1>2. ASSUME NEW c \in Delayed, NEW d \in 0..MaxDelay, Delay!ScheduleFor(c, d)
      PROVE  SleepInv'
  <2>1. c \notin heap
    BY <1>0, <1>2 DEF Delay!ScheduleFor
  <2>2. now + d \in Nat
    BY TimeAssumption
  <2> QED  BY <1>2, <2>1, <2>2 DEF Delay!ScheduleFor
<1>3. ASSUME NEW c \in Delayed, Delay!SchedulePush(c) PROVE SleepInv'
  BY <1>3 DEF Delay!SchedulePush, Delay!Notified
<1>4. CASE Delay!ShutDown
  BY <1>4 DEF Delay!ShutDown, Delay!Notified
<1>5. CASE Delay!Tests
  BY <1>5 DEF Delay!Tests
<1>6. ASSUME NEW c \in Delayed, Delay!FindsDue(c) PROVE SleepInv'
  BY <1>6 DEF Delay!FindsDue
<1>7. ASSUME NEW c \in Delayed, Delay!SleepsUntilCall(c) PROVE SleepInv'
  BY <1>7 DEF Delay!SleepsUntilCall, Delay!Sleeps, Delay!First
<1>8. CASE Delay!SleepsOn
  BY <1>8 DEF Delay!SleepsOn, Delay!Sleeps
<1>9. CASE Delay!Wakes
  BY <1>9 DEF Delay!Wakes
<1>10. CASE Delay!Calling
  BY <1>10 DEF Delay!Calling
<1>11. CASE UNCHANGED Delay!vars
  BY <1>11 DEF Delay!vars
<1> QED
  BY <1>1, <1>2, <1>3, <1>4, <1>5, <1>6, <1>7, <1>8, <1>9, <1>10, <1>11
     DEF Delay!Next, Delay!ThreadStep

\* The scheduler thread never sleeps past the earliest call, however many are scheduled
\* while it looks at its heap or waits (scheduler.py:32-34, 60-62).
THEOREM CallsAreNotOverslept == SchedulingSpec => []NoOversleep
<1>1. SchedulingInit => SleepInv
  <2>1. Delay!Forever \in Nat
    BY TimeAssumption DEF Delay!Forever
  <2> SUFFICES ASSUME Delay!Init PROVE SleepInv
    BY DEF SchedulingInit
  <2>2. runAt \in [Delayed -> Nat]
    BY <2>1 DEF Delay!Init
  <2> QED  BY <2>2 DEF Delay!Init, SleepInv, Delay!NoOversleep
<1>2. SleepInv /\ [SchedulingNext]_allVars => SleepInv'
  BY StepsOfDelayQueue, SleepNext
<1>3. SleepInv => NoOversleep
  BY DEF SleepInv, NoOversleep
<1> QED  BY <1>1, <1>2, <1>3, PTL DEF SchedulingSpec

===============================================================================
