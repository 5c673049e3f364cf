------------------------------ MODULE Dispatch ------------------------------
(***************************************************************************)
(* How a call of a layer reaches a worker thread: the LoadBalancer of      *)
(* src/nam/concurrency/load_balancer.py, one thread that drains the        *)
(* partitions whenever its wake event is set, and the Executor of          *)
(* src/nam/concurrency/executor.py, a pool of threads on one queue.        *)
(*                                                                         *)
(*   caller --post, notify--> partition --drain--> batch --call--> queue   *)
(*      --> a worker runs the stub: task, weight, congestion, wake         *)
(*                                                                         *)
(* Within a drain tasks are sorted by weight and age; nothing here depends *)
(* on that order, so they come in any.                                     *)
(***************************************************************************)
EXTENDS Naturals, Integers, Sequences, FiniteSets

CONSTANTS
  Tasks,         \* bound: the calls that will be made
  SourceOf,      \* the LoadBalancerSource of each
  Sources,
  RoleOf,        \* each source's load type
  Partitions,    \* the load types there is a partition for, in drain order
  MaxUnit,       \* bound: unit weights are 1..MaxUnit
  Workers,       \* the executor's threads
  Exiting,       \* tasks that raise a BaseException that is no Exception
  MayShutDown,   \* whether the process comes to its end
  NoTask

ASSUME SourcesAssumption == SourceOf \in [Tasks -> Sources]
ASSUME PartitionsAssumption == Partitions \in Seq(STRING)
ASSUME UnitAssumption == MaxUnit \in Nat \ {0}
ASSUME TasksAssumption == IsFiniteSet(Tasks) /\ NoTask \notin Tasks
ASSUME ShutDownAssumption == MayShutDown \in BOOLEAN

Roles == {Partitions[i] : i \in DOMAIN Partitions}
RoleOfTask(t) == RoleOf[SourceOf[t]]

VARIABLES
  unit,          \* each source's _unit_weight
  weight,        \* each task's _weight_snapshot, 0 before its construction
  posted,        \* the tasks in the partitions' queues
  notifying,     \* tasks posted by a caller that has not called notify yet
  refused,       \* tasks whose call raised RuntimeError
  wake,          \* LoadBalancer._wake
  balancer,      \* what its thread does
  draining,      \* the number of the partition it drains
  batch,         \* the tasks it has drained
  submitting,    \* the task whose congestion was added last
  congestion,    \* each partition's _congestion
  queue,         \* Executor.queue
  pc,            \* what each worker does
  doing,         \* its task
  realized,      \* the tasks whose Future happened
  closing        \* which of the two were told to shut down

vars == <<unit, weight, posted, notifying, refused, wake, balancer, draining,
          batch, submitting, congestion, queue, pc, doing, realized, closing>>
callVars == <<weight, notifying, refused>>
balancerVars == <<balancer, draining, batch, submitting>>
workerVars == <<pc, doing, realized>>

TypeOK ==
  /\ unit \in [Sources -> 1..MaxUnit]
  /\ weight \in [Tasks -> 0..MaxUnit]
  /\ posted \subseteq Tasks
  /\ notifying \subseteq Tasks
  /\ refused \subseteq Tasks
  /\ wake \in BOOLEAN
  /\ balancer \in {"testing", "waiting", "woken", "draining", "dispatching",
                   "submitting", "stopped"}
  /\ draining \in 1..Len(Partitions)
  /\ batch \subseteq Tasks
  /\ submitting \in Tasks \cup {NoTask}
  /\ congestion \in [Roles -> Int]
  /\ queue \in Seq(Tasks)
  /\ pc \in [Workers -> {"testing", "getting", "running", "reducing", "waking",
                         "realizing", "stopped", "dead"}]
  /\ doing \in [Workers -> Tasks \cup {NoTask}]
  /\ realized \subseteq Tasks
  /\ closing \subseteq {"balancer", "executor"}

Init ==
  /\ unit = [s \in Sources |-> 1]
  /\ weight = [t \in Tasks |-> 0]
  /\ posted = {} /\ notifying = {} /\ refused = {}
  /\ wake = FALSE
  /\ balancer = "testing" /\ draining = 1 /\ batch = {} /\ submitting = NoTask
  /\ congestion = [r \in Roles |-> 0]
  /\ queue = <<>>
  /\ pc = [w \in Workers |-> "testing"]
  /\ doing = [w \in Workers |-> NoTask]
  /\ realized = {}
  /\ closing = {}

-----------------------------------------------------------------------------
(* LoadBalancerSource.call *)

New(t) == weight[t] = 0 /\ t \notin refused

\* register() found no partition for the source's load type: call() raises.
Refuse(t) ==
  /\ New(t) /\ RoleOfTask(t) \notin Roles
  /\ refused' = refused \cup {t}
  /\ UNCHANGED <<unit, weight, posted, notifying, wake, balancerVars, congestion,
                 queue, workerVars, closing>>

\* The LoadBalancerTask is constructed: it keeps the weight its source has now.
Construct(t) ==
  /\ New(t) /\ RoleOfTask(t) \in Roles
  /\ weight' = [weight EXCEPT ![t] = unit[SourceOf[t]]]
  /\ UNCHANGED <<unit, posted, notifying, refused, wake, balancerVars,
                 congestion, queue, workerVars, closing>>

Dispatched(t) ==
  t \in batch \cup {submitting} \cup realized \/ t \in {queue[i] : i \in DOMAIN queue}
  \/ \E w \in Workers : doing[w] = t

Called(t) == t \in posted \cup notifying \/ Dispatched(t)

Post(t) ==
  /\ weight[t] > 0 /\ ~Called(t)
  /\ posted' = posted \cup {t}
  /\ notifying' = notifying \cup {t}
  /\ UNCHANGED <<unit, weight, refused, wake, balancerVars, congestion, queue,
                 workerVars, closing>>

Notify(t) ==
  /\ t \in notifying
  /\ notifying' = notifying \ {t}
  /\ wake' = TRUE
  /\ UNCHANGED <<unit, weight, posted, refused, balancerVars, congestion, queue,
                 workerVars, closing>>

-----------------------------------------------------------------------------
(* LoadBalancer._run *)

\* Slip: the thread does not look whether it should stop.
BalancerTestsNothing ==
  /\ balancer = "testing"
  /\ balancer' = "waiting"
  /\ UNCHANGED <<unit, callVars, posted, wake, draining, batch, submitting,
                 congestion, queue, workerVars, closing>>

BalancerTests ==
  /\ balancer = "testing"
  /\ balancer' = IF "balancer" \in closing THEN "stopped" ELSE "waiting"
  /\ UNCHANGED <<unit, callVars, posted, wake, draining, batch, submitting,
                 congestion, queue, workerVars, closing>>

\* wait() returns: the event is set, or _AGING_INTERVAL_SEC have passed.
BalancerWakes ==
  /\ balancer = "waiting"
  /\ balancer' = "woken"
  /\ UNCHANGED <<unit, callVars, posted, wake, draining, batch, submitting,
                 congestion, queue, workerVars, closing>>

\* The event is cleared before the partitions are looked at.
BalancerClears ==
  /\ balancer = "woken"
  /\ wake' = FALSE
  /\ balancer' = "draining" /\ draining' = 1
  /\ UNCHANGED <<unit, callVars, posted, batch, submitting, congestion, queue,
                 workerVars, closing>>

Waiting(r) == {t \in posted : RoleOfTask(t) = r}

\* One pull(), while the partition has tasks.
BalancerPulls(t) ==
  /\ balancer = "draining" /\ t \in Waiting(Partitions[draining])
  /\ posted' = posted \ {t}
  /\ batch' = batch \cup {t}
  /\ UNCHANGED <<unit, callVars, wake, balancer, draining, submitting,
                 congestion, queue, workerVars, closing>>

\* The partition is empty: on to the next, and after the last to the dispatch.
BalancerDrained ==
  /\ balancer = "draining" /\ Waiting(Partitions[draining]) = {}
  /\ IF draining < Len(Partitions)
     THEN draining' = draining + 1 /\ UNCHANGED balancer
     ELSE balancer' = "dispatching" /\ UNCHANGED draining
  /\ UNCHANGED <<unit, callVars, posted, wake, batch, submitting, congestion,
                 queue, workerVars, closing>>

Rank(t) == CHOOSE i \in DOMAIN Partitions : Partitions[i] = RoleOfTask(t)

\* _dispatch_task counts the task's weight first ...
BalancerCounts(t) ==
  /\ balancer = "dispatching" /\ t \in batch
  /\ \A u \in batch : Rank(t) <= Rank(u)
  /\ congestion' = [congestion EXCEPT ![RoleOfTask(t)] = @ + weight[t]]
  /\ batch' = batch \ {t}
  /\ submitting' = t
  /\ balancer' = "submitting"
  /\ UNCHANGED <<unit, callVars, posted, wake, draining, queue, workerVars,
                 closing>>

\* ... and then hands its stub to the executor.
BalancerSubmits ==
  /\ balancer = "submitting"
  /\ queue' = Append(queue, submitting)
  /\ submitting' = NoTask
  /\ balancer' = "dispatching"
  /\ UNCHANGED <<unit, callVars, posted, wake, draining, batch, congestion,
                 workerVars, closing>>

\* Slip: the event is cleared after the drain.
BalancerLoopsClears ==
  /\ balancer = "dispatching" /\ batch = {}
  /\ balancer' = "testing"
  /\ wake' = FALSE
  /\ UNCHANGED <<unit, callVars, posted, draining, batch, submitting,
                 congestion, queue, workerVars, closing>>

BalancerLoops ==
  /\ balancer = "dispatching" /\ batch = {}
  /\ balancer' = "testing"
  /\ UNCHANGED <<unit, callVars, posted, wake, draining, batch, submitting,
                 congestion, queue, workerVars, closing>>

-----------------------------------------------------------------------------
(* Executor.run and the stub it runs *)

Goto(w, stage) == pc' = [pc EXCEPT ![w] = stage]

WorkerTests(w) ==
  /\ pc[w] = "testing"
  /\ Goto(w, IF "executor" \in closing THEN "stopped" ELSE "getting")
  /\ UNCHANGED <<unit, callVars, posted, wake, balancerVars, congestion, queue,
                 doing, realized, closing>>

\* get() runs into its timeout.
WorkerFindsNone(w) ==
  /\ pc[w] = "getting" /\ queue = <<>>
  /\ Goto(w, "testing")
  /\ UNCHANGED <<unit, callVars, posted, wake, balancerVars, congestion, queue,
                 doing, realized, closing>>

WorkerTakes(w) ==
  /\ pc[w] = "getting" /\ queue # <<>>
  /\ doing' = [doing EXCEPT ![w] = Head(queue)]
  /\ queue' = Tail(queue)
  /\ Goto(w, "running")
  /\ UNCHANGED <<unit, callVars, posted, wake, balancerVars, congestion,
                 realized, closing>>

\* The task returns or raises; what it took changes the source's weight.
WorkerRan(w) ==
  /\ pc[w] = "running"
  /\ \E u \in 1..MaxUnit : unit' = [unit EXCEPT ![SourceOf[doing[w]]] = u]
  /\ Goto(w, "reducing")
  /\ UNCHANGED <<callVars, posted, wake, balancerVars, congestion, queue, doing,
                 realized, closing>>

\* Slip: the congestion is reduced by the weight the source has now.
WorkerReducesUnit(w) ==
  /\ pc[w] = "reducing"
  /\ congestion' = [congestion EXCEPT ![RoleOfTask(doing[w])] = @ - unit[SourceOf[doing[w]]]]
  /\ Goto(w, "waking")
  /\ UNCHANGED <<unit, callVars, posted, wake, balancerVars, queue, doing,
                 realized, closing>>

WorkerReduces(w) ==
  /\ pc[w] = "reducing"
  /\ congestion' = [congestion EXCEPT ![RoleOfTask(doing[w])] = @ - weight[doing[w]]]
  /\ Goto(w, "waking")
  /\ UNCHANGED <<unit, callVars, posted, wake, balancerVars, queue, doing,
                 realized, closing>>

\* The stub ends; run() catches an Exception, and nothing else.
WorkerWakesBalancer(w) ==
  /\ pc[w] = "waking"
  /\ wake' = TRUE
  /\ Goto(w, IF doing[w] \in Exiting THEN "dead" ELSE "realizing")
  /\ UNCHANGED <<unit, callVars, posted, balancerVars, congestion, queue, doing,
                 realized, closing>>

WorkerRealizes(w) ==
  /\ pc[w] = "realizing"
  /\ realized' = realized \cup {doing[w]}
  /\ doing' = [doing EXCEPT ![w] = NoTask]
  /\ Goto(w, "testing")
  /\ UNCHANGED <<unit, callVars, posted, wake, balancerVars, congestion, queue,
                 closing>>

-----------------------------------------------------------------------------
(* shutdown(), from atexit *)

ShutDown(part) ==
  /\ MayShutDown /\ part \notin closing
  /\ closing' = closing \cup {part}
  /\ wake' = IF part = "balancer" THEN TRUE ELSE wake
  /\ UNCHANGED <<unit, callVars, posted, balancerVars, congestion, queue,
                 workerVars>>

-----------------------------------------------------------------------------

Caller(t) == Post(t) \/ Notify(t)

BalancerStep ==
  BalancerTests \/ BalancerWakes \/ BalancerClears \/ BalancerDrained
  \/ BalancerSubmits \/ BalancerLoops
  \/ \E t \in Tasks : BalancerPulls(t) \/ BalancerCounts(t)

WorkerStep(w) ==
  WorkerTests(w) \/ WorkerFindsNone(w) \/ WorkerTakes(w) \/ WorkerRan(w)
  \/ WorkerReduces(w) \/ WorkerWakesBalancer(w) \/ WorkerRealizes(w)

Next ==
  \/ \E t \in Tasks : Refuse(t) \/ Construct(t) \/ Caller(t)
  \/ BalancerStep
  \/ \E w \in Workers : WorkerStep(w)
  \/ \E part \in {"balancer", "executor"} : ShutDown(part)

\* Threads run on; wait() and get() return after their timeout at the latest;
\* a task comes to an end.
Fairness ==
  /\ \A t \in Tasks : WF_vars(Caller(t))
  /\ WF_vars(BalancerStep)
  /\ \A w \in Workers : WF_vars(WorkerStep(w))

Spec == Init /\ [][Next]_vars /\ Fairness

-----------------------------------------------------------------------------
(* Correctness *)

Outstanding(r) ==
  {t \in Tasks :
     /\ RoleOfTask(t) = r
     /\ \/ t = submitting
        \/ t \in {queue[i] : i \in DOMAIN queue}
        \/ \E w \in Workers : doing[w] = t /\ pc[w] \in {"running", "reducing"}}

\* Its units of weight, one by one.
Units(r) == UNION {{t} \X (1..weight[t]) : t \in Outstanding(r)}

\* A partition's congestion is the weight of what was dispatched and has not
\* finished, however the sources' weights move in between: the additions and the
\* reductions cancel out and it never drifts (load_balancer.py:72-80, 139-148).
CongestionIsOutstanding ==
  \A r \in Roles : congestion[r] = Cardinality(Units(r))

\* The balancer never settles down to wait with a task in a partition whose
\* notification it has swallowed: no task sits out the timeout
\* (load_balancer.py:216-217, 282-284).
NoLostWakeup ==
  balancer = "waiting" /\ posted # {}
    => wake \/ posted \cap notifying # {}

-----------------------------------------------------------------------------
(* What the docs and comments say, and the code does not do *)

\* What executor.py:98-102 says: a misbehaving task never kills its worker.
WorkersSurvive == \A w \in Workers : pc[w] # "dead"

\* What docs/DEV_MANUAL.md says of role: a free-form label.  Any label will do
\* for a task to be run.
CalledIsRun == \A t \in Tasks : weight[t] > 0 \/ t \in refused ~> t \in realized

\* What docs/feature_unified_concurrency.md says of partitions: slow gpu work
\* does not starve cpu work.  So cpu work ready to run never waits for a worker
\* while gpu work has them all.
GpuLeavesAWorker ==
  (\A w \in Workers : doing[w] # NoTask /\ RoleOfTask(doing[w]) = "gpu")
    => \A i \in DOMAIN queue : RoleOfTask(queue[i]) # "cpu"

=============================================================================
