----------------------------- MODULE Scheduling -----------------------------
(***************************************************************************)
(* From a delayed call to the worker that runs it: the scheduler thread of *)
(* module DelayQueue makes the calls of module Dispatch when they are due. *)
(* Every poll of a layer and of an orchestrator goes this way              *)
(* (_execute_scheduler(delay, _LOAD_BALANCER_DISPATCHER.call, ...)), so    *)
(* what they are owed rests on the three threads together.  Other calls    *)
(* are made by any thread at once.  (A retry's callback is push_batch      *)
(* itself, on the scheduler's thread: module Layer has it.)                *)
(***************************************************************************)
EXTENDS Dispatch

CONSTANTS
  Delayed,   \* the calls that are made by the scheduler thread
  MaxDelay,  \* bound: delays are 0..MaxDelay
  MaxTime,   \* bound: the clock stops there
  Setups     \* the calls that are made and whether the process exits: Init takes one

ASSUME DelayedAssumption == Delayed \subseteq Tasks
ASSUME SetupsAssumption == Setups \subseteq [calls : SUBSET Tasks, exits : BOOLEAN]
ASSUME TimeAssumption == MaxDelay \in Nat /\ MaxTime \in Nat

VARIABLES
  setup,  \* the one taken
  now, runAt, heap, ran, thread, calling, deadline, notified, shutdown

Delay == INSTANCE DelayQueue WITH Calls <- Delayed

delayVars == <<setup, now, runAt, heap, ran, thread, calling, deadline, notified, shutdown>>
allVars == <<vars, delayVars>>

SchedulingInit == setup \in Setups /\ Init /\ Delay!Init

\* A step of the one module leaves the state of the other alone.
OfDispatch == UNCHANGED delayVars
OfDelay == UNCHANGED <<setup, vars>>

-----------------------------------------------------------------------------

\* A call by any other thread.
DirectCall(t) ==
  t \in setup.calls \ Delayed /\ (Construct(t) \/ Refuse(t)) /\ OfDispatch
DirectCaller(t) == t \notin Delayed /\ Caller(t) /\ OfDispatch

\* The callback of a due call is call() itself, on the scheduler's thread ...
Callback(c) == calling = {c} /\ (Construct(c) \/ Refuse(c) \/ Caller(c)) /\ OfDispatch

\* ... which goes on when it has returned, or raised.
Made(c) == c \in refused \/ (Called(c) /\ c \notin notifying)
CallbackEnds == (\A c \in calling : Made(c)) /\ Delay!Calling /\ OfDelay

SchedulerStep ==
  \/ (Delay!Tests \/ Delay!SleepsOn \/ Delay!Wakes) /\ OfDelay
  \/ CallbackEnds
  \/ \E c \in Delayed : (Delay!FindsDue(c) \/ Delay!SleepsUntilCall(c)) /\ OfDelay
  \/ \E c \in Delayed : Callback(c)

Schedules(c) ==
  c \in setup.calls /\ (\E d \in 0..MaxDelay : Delay!ScheduleFor(c, d)) /\ OfDelay

Pushes(c) == Delay!SchedulePush(c) /\ OfDelay

Passes == Delay!Tick /\ OfDelay

Exits ==
  /\ setup.exits
  /\ \/ Delay!ShutDown /\ OfDelay
     \/ \E part \in {"balancer", "executor"} : ShutDown(part) /\ OfDispatch

SchedulingNext ==
  \/ Passes \/ SchedulerStep \/ Exits
  \/ BalancerStep /\ OfDispatch
  \/ \E c \in Delayed : Schedules(c) \/ Pushes(c)
  \/ \E t \in Tasks : DirectCall(t) \/ DirectCaller(t)
  \/ \E w \in Workers : WorkerStep(w) /\ OfDispatch

\* As for the two modules: time passes, threads run on, wait() and get() return
\* after their timeout at the latest, and tasks come to an end.
SchedulingFairness ==
  /\ WF_allVars(Passes) /\ WF_allVars(SchedulerStep)
  /\ WF_allVars(BalancerStep /\ OfDispatch)
  /\ \A c \in Delayed : WF_allVars(Pushes(c))
  /\ \A t \in Tasks : WF_allVars(DirectCaller(t))
  /\ \A w \in Workers : WF_allVars(WorkerStep(w) /\ OfDispatch)

SchedulingSpec == SchedulingInit /\ [][SchedulingNext]_allVars /\ SchedulingFairness

-----------------------------------------------------------------------------
(* Correctness *)

\* The scheduler thread never sleeps past the earliest call: one scheduled
\* meanwhile for an earlier time wakes it (scheduler.py:32-34, 60-62).
NoOversleep == Delay!NoOversleep

\* A call whose delay ends is posted, drained, dispatched and run, and the future
\* of every call that was posted happens, unless the process exits: none gets
\* lost between the three kinds of threads (scheduler.py:41-80,
\* load_balancer.py:206-284, executor.py:85-114).
DueIsRealized ==
  \A t \in Tasks :
    t \in posted \/ (t \in heap /\ runAt[t] <= MaxTime)
      ~> t \in realized \cup refused \/ closing # {} \/ shutdown

\* After shutdown() the balancer's thread and every worker come to an end
\* (load_balancer.py:241-243, executor.py:118-119).  The scheduler thread need
\* not: told between its test of _shutdown and its wait() it sleeps on, as a
\* daemon (scheduler.py:41-47).
ShutDownStops ==
  closing = {"balancer", "executor"}
    ~> balancer = "stopped" /\ \A w \in Workers : pc[w] = "stopped"

=============================================================================
