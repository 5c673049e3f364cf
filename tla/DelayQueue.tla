----------------------------- MODULE DelayQueue -----------------------------
(***************************************************************************)
(* The _DedicatedScheduler of src/nam/concurrency/scheduler.py: the one    *)
(* thread that makes every delayed call of the layers and orchestrators.   *)
(* It sleeps on a condition until the earliest call is due or a new one is *)
(* scheduled.  The loop tests _shutdown before it takes the condition's    *)
(* lock; within the lock only wait() lets others in.                       *)
(***************************************************************************)
EXTENDS Naturals, FiniteSets

CONSTANTS
  Calls,        \* bound: the calls that will be scheduled
  MaxDelay,     \* bound: delays are 0..MaxDelay
  MaxTime,      \* bound: the clock stops there
  MayShutDown   \* whether shutdown() is called

Forever == MaxTime + MaxDelay + 1

VARIABLES
  now,        \* time.monotonic()
  runAt,      \* each call's run_at, Forever before it is known
  heap,       \* _tasks
  ran,        \* the calls that were made
  thread,     \* where _run is
  calling,    \* task_to_run, as a set of at most one call
  deadline,   \* when its wait() times out
  notified,   \* whether its wait() was notified
  shutdown    \* _shutdown

vars == <<now, runAt, heap, ran, thread, calling, deadline, notified, shutdown>>
threadVars == <<thread, calling, deadline>>

TypeOK ==
  /\ now \in 0..MaxTime
  /\ runAt \in [Calls -> 0..Forever]
  /\ heap \subseteq Calls
  /\ ran \subseteq Calls
  /\ thread \in {"testing", "looking", "waiting", "calling", "stopped"}
  /\ calling \subseteq Calls
  /\ deadline \in 0..Forever
  /\ notified \in BOOLEAN
  /\ shutdown \in BOOLEAN

Init ==
  /\ now = 0
  /\ runAt = [c \in Calls |-> Forever]
  /\ heap = {} /\ ran = {}
  /\ thread = "testing" /\ calling = {} /\ deadline = Forever
  /\ notified = FALSE /\ shutdown = FALSE

Tick ==
  /\ now < MaxTime
  /\ now' = now + 1
  /\ UNCHANGED <<runAt, heap, ran, threadVars, notified, shutdown>>

-----------------------------------------------------------------------------

\* schedule() reads the clock first ...
ScheduleFor(c, delay) ==
  /\ runAt[c] = Forever
  /\ runAt' = [runAt EXCEPT ![c] = now + delay]
  /\ UNCHANGED <<now, heap, ran, threadVars, notified, shutdown>>

\* notify() reaches the thread only while it waits.
Notified == notified \/ thread = "waiting"

\* Slip: the thread is not notified.
SchedulePushSilent(c) ==
  /\ runAt[c] < Forever /\ c \notin heap \cup calling \cup ran
  /\ heap' = heap \cup {c}
  /\ UNCHANGED <<now, runAt, ran, threadVars, notified, shutdown>>

\* ... and then, under the lock, pushes the call and notifies.
SchedulePush(c) ==
  /\ runAt[c] < Forever /\ c \notin heap \cup calling \cup ran
  /\ heap' = heap \cup {c}
  /\ notified' = Notified
  /\ UNCHANGED <<now, runAt, ran, threadVars, shutdown>>

ShutDown ==
  /\ MayShutDown /\ ~shutdown
  /\ shutdown' = TRUE
  /\ notified' = Notified
  /\ UNCHANGED <<now, runAt, heap, ran, threadVars>>

-----------------------------------------------------------------------------
(* _run *)

Tests ==
  /\ thread = "testing"
  /\ thread' = IF shutdown THEN "stopped" ELSE "looking"
  /\ UNCHANGED <<now, runAt, heap, ran, calling, deadline, notified, shutdown>>

\* A call that is first on the heap; calls due at the same time come in any
\* order.
First(c) == c \in heap /\ \A d \in heap : runAt[c] <= runAt[d]

FindsDue(c) ==
  /\ thread = "looking" /\ First(c) /\ runAt[c] <= now
  /\ heap' = heap \ {c}
  /\ calling' = {c}
  /\ thread' = "calling"
  /\ UNCHANGED <<now, runAt, ran, deadline, notified, shutdown>>

\* wait(), with no timeout when nothing is scheduled.
Sleeps(until) ==
  /\ thread = "looking"
  /\ deadline' = until
  /\ notified' = FALSE
  /\ thread' = "waiting"
  /\ UNCHANGED <<now, runAt, heap, ran, calling, shutdown>>

SleepsUntilCall(c) == First(c) /\ runAt[c] > now /\ Sleeps(runAt[c])

SleepsOn == heap = {} /\ Sleeps(Forever)

Wakes ==
  /\ thread = "waiting" /\ (notified \/ now >= deadline)
  /\ thread' = IF shutdown THEN "stopped" ELSE "testing"
  /\ deadline' = Forever
  /\ notified' = FALSE
  /\ UNCHANGED <<now, runAt, heap, ran, calling, shutdown>>

\* Slip: a raising callback takes the thread with it.
CallingFatally ==
  /\ thread = "calling"
  /\ ran' = ran \cup calling
  /\ calling' = {}
  /\ thread' \in {"testing", "stopped"}
  /\ UNCHANGED <<now, runAt, heap, deadline, notified, shutdown>>

\* The callback returns, or raises and is reported.
Calling ==
  /\ thread = "calling"
  /\ ran' = ran \cup calling
  /\ calling' = {}
  /\ thread' = "testing"
  /\ UNCHANGED <<now, runAt, heap, deadline, notified, shutdown>>

-----------------------------------------------------------------------------

ThreadStep ==
  Tests \/ SleepsOn \/ Wakes \/ Calling
  \/ \E c \in Calls : FindsDue(c) \/ SleepsUntilCall(c)

Next ==
  \/ Tick \/ ShutDown \/ ThreadStep
  \/ \E c \in Calls : SchedulePush(c) \/ \E d \in 0..MaxDelay : ScheduleFor(c, d)

\* Time passes and threads run on.
Fairness ==
  /\ WF_vars(Tick) /\ WF_vars(ThreadStep)
  /\ \A c \in Calls : WF_vars(SchedulePush(c))

Spec == Init /\ [][Next]_vars /\ Fairness

-----------------------------------------------------------------------------
(* Correctness *)

\* The thread never sleeps past the earliest call: one scheduled meanwhile for an
\* earlier time wakes it (scheduler.py:32-34, 60-62).
NoOversleep ==
  thread = "waiting" => notified \/ \A c \in heap : deadline <= runAt[c]

=============================================================================
