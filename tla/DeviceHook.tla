----------------------------- MODULE DeviceHook -----------------------------
(***************************************************************************)
(* How one torch module and tensors get to a device                        *)
(* (src/nam/inference/hook.py): the patched call and eval() place the      *)
(* module on its device when it has none yet, a call then runs it there,   *)
(* the patched to() moves it and makes the next call place it again.  What *)
(* goes to a DirectML device goes through the one lock that                *)
(* src/nam/inference/backend/directml_backend.py makes when it is first    *)
(* asked for; what goes to the cpu or to CUDA is not locked.               *)
(*                                                                         *)
(* Which device an unspecific request means is found by DeviceContext, and *)
(* module Devices puts the two together.                                   *)
(***************************************************************************)
EXTENDS Naturals, FiniteSets

CONSTANTS
  Threads,
  Contexts,   \* the DirectML devices
  Cpu, Cuda,
  First,      \* the name of that lock
  None

Devices == Contexts \cup {Cpu, Cuda}

VARIABLES
  early,      \* whether the lock was asked for before these threads start
  lock,       \* _device_lock; a lock is named by the thread that made it
  holder,     \* the thread that holds each lock
  requested,  \* state.requested_device
  device,     \* state.device_model
  where,      \* the device the parameters are on
  pc,         \* where each thread is
  wants,      \* what it was called for
  tries,      \* how often the copy of its tensor has failed
  target,     \* the device it moves the module to or runs it on
  using,      \* the lock its lock() call returned
  crashed     \* whether a call failed for want of a device

vars == <<early, lock, holder, requested, device, where, pc, wants, tries, target, using,
          crashed>>
lockVars == <<early, lock, holder, using>>
state == <<requested, device, where>>
call == <<wants, tries>>

Locks == Threads \cup {First}

\* Before it is at a device a thread asks for the lock, then makes it or gets it.
Asking == {"asking", "making", "getting", "acquiring"}

\* A "place" moves the module for a call, a "move" for to(), a "run" runs it, and
\* a "copy" is a tensor's.
Purposes == {"place", "move", "run", "copy"}

\* The copy as it was asked for, the one by way of the cpu, and two more of these.
MaxTries == 4

TypeOK ==
  /\ early \in BOOLEAN
  /\ lock \in Locks \cup {None}
  /\ holder \in [Locks -> Threads \cup {None}]
  /\ requested \in Devices \cup {None}
  /\ device \in Devices \cup {None}
  /\ where \in Devices
  /\ pc \in [Threads -> [stage : {"idle", "checking", "choosing", "entering", "settling",
                                  "resetting", "at_device"} \cup Asking,
                         purpose : Purposes]]
  /\ wants \in [Threads -> {"call", "eval", "move", "copy"}]
  /\ tries \in [Threads -> 0..(MaxTries - 1)]
  /\ target \in [Threads -> Devices \cup {None}]
  /\ using \in [Threads -> Locks \cup {None}]
  /\ crashed \in BOOLEAN

Init ==
  /\ early \in BOOLEAN
  /\ lock = IF early THEN First ELSE None
  /\ holder = [l \in Locks |-> None]
  /\ requested = None /\ device = None /\ where = Cpu
  /\ pc = [t \in Threads |-> [stage |-> "idle", purpose |-> "run"]]
  /\ wants = [t \in Threads |-> "call"] /\ tries = [t \in Threads |-> 0]
  /\ target = [t \in Threads |-> None]
  /\ using = [t \in Threads |-> None]
  /\ crashed = FALSE

Stage(t, stage) == pc' = [pc EXCEPT ![t].stage = stage]

\* The call is over, and what was local to it.
Ends(t) ==
  /\ pc' = [pc EXCEPT ![t] = [stage |-> "idle", purpose |-> "run"]]
  /\ wants' = [wants EXCEPT ![t] = "call"]
  /\ tries' = [tries EXCEPT ![t] = 0]
  /\ target' = [target EXCEPT ![t] = None]

\* Slip: only running it is locked, not moving it.
GoesToUnlocked(t, purpose, d) ==
  /\ target' = [target EXCEPT ![t] = d]
  /\ pc' = [pc EXCEPT ![t] = [stage |-> IF d \in Contexts /\ purpose = "run"
                                        THEN "asking" ELSE "at_device",
                              purpose |-> purpose]]

\* t goes to device d, by way of the lock if it is a DirectML device.
GoesTo(t, purpose, d) ==
  /\ target' = [target EXCEPT ![t] = d]
  /\ pc' = [pc EXCEPT ![t] = [stage |-> IF d \in Contexts THEN "asking" ELSE "at_device",
                              purpose |-> purpose]]

-----------------------------------------------------------------------------
(* DirectMLBackend.lock() and "with" *)

\* It looks whether there is a lock ...
AsksForLock(t) ==
  /\ pc[t].stage = "asking"
  /\ Stage(t, IF lock = None THEN "making" ELSE "getting")
  /\ UNCHANGED <<lockVars, state, call, target, crashed>>

\* ... makes one if it saw none ...
MakesLock(t) ==
  /\ pc[t].stage = "making"
  /\ lock' = t
  /\ Stage(t, "getting")
  /\ UNCHANGED <<early, holder, using, state, call, target, crashed>>

\* ... and returns what is there now.
GetsLock(t) ==
  /\ pc[t].stage = "getting"
  /\ using' = [using EXCEPT ![t] = lock]
  /\ Stage(t, "acquiring")
  /\ UNCHANGED <<early, lock, holder, state, call, target, crashed>>

Acquires(t) ==
  /\ pc[t].stage = "acquiring" /\ holder[using[t]] = None
  /\ holder' = [holder EXCEPT ![using[t]] = t]
  /\ Stage(t, "at_device")
  /\ UNCHANGED <<early, lock, using, state, call, target, crashed>>

Releases(t) ==
  /\ holder' = [l \in Locks |-> IF holder[l] = t THEN None ELSE holder[l]]
  /\ using' = [using EXCEPT ![t] = None]
  /\ UNCHANGED <<early, lock>>

-----------------------------------------------------------------------------
(* _patched_call and _patched_eval *)

\* The scope of the model: a module is moved before it serves calls, or between
\* them, never during one.
Moving(t) == pc[t].stage # "idle" /\ wants[t] = "move"

Begins(t, what, stage) ==
  /\ pc[t].stage = "idle"
  /\ \A u \in Threads : ~Moving(u)
  /\ pc' = [pc EXCEPT ![t].stage = stage]
  /\ wants' = [wants EXCEPT ![t] = what]
  /\ UNCHANGED <<lockVars, state, tries, target, crashed>>

Call(t) == Begins(t, "call", "checking")
Eval(t) == Begins(t, "eval", "checking")

\* _build_device_model: the module is placed if it has no device ...
Checks(t) ==
  /\ pc[t].stage = "checking"
  /\ Stage(t, IF device = None THEN "choosing" ELSE "entering")
  /\ UNCHANGED <<lockVars, state, call, target, crashed>>

\* ... where it was requested, or where Device.auto() says.
Places(t, auto) ==
  /\ pc[t].stage = "choosing"
  /\ GoesTo(t, "place", IF requested # None THEN requested ELSE auto)
  /\ UNCHANGED <<lockVars, state, call, crashed>>

Placed(t) ==
  /\ pc[t] = [stage |-> "at_device", purpose |-> "place"]
  /\ where' = target[t]
  /\ Releases(t)
  /\ Stage(t, "settling")
  /\ UNCHANGED <<requested, device, call, target, crashed>>

\* Slip: the module is placed and no device recorded.
SettlesNothing(t) ==
  /\ pc[t].stage = "settling"
  /\ Stage(t, "entering")
  /\ UNCHANGED <<lockVars, state, call, target, crashed>>

Settles(t) ==
  /\ pc[t].stage = "settling"
  /\ device' = target[t]
  /\ Stage(t, "entering")
  /\ UNCHANGED <<lockVars, requested, where, call, target, crashed>>

\* _run_on_device reads the device again; without one the call fails.
Enters(t) ==
  /\ pc[t].stage = "entering" /\ wants[t] = "call"
  /\ IF device = None
     THEN Ends(t) /\ crashed' = TRUE
     ELSE GoesTo(t, "run", device) /\ UNCHANGED <<call, crashed>>
  /\ UNCHANGED <<lockVars, state>>

EvalEnds(t) ==
  /\ pc[t].stage = "entering" /\ wants[t] = "eval"
  /\ Ends(t)
  /\ UNCHANGED <<lockVars, state, crashed>>

\* It returns or raises.
Ran(t) ==
  /\ pc[t] = [stage |-> "at_device", purpose |-> "run"]
  /\ Releases(t)
  /\ Ends(t)
  /\ UNCHANGED <<state, crashed>>

-----------------------------------------------------------------------------
(* _patched_to *)

Quiet == \A t \in Threads : pc[t].stage = "idle"

\* It resolves its argument first, and ...
To(t) ==
  /\ Quiet
  /\ Stage(t, "choosing")
  /\ wants' = [wants EXCEPT ![t] = "move"]
  /\ UNCHANGED <<lockVars, state, tries, target, crashed>>

\* ... records the device, ...
Requests(t, d) ==
  /\ pc[t].stage = "choosing"
  /\ requested' = d
  /\ target' = [target EXCEPT ![t] = d]
  /\ Stage(t, "resetting")
  /\ UNCHANGED <<lockVars, device, where, call, crashed>>

\* Slip: the device of earlier calls is kept.
ResetsNothing(t) ==
  /\ pc[t].stage = "resetting"
  /\ GoesTo(t, "move", target[t])
  /\ UNCHANGED <<lockVars, requested, device, where, call, crashed>>

Resets(t) ==
  /\ pc[t].stage = "resetting"
  /\ device' = None
  /\ GoesTo(t, "move", target[t])
  /\ UNCHANGED <<lockVars, requested, where, call, crashed>>

Moved(t) ==
  /\ pc[t] = [stage |-> "at_device", purpose |-> "move"]
  /\ where' = target[t]
  /\ Releases(t)
  /\ Ends(t)
  /\ UNCHANGED <<requested, device, crashed>>

-----------------------------------------------------------------------------
(* Tensor.to and DirectMLBackend.move_tensor *)

Tensor(t) == Begins(t, "copy", "choosing")

\* The substitute, if it was asked for "cuda".
Copies(t, d) ==
  /\ pc[t].stage = "choosing"
  /\ GoesTo(t, "copy", d)
  /\ UNCHANGED <<lockVars, state, call, crashed>>

Copied(t) ==
  /\ pc[t] = [stage |-> "at_device", purpose |-> "copy"]
  /\ Releases(t)
  /\ Ends(t)
  /\ UNCHANGED <<state, crashed>>

\* It is tried again, asleep in between with the lock in its hands, and gives up.
CopyFails(t) ==
  /\ pc[t] = [stage |-> "at_device", purpose |-> "copy"]
  /\ target[t] \in Contexts
  /\ IF tries[t] < MaxTries - 1
     THEN /\ tries' = [tries EXCEPT ![t] = @ + 1]
          /\ UNCHANGED <<lockVars, pc, wants, target>>
     ELSE Releases(t) /\ Ends(t)
  /\ UNCHANGED <<state, crashed>>

-----------------------------------------------------------------------------

\* What resolves the device raises, or returns None.
FindsNone(t, none) ==
  /\ pc[t].stage = "choosing"
  /\ Ends(t)
  /\ crashed' = (crashed \/ none)
  /\ UNCHANGED <<lockVars, state>>

\* What a thread does by itself.
Continue(t) ==
  \/ AsksForLock(t) \/ MakesLock(t) \/ GetsLock(t) \/ Acquires(t)
  \/ Checks(t) \/ Placed(t) \/ Settles(t) \/ Enters(t) \/ EvalEnds(t) \/ Ran(t)
  \/ Resets(t) \/ Moved(t) \/ Copied(t) \/ CopyFails(t)

-----------------------------------------------------------------------------
(* Correctness *)

AtGpu(t) == pc[t].stage = "at_device" /\ target[t] \in Contexts

\* What directml_backend.py:71-73 says: only one thread ever talks to the device,
\* where a single lock was there before the threads (the others: OneThreadAlways).
OneThreadAtDevice ==
  early => \A t, u \in Threads : AtGpu(t) /\ AtGpu(u) => t = u

\* The same of every start: two threads that ask first can make a lock each.
OneThreadAlways == \A t, u \in Threads : AtGpu(t) /\ AtGpu(u) => t = u

\* The model runs on the device its parameters are on, while other threads may
\* be placing it too (hook.py:42-67).
RunsWhereParametersAre ==
  \A t \in Threads :
    pc[t] = [stage |-> "at_device", purpose |-> "run"] => where = target[t]

\* The last to() counts: a call that begins after it runs on that device
\* (hook.py:70-82).
RequestIsHonored ==
  \A t \in Threads :
    pc[t] = [stage |-> "at_device", purpose |-> "run"] /\ requested # None
      => target[t] = requested

=============================================================================
