------------------------------- MODULE Devices -------------------------------
(***************************************************************************)
(* The hook and the context it asks (src/nam/inference/hook.py, device.py, *)
(* backend/): threads call, place and move one module and copy tensors;    *)
(* where the device is not given they look up what it means, while the     *)
(* driver removes the device and other threads invalidate what is cached.  *)
(***************************************************************************)
EXTENDS Naturals, FiniteSets

CONSTANTS Threads, Removals, Failures, Cpu, Cuda, First, None,
  Cases  \* what the process is like: Init takes one

ASSUME BoundsAssumption == Removals \in Nat /\ Failures \in Nat
ASSUME NamesAssumption ==
  /\ {Cpu, Cuda, None} \cap Nat = {} /\ Cardinality({Cpu, Cuda, None}) = 3
  /\ First \notin Threads /\ None \notin Threads \cup {First}
ASSUME CasesAssumption ==
  \A c \in Cases :
    /\ c.made \in BOOLEAN   \* the lock was asked for before these threads start
    /\ c.cuda \in BOOLEAN   \* torch.cuda.is_available()
    /\ c.apart \in BOOLEAN  \* invalidations and other calls do not overlap
    /\ c.faults \in BOOLEAN \* the device may be removed, and may not be found
    /\ c.calls \subseteq {"call", "eval", "move", "copy"}  \* what the threads call

VARIABLES case, early, lock, holder, requested, device, where, pc, wants, tries, target,
          using, crashed
VARIABLES substitute, resolved, removed, failed, lookup, clearing, read, begun, cleared,
          expected

hookVars == <<early, lock, holder, requested, device, where, pc, wants, tries, target,
              using, crashed>>
contextVars == <<substitute, resolved, removed, failed, lookup, clearing, read, begun,
                 cleared, expected>>
vars == <<case, hookVars, contextVars>>

Hook == INSTANCE DeviceHook WITH Contexts <- 0..Removals
Context == INSTANCE DeviceContext WITH pc <- lookup

Init ==
  /\ case \in Cases
  /\ Hook!Init /\ early = case.made
  /\ Context!Init

TypeOK == case \in Cases /\ Hook!TypeOK /\ Context!TypeOK

Invalidating == \E t \in Threads : clearing[t] # "no"

-----------------------------------------------------------------------------
(* Calls begin, and driver and threads go on *)

Begins(t) ==
  /\ case.apart => ~Invalidating
  /\ lookup[t] = "idle"
  /\ \/ "call" \in case.calls /\ Hook!Call(t)
     \/ "eval" \in case.calls /\ Hook!Eval(t)
     \/ "move" \in case.calls /\ Hook!To(t)
     \/ "copy" \in case.calls /\ Hook!Tensor(t)
  /\ UNCHANGED <<case, contextVars>>

Removal == case.faults /\ Context!Removal /\ UNCHANGED <<case, hookVars>>

Invalidates(t) ==
  /\ case.apart => Hook!Quiet /\ ~Invalidating
  /\ pc[t].stage = "idle"
  /\ Context!Invalidate(t)
  /\ UNCHANGED <<case, hookVars>>

Continues(t) ==
  \/ Hook!Continue(t) /\ UNCHANGED <<case, contextVars>>
  \/ Context!Resolves(t) /\ UNCHANGED <<case, hookVars>>
  \/ case.faults /\ Context!FindsNoDevice(t) /\ UNCHANGED <<case, hookVars>>

-----------------------------------------------------------------------------
(* Device.auto, Device.requested and redirected_to *)

Choosing(t) == pc[t].stage = "choosing" /\ lookup[t] = "idle"

Placing(t) == wants[t] \in {"call", "eval"}

\* The device is found.
Chooses(t, d) ==
  \/ Placing(t) /\ Hook!Places(t, d)
  \/ wants[t] = "move" /\ Hook!Requests(t, d)
  \/ wants[t] = "copy" /\ Hook!Copies(t, d)

\* Without a lookup: the one requested before, the cpu for to("cpu"), CUDA.
ChoosesAtOnce(t) ==
  /\ Choosing(t)
  /\ \/ Placing(t) /\ requested # None /\ Chooses(t, requested)
     \/ wants[t] = "move" /\ Chooses(t, Cpu)
     \/ (Placing(t) => requested = None) /\ case.cuda /\ Chooses(t, Cuda)
  /\ UNCHANGED <<case, contextVars>>

\* "cuda" where there is none; to("xpu") asks in any case.
LooksUp(t) ==
  /\ Choosing(t)
  /\ \/ wants[t] = "move"
     \/ ~case.cuda /\ (Placing(t) => requested = None)
  /\ Context!Lookup(t)
  /\ UNCHANGED <<case, hookVars>>

\* What the lookup returns is taken; torch has no use for a None.
Answers(t) ==
  /\ Context!Answer(t)
  /\ IF pc[t].stage # "choosing" THEN UNCHANGED hookVars
     ELSE IF substitute = None THEN Hook!FindsNone(t, TRUE)
     ELSE Chooses(t, substitute)
  /\ UNCHANGED case

\* There is a backend, and yet no device: the RuntimeError ends the call.
Raises(t) ==
  /\ case.faults /\ Context!MakesNone(t)
  /\ IF pc[t].stage = "choosing" THEN Hook!FindsNone(t, FALSE) ELSE UNCHANGED hookVars
  /\ UNCHANGED case

-----------------------------------------------------------------------------

Goes(t) == Continues(t) \/ ChoosesAtOnce(t) \/ LooksUp(t) \/ Answers(t) \/ Raises(t)

Next == Removal \/ \E t \in Threads : Begins(t) \/ Invalidates(t) \/ Goes(t)

\* The lock is given to each that waits for it; device and driver answer.
Fairness == \A t \in Threads : SF_vars(Goes(t))

Spec == Init /\ [][Next]_vars /\ Fairness

-----------------------------------------------------------------------------
(* Correctness *)

\* What directml_backend.py:71-73 says: only one thread ever talks to the device, the
\* copies that are tried again included, if the lock was made before.
OneThreadAtDevice == Hook!OneThreadAtDevice

\* A call runs on the device of the model's parameters, which is the one that the last
\* to() before it asked for, while other threads call, place and move it too, if they
\* cannot find different devices (hook.py:42-82).
RunsWhereRequested ==
  /\ Hook!RequestIsHonored
  /\ failed = 0 /\ removed = 0 => Hook!RunsWhereParametersAre

\* The first lookup after an invalidation finds no context that was lost before it, if
\* no call overlapped the invalidation (device.py:117-141).
InvalidationIsEffective == case.apart => Context!LookupIsFresh

\* Every call finds a device or raises for want of a backend, and comes back, while
\* others hold the lock asleep (directml_backend.py:162-176).
CallEnds ==
  \A t \in Threads :
    case.apart => (pc[t].stage # "idle" ~> pc[t].stage = "idle" /\ ~crashed)

-----------------------------------------------------------------------------
(* What the docs say, and the code does not do *)

\* "Only one thread ever talks to the device": two that ask first make a lock each.
OneThreadAlways == Hook!OneThreadAlways

\* "The next call will request a fresh device context": not if calls overlap.
NextCallIsFresh == Context!LookupIsFresh

\* "A module that only ever says cuda" gets a device (device.py:129-137): an invalidation
\* in the middle of its lookup makes it None.
LookupsFindDevice == ~crashed

\* What is "required to recover from a device removal": a module that has its device
\* stays on the lost one.
CallRecovers ==
  \A t \in Threads :
    pc[t] = [stage |-> "at_device", purpose |-> "run"] /\ target[t] \in 0..Removals
      => target[t] >= cleared

\* A tensor ends up "consistent with wherever that module's parameters live": not after
\* an invalidation, which the module does not hear of.
TensorsFollowModule ==
  \A t \in Threads :
    pc[t] = [stage |-> "at_device", purpose |-> "copy"] /\ device # None /\ requested = None
      => target[t] = device

=============================================================================
