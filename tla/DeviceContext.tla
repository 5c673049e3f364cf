----------------------------- MODULE DeviceContext -----------------------------
(***************************************************************************)
(* What "cuda" means in a process without CUDA: the cached answer of       *)
(* _resolve_cuda_substitute (src/nam/inference/device.py), the cached      *)
(* context behind it in DirectMLBackend                                    *)
(* (src/nam/inference/backend/directml_backend.py), and                    *)
(* invalidate_directml_device, which clears both after a device removal.   *)
(* No lock protects them: a step reads or writes one of them.              *)
(*                                                                         *)
(* A context is named by the number of removals before it was made.        *)
(***************************************************************************)
EXTENDS Naturals, FiniteSets, FiniteSetsExt

CONSTANTS
  Threads,   \* the threads that move tensors and modules
  Removals,  \* bound: how often the driver removes the device
  Failures,  \* bound: how often torch_directml has no device to give
  Cpu,       \* torch.device("cpu")
  None

VARIABLES
  substitute,  \* _RESOLVED_CUDA_SUBSTITUTE
  resolved,    \* _resolved_device of the backend
  removed,     \* the removals so far
  failed,      \* the failures so far
  pc,          \* where each thread is
  clearing,    \* what the invalidation it is in is at: "backend", "substitute" or "no"
  read,        \* what each thread holds in a local variable
  begun,       \* how many removals there were when the thread's invalidation began
  cleared,     \* the greatest begun of the invalidations that have ended
  expected     \* what cleared was when the thread's lookup began

vars == <<substitute, resolved, removed, failed, pc, clearing, read, begun, cleared,
          expected>>
caches == <<substitute, resolved>>
driver == <<removed, failed>>
history == <<begun, cleared, expected>>

Contexts == 0..Removals
Answers == Contexts \cup {Cpu, None}

TypeOK ==
  /\ substitute \in Answers
  /\ resolved \in Contexts \cup {None}
  /\ removed \in Contexts /\ failed \in 0..Failures
  /\ pc \in [Threads -> {"idle", "clearing", "testing", "probing", "resolving", "making",
                         "made", "resolved", "storing", "answering"}]
  /\ clearing \in [Threads -> {"no", "backend", "substitute"}]
  /\ read \in [Threads -> Answers]
  /\ begun \in [Threads -> Contexts] /\ expected \in [Threads -> Contexts]
  /\ cleared \in Contexts

Init ==
  /\ substitute = None /\ resolved = None
  /\ removed = 0 /\ failed = 0
  /\ pc = [t \in Threads |-> "idle"]
  /\ clearing = [t \in Threads |-> "no"]
  /\ read = [t \in Threads |-> None]
  /\ begun = [t \in Threads |-> 0] /\ expected = [t \in Threads |-> 0]
  /\ cleared = 0

Goto(t, stage) == pc' = [pc EXCEPT ![t] = stage]
Reads(t, value) == read' = [read EXCEPT ![t] = value]

\* The driver loses the device and resets it.
Removal ==
  /\ removed < Removals
  /\ removed' = removed + 1
  /\ UNCHANGED <<caches, failed, pc, clearing, read, history>>

-----------------------------------------------------------------------------
(* invalidate_directml_device, which ends with _resolve_cuda_substitute *)

Invalidate(t) ==
  /\ pc[t] = "idle"
  /\ substitute' = None
  /\ clearing' = [clearing EXCEPT ![t] = "backend"]
  /\ begun' = [begun EXCEPT ![t] = removed]
  /\ Goto(t, "clearing")
  /\ UNCHANGED <<resolved, driver, read, cleared, expected>>

\* Slip: the backend keeps its context.
KeepsContext(t) ==
  /\ pc[t] = "clearing"
  /\ Goto(t, "resolving")
  /\ UNCHANGED <<caches, driver, clearing, read, history>>

\* DirectMLBackend.invalidate clears its context and asks for another.
ClearsContext(t) ==
  /\ pc[t] = "clearing"
  /\ resolved' = None
  /\ Goto(t, "resolving")
  /\ UNCHANGED <<substitute, driver, clearing, read, history>>

-----------------------------------------------------------------------------
(* _resolve_cuda_substitute *)

Lookup(t) ==
  /\ pc[t] = "idle"
  /\ expected' = [expected EXCEPT ![t] = cleared]
  /\ Goto(t, "testing")
  /\ UNCHANGED <<caches, driver, clearing, read, begun, cleared>>

Tests(t) ==
  /\ pc[t] = "testing"
  /\ Goto(t, IF substitute = None THEN "probing" ELSE "answering")
  /\ UNCHANGED <<caches, driver, clearing, read, history>>

\* is_available() makes a context and drops it.
FindsDevice(t) ==
  /\ pc[t] = "probing"
  /\ Goto(t, "resolving")
  /\ UNCHANGED <<caches, driver, clearing, read, history>>

FindsNoDevice(t) ==
  /\ pc[t] = "probing" /\ failed < Failures
  /\ failed' = failed + 1
  /\ Reads(t, Cpu)
  /\ Goto(t, "storing")
  /\ UNCHANGED <<caches, removed, clearing, history>>

Stores(t) ==
  /\ pc[t] = "storing"
  /\ substitute' = read[t]
  /\ Goto(t, "answering")
  /\ UNCHANGED <<resolved, driver, clearing, read, history>>

\* The call is over, and what was local to it.
Ends(t) ==
  /\ clearing' = [clearing EXCEPT ![t] = "no"]
  /\ Goto(t, "idle")
  /\ Reads(t, None)
  /\ begun' = [begun EXCEPT ![t] = 0]
  /\ expected' = [expected EXCEPT ![t] = 0]

\* What is returned is what is cached by now; an invalidation has no use for it.
Answer(t) ==
  /\ pc[t] = "answering"
  /\ IF clearing[t] = "no"
     THEN UNCHANGED cleared
     ELSE cleared' = Max({cleared, begun[t]})
  /\ Ends(t)
  /\ UNCHANGED <<caches, driver>>

-----------------------------------------------------------------------------
(* DirectMLBackend.resolve_device *)

TestsContext(t) ==
  /\ pc[t] = "resolving"
  /\ Goto(t, IF resolved = None THEN "making" ELSE "resolved")
  /\ UNCHANGED <<caches, driver, clearing, read, history>>

MakesContext(t) ==
  /\ pc[t] = "making"
  /\ Reads(t, removed)
  /\ Goto(t, "made")
  /\ UNCHANGED <<caches, driver, clearing, history>>

\* The RuntimeError leaves the caches as they are and ends the call.
MakesNone(t) ==
  /\ pc[t] = "making" /\ failed < Failures
  /\ failed' = failed + 1
  /\ Ends(t)
  /\ UNCHANGED <<caches, removed, cleared>>

KeepsMade(t) ==
  /\ pc[t] = "made"
  /\ resolved' = read[t]
  /\ Goto(t, "resolved")
  /\ UNCHANGED <<substitute, driver, clearing, read, history>>

\* It returns what is cached by now: to invalidate(), which goes on with the
\* substitute, or to the lookup, which stores it.
ReturnsContext(t) ==
  /\ pc[t] = "resolved"
  /\ Reads(t, resolved)
  /\ IF clearing[t] = "backend"
     THEN Goto(t, "testing") /\ clearing' = [clearing EXCEPT ![t] = "substitute"]
     ELSE Goto(t, "storing") /\ UNCHANGED clearing
  /\ UNCHANGED <<caches, driver, history>>

-----------------------------------------------------------------------------

Resolves(t) ==
  \/ Tests(t) \/ FindsDevice(t) \/ Stores(t) \/ ClearsContext(t)
  \/ TestsContext(t) \/ MakesContext(t) \/ KeepsMade(t) \/ ReturnsContext(t)

-----------------------------------------------------------------------------
(* Correctness *)

Returning(t) == pc[t] = "answering" /\ clearing[t] = "no"

\* A lookup that begins when an invalidation has ended does not return a context that
\* was lost before that invalidation: what invalidate_directml_device's docstring says
\* of the next call (device.py:117-126).
LookupIsFresh ==
  \A t \in Threads :
    Returning(t) /\ substitute \in Contexts => substitute >= expected[t]

=============================================================================
