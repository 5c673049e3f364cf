----------------------------- MODULE DevicesProofs -----------------------------
(***************************************************************************)
(* Proofs about module Devices, for any number of threads, of removals and *)
(* of failures: who is at the device, where a model runs and what a lookup *)
(* finds after an invalidation.                                            *)
(***************************************************************************)
EXTENDS Devices, FiniteSetTheorems, TLAPS

\* A step of the hook and of what it asks, whoever makes it.
ChoosesDevice(t) == \E d \in Hook!Devices : Chooses(t, d)

Enters(t) == Hook!Call(t) \/ Hook!Eval(t) \/ Hook!To(t) \/ Hook!Tensor(t)

HookStep(t) ==
  \/ Enters(t) \/ Hook!Continue(t) \/ ChoosesDevice(t)
  \/ \E none \in BOOLEAN : Hook!FindsNone(t, none)

ContextStep(t) ==
  \/ Context!Invalidate(t) \/ Context!Lookup(t) \/ Context!Resolves(t)
  \/ Context!FindsNoDevice(t) \/ Context!Answer(t) \/ Context!MakesNone(t)

-----------------------------------------------------------------------------
(* Types *)

HookStages ==
  {"idle", "checking", "choosing", "entering", "settling", "resetting", "at_device",
   "asking", "making", "getting", "acquiring"}

LookupStages ==
  {"idle", "clearing", "testing", "probing", "resolving", "making", "made", "resolved",
   "storing", "answering"}

CallsType ==
  /\ pc \in [Threads -> [stage : HookStages, purpose : {"place", "move", "run", "copy"}]]
  /\ wants \in [Threads -> {"call", "eval", "move", "copy"}]
  /\ target \in [Threads -> Hook!Devices \cup {None}]

HookType ==
  /\ lock \in Hook!Locks \cup {None}
  /\ holder \in [Hook!Locks -> Threads \cup {None}]
  /\ using \in [Threads -> Hook!Locks \cup {None}]
  /\ requested \in Hook!Devices \cup {None}
  /\ device \in Hook!Devices \cup {None}
  /\ CallsType

ContextType ==
  /\ substitute \in Context!Answers
  /\ resolved \in Context!Answers
  /\ removed \in Context!Contexts /\ failed \in Nat
  /\ lookup \in [Threads -> LookupStages]
  /\ clearing \in [Threads -> {"no", "backend", "substitute"}]
  /\ read \in [Threads -> Context!Answers]
  /\ begun \in [Threads -> Context!Contexts]
  /\ expected \in [Threads -> Context!Contexts]
  /\ cleared \in Context!Contexts

Typed == HookType /\ ContextType

LEMMA AnswersAreDevices == Context!Answers \subseteq Hook!Devices \cup {None}
BY DEF Context!Answers, Context!Contexts, Hook!Devices

LEMMA MaxOfTwo ==
  ASSUME NEW a \in Nat, NEW b \in Nat
  PROVE  /\ Context!Max({a, b}) \in {a, b}
         /\ Context!Max({a, b}) >= a /\ Context!Max({a, b}) >= b
<1>1. \E m \in {a, b} : \A x \in {a, b} : m >= x
  <2>1. a >= b \/ b >= a
    OBVIOUS
  <2> QED  BY <2>1
<1> QED  BY <1>1 DEF Context!Max

LEMMA ContextTyped ==
  ASSUME ContextType,
         \/ \E t \in Threads : ContextStep(t)
         \/ Context!Removal
         \/ UNCHANGED contextVars
  PROVE  ContextType'
<1> USE BoundsAssumption DEF ContextType, LookupStages, Context!Contexts, Context!Answers
<1> USE DEF Context!caches, Context!driver, Context!history, Context!Goto, Context!Reads
<1>1. CASE Context!Removal
  BY <1>1 DEF Context!Removal
<1>2. CASE UNCHANGED contextVars
  BY <1>2 DEF contextVars
<1>3. ASSUME NEW t \in Threads, ContextStep(t) PROVE ContextType'
  <2>2. CASE Context!Answer(t)
    <3>1. Context!Max({cleared, begun[t]}) \in 0..Removals
      BY MaxOfTwo
    <3> QED  BY <2>2, <3>1 DEF Context!Answer, Context!Ends
  <2>3. CASE Context!MakesNone(t)
    BY <2>3 DEF Context!MakesNone, Context!Ends
  <2>4. CASE Context!Invalidate(t) \/ Context!Lookup(t) \/ Context!FindsNoDevice(t)
    BY <2>4 DEF Context!Invalidate, Context!Lookup, Context!FindsNoDevice
  <2>5. CASE Context!Tests(t) \/ Context!FindsDevice(t) \/ Context!Stores(t)
    BY <2>5 DEF Context!Tests, Context!FindsDevice, Context!Stores
  <2>6. CASE Context!ClearsContext(t) \/ Context!TestsContext(t)
    BY <2>6 DEF Context!ClearsContext, Context!TestsContext
  <2>7. CASE Context!MakesContext(t)
    BY <2>7 DEF Context!MakesContext
  <2>8. CASE Context!KeepsMade(t)
    BY <2>8 DEF Context!KeepsMade
  <2>9. CASE Context!ReturnsContext(t)
    BY <2>9 DEF Context!ReturnsContext
  <2> QED
    BY <1>3, <2>2, <2>3, <2>4, <2>5, <2>6, <2>7, <2>8, <2>9
       DEF ContextStep, Context!Resolves
<1> QED  BY <1>1, <1>2, <1>3

-----------------------------------------------------------------------------
(* What a thread's step does: it goes to a stage, ends, goes to a device or *)
(* gives back its lock.                                                     *)

OnlyMoves(t) == \A u \in Threads \ {t} : pc'[u] = pc[u] /\ target'[u] = target[u]

LEMMA StageStep ==
  ASSUME CallsType, NEW t \in Threads, NEW stage \in HookStages, Hook!Stage(t, stage)
  PROVE  /\ pc' \in [Threads -> [stage : HookStages,
                                purpose : {"place", "move", "run", "copy"}]]
         /\ pc'[t].stage = stage /\ pc'[t].purpose = pc[t].purpose
         /\ \A u \in Threads \ {t} : pc'[u] = pc[u]
BY DEF CallsType, Hook!Stage

LEMMA EndsStep ==
  ASSUME CallsType, NEW t \in Threads, Hook!Ends(t)
  PROVE  /\ CallsType' /\ pc'[t].stage = "idle" /\ wants'[t] = "call" /\ OnlyMoves(t)
         /\ \A u \in Threads \ {t} : wants'[u] = wants[u]
<1>1. "idle" \in HookStages
  BY DEF HookStages
<1> QED  BY <1>1 DEF CallsType, OnlyMoves, Hook!Ends, Hook!Devices

LEMMA GoesStep ==
  ASSUME CallsType, NEW t \in Threads, NEW d \in Hook!Devices \cup {None},
         NEW purpose \in {"place", "move", "run", "copy"}, Hook!GoesTo(t, purpose, d)
  PROVE  /\ pc' \in [Threads -> [stage : HookStages,
                                purpose : {"place", "move", "run", "copy"}]]
         /\ target' \in [Threads -> Hook!Devices \cup {None}]
         /\ pc'[t].stage = IF d \in 0..Removals THEN "asking" ELSE "at_device"
         /\ pc'[t].purpose = purpose
         /\ target'[t] = d
         /\ OnlyMoves(t)
<1>1. {"asking", "at_device"} \subseteq HookStages
  BY DEF HookStages
<1> QED  BY <1>1 DEF CallsType, OnlyMoves, Hook!GoesTo

LEMMA ReleasesStep ==
  ASSUME HookType, NEW t \in Threads, Hook!Releases(t)
  PROVE  /\ holder' \in [Hook!Locks -> Threads \cup {None}]
         /\ using' \in [Threads -> Hook!Locks \cup {None}]
         /\ lock' = lock /\ early' = early
         /\ \A l \in Hook!Locks : holder[l] # t => holder'[l] = holder[l]
         /\ \A u \in Threads \ {t} : using'[u] = using[u]
BY DEF HookType, Hook!Releases, Hook!Locks

-----------------------------------------------------------------------------
(* The device *)

\* With a lock made before, all threads get that one, and whoever is at the device
\* holds it.
LockInv ==
  early =>
    /\ lock = First
    /\ \A t \in Threads :
         /\ pc[t].stage # "making"
         /\ pc[t].stage = "acquiring" => using[t] = First
         /\ Hook!AtGpu(t) => holder[First] = t

HookInv == HookType /\ LockInv

LEMMA HookInvNext ==
  ASSUME HookInv, (\E t \in Threads : HookStep(t)) \/ UNCHANGED hookVars
  PROVE  HookInv'
<1> USE NamesAssumption DEF HookInv, HookType, LockInv, Hook!AtGpu, OnlyMoves
<1> USE DEF Hook!lockVars, Hook!state, Hook!call
<1>0. CallsType
  OBVIOUS
<1>1. CASE UNCHANGED hookVars
  BY <1>1 DEF hookVars, CallsType
<1>2. ASSUME NEW t \in Threads, Enters(t) PROVE HookInv'
  <2>1. PICK stage \in {"checking", "choosing"} : Hook!Stage(t, stage)
    BY <1>2 DEF Enters, Hook!Call, Hook!Eval, Hook!To, Hook!Tensor, Hook!Begins, Hook!Stage
  <2>2. stage \in HookStages /\ stage \notin {"making", "acquiring", "at_device"}
    BY DEF HookStages
  <2>3. UNCHANGED <<target, early, lock, holder, using, requested, device>>
    BY <1>2 DEF Enters, Hook!Call, Hook!Eval, Hook!To, Hook!Tensor, Hook!Begins
  <2>4. wants' \in [Threads -> {"call", "eval", "move", "copy"}]
    BY <1>0, <1>2 DEF Enters, Hook!Call, Hook!Eval, Hook!To, Hook!Tensor, Hook!Begins, CallsType
  <2>5. CallsType' /\ pc'[t].stage = stage /\ \A u \in Threads \ {t} : pc'[u] = pc[u]
    BY <1>0, <2>1, <2>2, <2>3, <2>4, StageStep DEF CallsType, Hook!Devices
  <2> QED  BY <2>2, <2>3, <2>5 DEF Hook!Locks
<1>3. ASSUME NEW t \in Threads, ChoosesDevice(t) PROVE HookInv'
  <2>1. PICK d \in Hook!Devices :
          Hook!Places(t, d) \/ Hook!Requests(t, d) \/ Hook!Copies(t, d)
    BY <1>3 DEF ChoosesDevice, Chooses
  <2>2. CASE Hook!Requests(t, d)
    <3>1. CallsType' /\ pc'[t].stage = "resetting" /\ OnlyMoves(t)
      BY <1>0, <2>2, StageStep DEF Hook!Requests, CallsType, HookStages, Hook!Devices
    <3> QED  BY <2>2, <3>1 DEF Hook!Requests, Hook!Devices, Hook!Locks
  <2>3. ASSUME NEW e \in Hook!Devices, NEW purpose \in {"place", "copy"},
               Hook!GoesTo(t, purpose, e), UNCHANGED <<Hook!lockVars, Hook!state, Hook!call>>
        PROVE  HookInv'
    <3>1. /\ CallsType' /\ OnlyMoves(t) /\ target'[t] = e
          /\ pc'[t].stage = IF e \in 0..Removals THEN "asking" ELSE "at_device"
      BY <1>0, <2>3, GoesStep DEF CallsType, Hook!Devices
    <3> QED  BY <2>3, <3>1 DEF Hook!Devices, Hook!Locks
  <2>4. CASE Hook!Places(t, d)
    <3>1. (IF requested # None THEN requested ELSE d) \in Hook!Devices
      OBVIOUS
    <3> QED  BY <2>3, <2>4, <3>1 DEF Hook!Places
  <2>5. CASE Hook!Copies(t, d)
    BY <2>3, <2>5 DEF Hook!Copies
  <2> QED  BY <2>1, <2>2, <2>4, <2>5
<1>4. ASSUME NEW t \in Threads, Hook!Ends(t), UNCHANGED <<Hook!lockVars, Hook!state>>
      PROVE  HookInv'
  <2>1. CallsType' /\ pc'[t].stage = "idle" /\ OnlyMoves(t)
    BY <1>0, <1>4, EndsStep
  <2> QED  BY <1>4, <2>1 DEF Hook!Devices, Hook!Locks
<1>5. ASSUME NEW t \in Threads, NEW none \in BOOLEAN, Hook!FindsNone(t, none)
      PROVE  HookInv'
  BY <1>4, <1>5 DEF Hook!FindsNone
<1>6. ASSUME NEW t \in Threads, Hook!Continue(t) PROVE HookInv'
  <2>1. CASE Hook!AsksForLock(t)
    <3>1. CallsType' /\ OnlyMoves(t)
          /\ pc'[t].stage = IF lock = None THEN "making" ELSE "getting"
      BY <1>0, <2>1, StageStep DEF Hook!AsksForLock, CallsType, HookStages, Hook!Devices
    <3> QED  BY <2>1, <3>1 DEF Hook!AsksForLock, Hook!Devices, Hook!Locks
  <2>2. CASE Hook!MakesLock(t)
    <3>1. CallsType' /\ OnlyMoves(t) /\ pc'[t].stage = "getting"
      BY <1>0, <2>2, StageStep DEF Hook!MakesLock, CallsType, HookStages, Hook!Devices
    <3> QED  BY <2>2, <3>1 DEF Hook!MakesLock, Hook!Devices, Hook!Locks
  <2>3. CASE Hook!GetsLock(t)
    <3>1. CallsType' /\ OnlyMoves(t) /\ pc'[t].stage = "acquiring"
      BY <1>0, <2>3, StageStep DEF Hook!GetsLock, CallsType, HookStages, Hook!Devices
    <3> QED  BY <2>3, <3>1 DEF Hook!GetsLock, Hook!Devices, Hook!Locks
  <2>4. CASE Hook!Acquires(t)
    <3>1. CallsType' /\ OnlyMoves(t) /\ pc'[t].stage = "at_device"
      BY <1>0, <2>4, StageStep DEF Hook!Acquires, CallsType, HookStages, Hook!Devices
    <3>2. holder' \in [Hook!Locks -> Threads \cup {None}]
      BY <2>4 DEF Hook!Acquires
    <3> QED  BY <2>4, <3>1, <3>2 DEF Hook!Acquires, Hook!Devices, Hook!Locks
  <2>5. CASE Hook!Checks(t) \/ Hook!Settles(t)
    <3>1. PICK stage \in {"choosing", "entering"} : Hook!Stage(t, stage)
      BY <2>5 DEF Hook!Checks, Hook!Settles, Hook!Stage
    <3>2. CallsType' /\ OnlyMoves(t) /\ pc'[t].stage = stage
      BY <1>0, <2>5, <3>1, StageStep
         DEF Hook!Checks, Hook!Settles, CallsType, HookStages, Hook!Devices
    <3>3. device' \in Hook!Devices \cup {None}
      BY <1>0, <2>5 DEF Hook!Checks, Hook!Settles, CallsType
    <3> QED  BY <2>5, <3>2, <3>3 DEF Hook!Checks, Hook!Settles, Hook!Devices, Hook!Locks
  <2>6. ASSUME NEW e \in Hook!Devices \cup {None}, NEW purpose \in {"move", "run"},
               Hook!GoesTo(t, purpose, e),
               UNCHANGED <<Hook!lockVars, requested, Hook!call>>, device' \in {device, None}
        PROVE  HookInv'
    <3>1. /\ CallsType' /\ OnlyMoves(t) /\ target'[t] = e
          /\ pc'[t].stage = IF e \in 0..Removals THEN "asking" ELSE "at_device"
      BY <1>0, <2>6, GoesStep DEF CallsType, Hook!Devices
    <3> QED  BY <2>6, <3>1 DEF Hook!Devices, Hook!Locks
  <2>7. CASE Hook!Enters(t)
    BY <1>4, <2>6, <2>7 DEF Hook!Enters
  <2>8. CASE Hook!EvalEnds(t)
    BY <1>4, <2>8 DEF Hook!EvalEnds
  <2>9. CASE Hook!Resets(t)
    BY <1>0, <2>6, <2>9 DEF Hook!Resets, CallsType
  <2>10. ASSUME Hook!Releases(t), UNCHANGED <<requested, device>>, CallsType',
                OnlyMoves(t), pc'[t].stage \in {"idle", "settling"}
         PROVE  HookInv'
    <3>1. First \in Hook!Locks
      BY DEF Hook!Locks
    <3> QED  BY <2>10, <3>1, ReleasesStep DEF Hook!Devices, Hook!Locks
  <2>11. CASE Hook!Placed(t)
    <3>1. CallsType' /\ OnlyMoves(t) /\ pc'[t].stage = "settling"
      BY <1>0, <2>11, StageStep DEF Hook!Placed, CallsType, HookStages, Hook!Devices
    <3> QED  BY <2>10, <2>11, <3>1 DEF Hook!Placed
  <2>12. ASSUME Hook!Ends(t), Hook!Releases(t), UNCHANGED <<requested, device>>
         PROVE  HookInv'
    BY <1>0, <2>10, <2>12, EndsStep
  <2>13. CASE Hook!Moved(t) \/ Hook!Ran(t) \/ Hook!Copied(t)
    BY <2>12, <2>13 DEF Hook!Moved, Hook!Ran, Hook!Copied
  <2>14. CASE Hook!CopyFails(t)
    <3>1. CASE tries[t] < Hook!MaxTries - 1
      BY <1>0, <2>14, <3>1 DEF Hook!CopyFails, CallsType, Hook!Devices, Hook!Locks
    <3> QED  BY <2>12, <2>14, <3>1 DEF Hook!CopyFails
  <2> QED
    BY <1>6, <2>1, <2>2, <2>3, <2>4, <2>5, <2>7, <2>8, <2>9, <2>11, <2>13, <2>14
       DEF Hook!Continue
<1> QED  BY <1>1, <1>2, <1>3, <1>5, <1>6 DEF HookStep

LEMMA ContinueStep ==
  ASSUME CallsType, NEW t \in Threads, Hook!Continue(t)
  PROVE  /\ pc[t].stage \notin {"idle", "choosing"}
         /\ \A u \in Threads \ {t} : pc'[u] = pc[u] /\ wants'[u] = wants[u]
<1> USE DEF Hook!Continue, Hook!AsksForLock, Hook!MakesLock, Hook!GetsLock, Hook!Acquires,
            Hook!Checks, Hook!Placed, Hook!Settles, Hook!Enters, Hook!EvalEnds, Hook!Ran,
            Hook!Resets, Hook!Moved, Hook!Copied, Hook!CopyFails
<1>1. pc[t].stage \notin {"idle", "choosing"}
  OBVIOUS
<1>2. \A u \in Threads \ {t} : pc'[u] = pc[u] /\ wants'[u] = wants[u]
  BY DEF Hook!Stage, Hook!Ends, Hook!GoesTo, Hook!call, CallsType
<1> QED  BY <1>1, <1>2

LEMMA DevicesAreNamed ==
  /\ None \notin Hook!Devices /\ None \notin Nat
  /\ Cpu \notin Nat /\ Cuda \notin Nat
<1>1. None # Cpu /\ None # Cuda
  <2> SUFFICES ASSUME None = Cpu \/ None = Cuda PROVE FALSE
    OBVIOUS
  <2>1. PICK a, b : {Cpu, Cuda, None} = {a, b}
    OBVIOUS
  <2>2. IsFiniteSet({a}) /\ Cardinality({a}) = 1
    BY FS_Singleton
  <2>3. Cardinality({a} \cup {b}) = IF b \in {a} THEN Cardinality({a}) ELSE Cardinality({a}) + 1
    BY <2>2, FS_AddElement
  <2>4. Cardinality({a} \cup {b}) <= 2
    BY <2>2, <2>3
  <2>5. {a} \cup {b} = {Cpu, Cuda, None}
    BY <2>1
  <2> QED  BY <2>4, <2>5, NamesAssumption
<1> QED  BY <1>1, NamesAssumption, BoundsAssumption DEF Hook!Devices

-----------------------------------------------------------------------------
(* The two together *)

LEMMA ChosenIsDevice ==
  ASSUME NEW t \in Threads, NEW d \in Hook!Devices, Chooses(t, d)
  PROVE  HookStep(t)
BY DEF HookStep, ChoosesDevice

LEMMA StepsOfHook ==
  ASSUME Typed, [Next]_vars
  PROVE  (\E t \in Threads : HookStep(t)) \/ UNCHANGED hookVars
<1>1. CASE Removal
  BY <1>1 DEF Removal
<1>2. ASSUME NEW t \in Threads, Begins(t) PROVE HookStep(t)
  BY <1>2 DEF Begins, HookStep, Enters
<1>3. ASSUME NEW t \in Threads, Invalidates(t) PROVE UNCHANGED hookVars
  BY <1>3 DEF Invalidates
<1>4. ASSUME NEW t \in Threads, Continues(t) PROVE HookStep(t) \/ UNCHANGED hookVars
  BY <1>4 DEF Continues, HookStep
<1>5. ASSUME NEW t \in Threads, ChoosesAtOnce(t) PROVE HookStep(t)
  <2>1. {Cpu, Cuda} \subseteq Hook!Devices
    BY DEF Hook!Devices
  <2>2. requested # None => requested \in Hook!Devices
    BY DEF Typed, HookType
  <2> QED  BY <1>5, <2>1, <2>2, ChosenIsDevice DEF ChoosesAtOnce
<1>6. ASSUME NEW t \in Threads, LooksUp(t) PROVE UNCHANGED hookVars
  BY <1>6 DEF LooksUp
<1>7. ASSUME NEW t \in Threads, Answers(t) PROVE HookStep(t) \/ UNCHANGED hookVars
  <2>1. substitute # None => substitute \in Hook!Devices
    BY AnswersAreDevices DEF Typed, ContextType
  <2>2. Hook!FindsNone(t, TRUE) => HookStep(t)
    BY DEF HookStep
  <2> QED  BY <1>7, <2>1, <2>2, ChosenIsDevice DEF Answers
<1>8. ASSUME NEW t \in Threads, Raises(t) PROVE HookStep(t) \/ UNCHANGED hookVars
  BY <1>8 DEF Raises, HookStep
<1>9. CASE UNCHANGED vars
  BY <1>9 DEF vars
<1> QED  BY <1>1, <1>2, <1>3, <1>4, <1>5, <1>6, <1>7, <1>8, <1>9 DEF Next, Goes

LEMMA StepsOfContext ==
  ASSUME [Next]_vars
  PROVE  \/ \E t \in Threads : ContextStep(t)
         \/ Context!Removal
         \/ UNCHANGED contextVars
<1>1. CASE Removal
  BY <1>1 DEF Removal
<1>2. ASSUME NEW t \in Threads, Begins(t) \/ ChoosesAtOnce(t) PROVE UNCHANGED contextVars
  BY <1>2 DEF Begins, ChoosesAtOnce
<1>3. ASSUME NEW t \in Threads, Invalidates(t) \/ LooksUp(t) PROVE ContextStep(t)
  BY <1>3 DEF Invalidates, LooksUp, ContextStep
<1>4. ASSUME NEW t \in Threads, Continues(t) PROVE ContextStep(t) \/ UNCHANGED contextVars
  BY <1>4 DEF Continues, ContextStep
<1>5. ASSUME NEW t \in Threads, Answers(t) \/ Raises(t) PROVE ContextStep(t)
  BY <1>5 DEF Answers, Raises, ContextStep
<1>6. CASE UNCHANGED vars
  BY <1>6 DEF vars
<1> QED  BY <1>1, <1>2, <1>3, <1>4, <1>5, <1>6 DEF Next, Goes

Inv == HookInv /\ ContextType

LEMMA InvInit == Init => Inv
<1> SUFFICES ASSUME Init PROVE Inv
  OBVIOUS
<1>1. ContextType
  BY BoundsAssumption
     DEF Init, Context!Init, ContextType, LookupStages, Context!Answers, Context!Contexts
<1>2. HookType
  BY DEF Init, Hook!Init, HookType, CallsType, HookStages, Hook!Devices, Hook!Locks
<1>3. LockInv
  BY DEF Init, Hook!Init, LockInv, Hook!AtGpu
<1> QED  BY <1>1, <1>2, <1>3 DEF Inv, HookInv

LEMMA InvNext == Inv /\ [Next]_vars => Inv'
<1> SUFFICES ASSUME Inv, [Next]_vars PROVE Inv'
  OBVIOUS
<1>1. Typed
  BY DEF Inv, HookInv, Typed
<1> QED  BY <1>1, StepsOfHook, StepsOfContext, HookInvNext, ContextTyped DEF Inv

\* One thread at a time is at the DirectML device, whichever call, place and move the
\* module and copy tensors there, if the lock was made before them: the copies that are
\* tried again, asleep with the lock, included (directml_backend.py:71-81, 162-176).
THEOREM DeviceIsExclusive == Spec => []OneThreadAtDevice
<1>1. Inv => OneThreadAtDevice
  <2> SUFFICES ASSUME Inv, early, NEW t \in Threads, NEW u \in Threads,
                      Hook!AtGpu(t), Hook!AtGpu(u)
               PROVE  t = u
    BY DEF OneThreadAtDevice, Hook!OneThreadAtDevice
  <2>1. holder[First] = t /\ holder[First] = u
    BY DEF Inv, HookInv, LockInv
  <2> QED  BY <2>1
<1> QED  BY <1>1, InvInit, InvNext, PTL DEF Spec

-----------------------------------------------------------------------------
(* Invalidations *)

\* A lookup belongs to a call that chooses its device, or to an invalidation.  If these
\* do not overlap, whoever invalidates is alone.
LookupInv ==
  \A t \in Threads :
    /\ lookup[t] # "idle" /\ clearing[t] = "no" => pc[t].stage = "choosing"
    /\ clearing[t] # "no" => lookup[t] # "idle" /\ pc[t].stage = "idle"

AloneInv ==
  case.apart =>
    \A t \in Threads :
      clearing[t] # "no" =>
        \A u \in Threads : pc[u].stage = "idle" /\ (u # t => lookup[u] = "idle")

\* Whatever is cached or held by a thread is no older than the invalidations that have
\* ended, and than the one under way once that has cleared it.
FreshInv ==
  case.apart =>
    /\ cleared <= removed
    /\ resolved \in Nat => resolved >= cleared
    /\ substitute \in Nat => substitute >= cleared
    /\ \A t \in Threads :
         /\ clearing[t] = "no" => begun[t] = 0
         /\ lookup[t] = "idle" => read[t] = None
         /\ begun[t] <= removed
         /\ expected[t] <= cleared
         /\ read[t] \in Nat => read[t] >= cleared /\ read[t] >= begun[t]
         /\ resolved \in Nat /\ lookup[t] # "clearing" => resolved >= begun[t]
         /\ substitute \in Nat => substitute >= begun[t]

LEMMA LookupNext ==
  ASSUME Inv, LookupInv, [Next]_vars
  PROVE  LookupInv'
<1> USE DEF LookupInv, Inv, HookInv, HookType, ContextType, LookupStages
<1> USE DEF Context!Goto, Context!caches, Context!driver, Context!history, Context!Reads
<1>0. CallsType
  OBVIOUS
<1>1. CASE Removal
  BY <1>1 DEF Removal, Context!Removal, hookVars
<1>2. ASSUME NEW t \in Threads, Begins(t) PROVE LookupInv'
  <2>1. \A u \in Threads \ {t} : pc'[u] = pc[u]
    BY <1>0, <1>2
       DEF Begins, Hook!Call, Hook!Eval, Hook!To, Hook!Tensor, Hook!Begins, Hook!Stage, CallsType
  <2> QED  BY <1>2, <2>1 DEF Begins, contextVars
<1>3. ASSUME NEW t \in Threads, Invalidates(t) PROVE LookupInv'
  BY <1>3 DEF Invalidates, Context!Invalidate, hookVars
<1>4. ASSUME NEW t \in Threads, Hook!Continue(t), UNCHANGED contextVars PROVE LookupInv'
  <2>1. pc[t].stage \notin {"idle", "choosing"}
        /\ \A u \in Threads \ {t} : pc'[u] = pc[u]
    BY <1>0, <1>4, ContinueStep
  <2> QED  BY <1>4, <2>1 DEF contextVars
<1>5. ASSUME NEW t \in Threads, Context!Resolves(t) \/ Context!FindsNoDevice(t),
             UNCHANGED hookVars
      PROVE  LookupInv'
  <2>1. lookup[t] # "idle" /\ lookup'[t] # "idle"
        /\ clearing' \in [Threads -> {"no", "backend", "substitute"}]
        /\ (clearing'[t] = "no" <=> clearing[t] = "no")
        /\ \A u \in Threads \ {t} : lookup'[u] = lookup[u] /\ clearing'[u] = clearing[u]
    BY <1>5 DEF Context!Resolves, Context!FindsNoDevice, Context!Tests, Context!FindsDevice,
                Context!Stores, Context!ClearsContext, Context!TestsContext,
                Context!MakesContext, Context!KeepsMade, Context!ReturnsContext
  <2> QED  BY <1>5, <2>1 DEF hookVars
<1>6. ASSUME NEW t \in Threads, LooksUp(t) PROVE LookupInv'
  BY <1>6 DEF LooksUp, Choosing, Context!Lookup, hookVars
<1>7. ASSUME NEW t \in Threads, ChoosesAtOnce(t) PROVE LookupInv'
  <2>1. \A u \in Threads \ {t} : pc'[u] = pc[u]
    BY <1>0, <1>7 DEF ChoosesAtOnce, Chooses, Hook!Places, Hook!Requests, Hook!Copies,
                      Hook!GoesTo, Hook!Stage, CallsType
  <2>2. lookup[t] = "idle"
    BY <1>7 DEF ChoosesAtOnce, Choosing
  <2> QED  BY <1>7, <2>1, <2>2 DEF ChoosesAtOnce, contextVars
<1>8. ASSUME NEW t \in Threads, Answers(t) \/ Raises(t) PROVE LookupInv'
  <2>1. \A u \in Threads \ {t} : pc'[u] = pc[u]
    BY <1>0, <1>8 DEF Answers, Raises, Chooses, Hook!Places, Hook!Requests, Hook!Copies,
                      Hook!FindsNone, Hook!GoesTo, Hook!Stage, Hook!Ends, CallsType, hookVars
  <2>2. lookup'[t] = "idle" /\ clearing'[t] = "no"
        /\ \A u \in Threads \ {t} : lookup'[u] = lookup[u] /\ clearing'[u] = clearing[u]
    BY <1>8 DEF Answers, Raises, Context!Answer, Context!MakesNone, Context!Ends
  <2> QED  BY <2>1, <2>2
<1>9. CASE UNCHANGED vars
  BY <1>9 DEF vars, hookVars, contextVars
<1> QED  BY <1>1, <1>2, <1>3, <1>4, <1>5, <1>6, <1>7, <1>8, <1>9 DEF Next, Goes, Continues

LEMMA AloneNext ==
  ASSUME Inv, LookupInv, AloneInv, [Next]_vars
  PROVE  AloneInv'
<1> USE DEF LookupInv, AloneInv, Inv, HookInv, HookType, ContextType, LookupStages
<1> USE DEF Context!Goto, Context!caches, Context!driver, Context!history, Context!Reads
<1>0. CallsType
  OBVIOUS
<1>1. CASE Removal
  BY <1>1 DEF Removal, Context!Removal, hookVars
<1>2. ASSUME NEW t \in Threads, Begins(t) PROVE AloneInv'
  BY <1>2 DEF Begins, Invalidating, contextVars
<1>3. ASSUME NEW t \in Threads, Invalidates(t) PROVE AloneInv'
  <2>1. case.apart => \A u \in Threads : lookup[u] = "idle" /\ clearing[u] = "no"
    BY <1>3 DEF Invalidates, Invalidating, Hook!Quiet
  <2> QED  BY <1>3, <2>1 DEF Invalidates, Context!Invalidate, Hook!Quiet, hookVars
<1>4. ASSUME NEW t \in Threads, Hook!Continue(t), UNCHANGED <<case, contextVars>>
      PROVE  AloneInv'
  <2>1. pc[t].stage # "idle"
    BY <1>0, <1>4, ContinueStep
  <2> QED  BY <1>4, <2>1 DEF contextVars
<1>5. ASSUME NEW t \in Threads, Context!Resolves(t) \/ Context!FindsNoDevice(t),
             UNCHANGED <<case, hookVars>>
      PROVE  AloneInv'
  <2>1. lookup[t] # "idle"
        /\ (clearing'[t] = "no" <=> clearing[t] = "no")
        /\ \A u \in Threads \ {t} : lookup'[u] = lookup[u] /\ clearing'[u] = clearing[u]
    BY <1>5 DEF Context!Resolves, Context!FindsNoDevice, Context!Tests, Context!FindsDevice,
                Context!Stores, Context!ClearsContext, Context!TestsContext,
                Context!MakesContext, Context!KeepsMade, Context!ReturnsContext
  <2> QED  BY <1>5, <2>1 DEF hookVars
<1>6. ASSUME NEW t \in Threads, LooksUp(t) PROVE AloneInv'
  <2>1. pc[t].stage # "idle"
    BY <1>6 DEF LooksUp, Choosing
  <2> QED  BY <1>6, <2>1 DEF LooksUp, Context!Lookup, hookVars
<1>7. ASSUME NEW t \in Threads, ChoosesAtOnce(t) PROVE AloneInv'
  <2>1. pc[t].stage # "idle"
    BY <1>7 DEF ChoosesAtOnce, Choosing
  <2> QED  BY <1>7, <2>1 DEF ChoosesAtOnce, contextVars
<1>8. ASSUME NEW t \in Threads, Answers(t) \/ Raises(t) PROVE AloneInv'
  <2>1. lookup[t] # "idle" /\ lookup'[t] = "idle" /\ clearing'[t] = "no" /\ case' = case
        /\ \A u \in Threads \ {t} : lookup'[u] = lookup[u] /\ clearing'[u] = clearing[u]
    BY <1>8 DEF Answers, Raises, Context!Answer, Context!MakesNone, Context!Ends
  <2>2. pc[t].stage # "choosing" => UNCHANGED hookVars
    BY <1>8 DEF Answers, Raises
  <2> QED  BY <2>1, <2>2 DEF hookVars
<1>9. CASE UNCHANGED vars
  BY <1>9 DEF vars, hookVars, contextVars
<1> QED  BY <1>1, <1>2, <1>3, <1>4, <1>5, <1>6, <1>7, <1>8, <1>9 DEF Next, Goes, Continues

LEMMA FreshNext ==
  ASSUME Inv, LookupInv, AloneInv, FreshInv, [Next]_vars
  PROVE  FreshInv'
<1> SUFFICES ASSUME case.apart, case' = case PROVE FreshInv'
  BY DEF FreshInv, Next, Removal, Begins, Invalidates, Goes, Continues, ChoosesAtOnce, LooksUp,
         Answers, Raises, vars
<1> USE BoundsAssumption, DevicesAreNamed
    DEF FreshInv, Inv, ContextType, LookupStages, Context!Contexts, Context!Answers
<1> USE DEF Context!Goto, Context!caches, Context!driver, Context!history, Context!Reads
<1>1. CASE Context!Removal
  BY <1>1 DEF Context!Removal
<1>2. CASE UNCHANGED contextVars
  BY <1>2 DEF contextVars
<1>3. ASSUME NEW t \in Threads, ContextStep(t) PROVE FreshInv'
  <2>1. CASE Context!Invalidate(t)
    BY <2>1 DEF Context!Invalidate
  <2>2. CASE Context!Lookup(t)
    BY <2>2 DEF Context!Lookup
  <2>3. CASE Context!Tests(t) \/ Context!FindsDevice(t) \/ Context!TestsContext(t)
    BY <2>3 DEF Context!Tests, Context!FindsDevice, Context!TestsContext
  <2>4. CASE Context!FindsNoDevice(t)
    BY <2>4 DEF Context!FindsNoDevice
  <2>5. CASE Context!ClearsContext(t)
    BY <2>5 DEF Context!ClearsContext
  <2>6. CASE Context!MakesContext(t)
    BY <2>6 DEF Context!MakesContext
  <2>7. \A u \in Threads \ {t} : lookup[t] # "idle" => begun[u] = 0
    BY DEF AloneInv
  <2>8. CASE Context!Stores(t)
    BY <2>7, <2>8 DEF Context!Stores
  <2>9. CASE Context!KeepsMade(t)
    BY <2>7, <2>9 DEF Context!KeepsMade
  <2>10. CASE Context!ReturnsContext(t)
    BY <2>10 DEF Context!ReturnsContext
  <2>11. CASE Context!MakesNone(t)
    BY <2>11 DEF Context!MakesNone, Context!Ends
  <2>12. CASE Context!Answer(t)
    <3>1. CASE clearing[t] = "no"
      BY <2>12, <3>1 DEF Context!Answer, Context!Ends
    <3>2. CASE clearing[t] # "no"
      <4>1. \A u \in Threads \ {t} : read[u] = None
        BY <3>2 DEF AloneInv
      <4>2. /\ cleared' \in {cleared, begun[t]} /\ cleared' >= cleared
        BY <2>12, <3>2, MaxOfTwo DEF Context!Answer
      <4>3. UNCHANGED <<removed, resolved, substitute>>
        BY <2>12 DEF Context!Answer
      <4>4. /\ cleared' <= removed'
            /\ resolved' \in Nat => resolved' >= cleared'
            /\ substitute' \in Nat => substitute' >= cleared'
        BY <2>12, <4>2, <4>3 DEF Context!Answer
      <4>5. /\ clearing'[t] = "no" /\ lookup'[t] = "idle" /\ read'[t] = None
            /\ begun'[t] = 0 /\ expected'[t] = 0
        BY <2>12 DEF Context!Answer, Context!Ends
      <4>6. \A u \in Threads \ {t} :
              /\ clearing'[u] = clearing[u] /\ lookup'[u] = lookup[u] /\ read'[u] = None
              /\ begun'[u] = begun[u] /\ expected'[u] = expected[u]
        BY <2>12, <4>1 DEF Context!Answer, Context!Ends
      <4>7. cleared' \in Nat /\ removed' \in Nat
        BY <4>2, <4>3
      <4> QED  BY <4>2, <4>3, <4>4, <4>5, <4>6, <4>7
    <3> QED  BY <3>1, <3>2
  <2> QED
    BY <1>3, <2>1, <2>2, <2>3, <2>4, <2>5, <2>6, <2>8, <2>9, <2>10, <2>11, <2>12
       DEF ContextStep, Context!Resolves
<1> QED  BY <1>1, <1>2, <1>3, StepsOfContext

\* The first lookup after an invalidation finds no context that was lost before it, if
\* no call overlapped the invalidation, however many removals, failures and threads
\* there are (device.py:117-141, directml_backend.py:83-119).
THEOREM InvalidationsTakeEffect == Spec => []InvalidationIsEffective
<1>1. Init => LookupInv /\ AloneInv /\ FreshInv
  BY BoundsAssumption, DevicesAreNamed
     DEF Init, Hook!Init, Context!Init, LookupInv, AloneInv, FreshInv
<1>2. Inv /\ LookupInv /\ AloneInv /\ FreshInv /\ [Next]_vars
        => LookupInv' /\ AloneInv' /\ FreshInv'
  BY LookupNext, AloneNext, FreshNext
<1>3. Inv /\ FreshInv => InvalidationIsEffective
  <2> SUFFICES ASSUME Inv, FreshInv, case.apart, NEW t \in Threads, Context!Returning(t),
                      substitute \in Context!Contexts
               PROVE  substitute >= expected[t]
    BY DEF InvalidationIsEffective, Context!LookupIsFresh
  <2>1. substitute \in Nat /\ cleared \in Nat /\ expected[t] \in Nat
    BY BoundsAssumption DEF Inv, ContextType, Context!Contexts
  <2> QED  BY <2>1 DEF FreshInv
<1> QED  BY <1>1, <1>2, <1>3, InvInit, InvNext, PTL DEF Spec

-----------------------------------------------------------------------------
(* Where a module runs *)

Clean == failed = 0 /\ removed = 0

\* The device an unspecific call gets, as long as nothing goes wrong.
Automatic == IF case.cuda THEN Cuda ELSE 0
Want == IF requested # None THEN requested ELSE Automatic

Going(t) == pc[t].stage \in {"asking", "making", "getting", "acquiring", "at_device"}
Places(t) == pc[t].stage = "settling" \/ (Going(t) /\ pc[t].purpose \in {"place", "run"})
Runs(t) == pc[t].stage = "settling" \/ (Going(t) /\ pc[t].purpose = "run")

\* Who moves the module is alone with it.
ScopeInv ==
  \A t \in Threads :
    /\ wants[t] = "move" /\ pc[t].stage # "idle" =>
         /\ \A u \in Threads \ {t} : pc[u].stage = "idle"
         /\ pc[t].stage \in {"choosing", "resetting"} \/ (Going(t) /\ pc[t].purpose = "move")
    /\ pc[t].stage = "resetting" \/ (Going(t) /\ pc[t].purpose = "move") => wants[t] = "move"

\* As long as the driver gives devices, and the same, all lookups find it.
CleanInv ==
  Clean =>
    /\ substitute \in {None, 0} /\ resolved \in {None, 0}
    /\ \A t \in Threads : read[t] \in {None, 0}

\* A call looks up what "cuda" means only where there is none.
AskInv ==
  \A t \in Threads :
    lookup[t] # "idle" /\ pc[t].stage = "choosing" /\ Placing(t) => ~case.cuda

TargetInv ==
  requested # None \/ Clean =>
    /\ \A t \in Threads : Places(t) => target[t] = Want
    /\ device # None /\ (\A t \in Threads : pc[t].stage # "resetting") => device = Want

WhereInv ==
  Clean =>
    /\ device # None => where = device
    /\ \A t \in Threads : Runs(t) => where = target[t]
    /\ \A t \in Threads : Going(t) /\ pc[t].purpose = "move" => device = None

RunsInv == ScopeInv /\ TargetInv /\ WhereInv

LEMMA CleanNext ==
  ASSUME ContextType, CleanInv, [Next]_vars
  PROVE  CleanInv' /\ (Clean' => Clean)
<1> USE BoundsAssumption, DevicesAreNamed
    DEF CleanInv, Clean, ContextType, LookupStages, Context!Contexts, Context!Answers
<1> USE DEF Context!Goto, Context!caches, Context!driver, Context!history, Context!Reads
<1>1. CASE Context!Removal
  BY <1>1 DEF Context!Removal
<1>2. CASE UNCHANGED contextVars
  BY <1>2 DEF contextVars
<1>3. ASSUME NEW t \in Threads, ContextStep(t) PROVE CleanInv' /\ (Clean' => Clean)
  <2>1. CASE Context!Invalidate(t) \/ Context!Lookup(t)
    BY <2>1 DEF Context!Invalidate, Context!Lookup
  <2>2. CASE Context!Tests(t) \/ Context!FindsDevice(t) \/ Context!TestsContext(t)
    BY <2>2 DEF Context!Tests, Context!FindsDevice, Context!TestsContext
  <2>3. CASE Context!FindsNoDevice(t)
    BY <2>3 DEF Context!FindsNoDevice
  <2>4. CASE Context!Stores(t) \/ Context!ClearsContext(t)
    BY <2>4 DEF Context!Stores, Context!ClearsContext
  <2>5. CASE Context!MakesContext(t)
    BY <2>5 DEF Context!MakesContext
  <2>6. CASE Context!KeepsMade(t) \/ Context!ReturnsContext(t)
    BY <2>6 DEF Context!KeepsMade, Context!ReturnsContext
  <2>7. CASE Context!MakesNone(t) \/ Context!Answer(t)
    BY <2>7 DEF Context!MakesNone, Context!Answer, Context!Ends
  <2> QED
    BY <1>3, <2>1, <2>2, <2>3, <2>4, <2>5, <2>6, <2>7 DEF ContextStep, Context!Resolves
<1> QED  BY <1>1, <1>2, <1>3, StepsOfContext

LEMMA AskNext ==
  ASSUME Inv, LookupInv, AskInv, [Next]_vars
  PROVE  AskInv'
<1> USE DEF AskInv, Placing, Inv, HookInv, HookType, ContextType, LookupStages
<1> USE DEF Context!Goto, Context!caches, Context!driver, Context!history, Context!Reads
<1>0. CallsType
  OBVIOUS
<1>1. CASE Removal
  BY <1>1 DEF Removal, Context!Removal, hookVars
<1>2. ASSUME NEW t \in Threads, Begins(t) PROVE AskInv'
  <2>1. \A u \in Threads \ {t} : pc'[u] = pc[u] /\ wants'[u] = wants[u]
    BY <1>0, <1>2
       DEF Begins, Hook!Call, Hook!Eval, Hook!To, Hook!Tensor, Hook!Begins, Hook!Stage, CallsType
  <2> QED  BY <1>2, <2>1 DEF Begins, contextVars
<1>3. ASSUME NEW t \in Threads, Invalidates(t) PROVE AskInv'
  BY <1>3 DEF Invalidates, Context!Invalidate, hookVars
<1>4. ASSUME NEW t \in Threads, Hook!Continue(t), UNCHANGED <<case, contextVars>>
      PROVE  AskInv'
  <2>1. pc[t].stage \notin {"idle", "choosing"}
        /\ \A u \in Threads \ {t} : pc'[u] = pc[u] /\ wants'[u] = wants[u]
    BY <1>0, <1>4, ContinueStep
  <2>2. lookup[t] = "idle"
    BY <2>1 DEF LookupInv
  <2> QED  BY <1>4, <2>1, <2>2 DEF contextVars
<1>5. ASSUME NEW t \in Threads, Context!Resolves(t) \/ Context!FindsNoDevice(t),
             UNCHANGED <<case, hookVars>>
      PROVE  AskInv'
  <2>1. lookup[t] # "idle" /\ \A u \in Threads \ {t} : lookup'[u] = lookup[u]
    BY <1>5 DEF Context!Resolves, Context!FindsNoDevice, Context!Tests, Context!FindsDevice,
                Context!Stores, Context!ClearsContext, Context!TestsContext,
                Context!MakesContext, Context!KeepsMade, Context!ReturnsContext
  <2> QED  BY <1>5, <2>1 DEF hookVars
<1>6. ASSUME NEW t \in Threads, LooksUp(t) PROVE AskInv'
  BY <1>6 DEF LooksUp, Choosing, Context!Lookup, hookVars
<1>7. ASSUME NEW t \in Threads, ChoosesAtOnce(t) PROVE AskInv'
  <2>1. \A u \in Threads \ {t} : pc'[u] = pc[u] /\ wants'[u] = wants[u]
    BY <1>0, <1>7 DEF ChoosesAtOnce, Chooses, Hook!Places, Hook!Requests, Hook!Copies,
                      Hook!GoesTo, Hook!Stage, Hook!call, CallsType
  <2>2. lookup[t] = "idle"
    BY <1>7 DEF ChoosesAtOnce, Choosing
  <2> QED  BY <1>7, <2>1, <2>2 DEF ChoosesAtOnce, contextVars
<1>8. ASSUME NEW t \in Threads, Answers(t) \/ Raises(t) PROVE AskInv'
  <2>1. \A u \in Threads \ {t} : pc'[u] = pc[u] /\ wants'[u] = wants[u]
    BY <1>0, <1>8 DEF Answers, Raises, Chooses, Hook!Places, Hook!Requests, Hook!Copies,
                      Hook!FindsNone, Hook!GoesTo, Hook!Stage, Hook!Ends, Hook!call, CallsType,
                      hookVars
  <2>2. lookup'[t] = "idle" /\ case' = case /\ \A u \in Threads \ {t} : lookup'[u] = lookup[u]
    BY <1>8 DEF Answers, Raises, Context!Answer, Context!MakesNone, Context!Ends
  <2> QED  BY <2>1, <2>2
<1>9. CASE UNCHANGED vars
  BY <1>9 DEF vars, hookVars, contextVars
<1> QED  BY <1>1, <1>2, <1>3, <1>4, <1>5, <1>6, <1>7, <1>8, <1>9 DEF Next, Goes, Continues

\* What a call chooses where nothing was requested is what every other call chooses.
ChoosesWanted(t) ==
  \E d \in Hook!Devices :
    /\ Chooses(t, d)
    /\ Placing(t) /\ requested = None /\ Clean => d = Automatic

LEMMA WantedIsChosen ==
  ASSUME Inv, CleanInv, AskInv, NEW t \in Threads, ChoosesAtOnce(t) \/ Answers(t)
  PROVE  ChoosesWanted(t) \/ Hook!FindsNone(t, TRUE) \/ UNCHANGED hookVars
<1>0. {Cpu, Cuda} \subseteq Hook!Devices /\ (requested # None => requested \in Hook!Devices)
  BY DEF Hook!Devices, Inv, HookInv, HookType
<1>1. CASE ChoosesAtOnce(t)
  <2>1. CASE Placing(t) /\ requested # None /\ Chooses(t, requested)
    BY <1>0, <2>1 DEF ChoosesWanted
  <2>2. CASE wants[t] = "move" /\ Chooses(t, Cpu)
    BY <1>0, <2>2 DEF ChoosesWanted, Placing
  <2>3. CASE case.cuda /\ Chooses(t, Cuda)
    BY <1>0, <2>3 DEF ChoosesWanted, Automatic
  <2> QED  BY <1>1, <2>1, <2>2, <2>3 DEF ChoosesAtOnce
<1>2. CASE Answers(t)
  <2> SUFFICES ASSUME pc[t].stage = "choosing", substitute # None, Chooses(t, substitute)
               PROVE  ChoosesWanted(t)
    BY <1>2 DEF Answers
  <2>1. substitute \in Hook!Devices
    BY AnswersAreDevices DEF Inv, ContextType
  <2>2. Placing(t) => ~case.cuda
    BY <1>2 DEF Answers, Context!Answer, AskInv
  <2>3. Clean => substitute = 0
    BY DEF CleanInv
  <2> QED  BY <2>1, <2>2, <2>3 DEF ChoosesWanted, Automatic
<1> QED  BY <1>1, <1>2

LEMMA RunsNext ==
  ASSUME Inv, RunsInv, CleanInv, AskInv, [Next]_vars
  PROVE  RunsInv'
<1> USE DevicesAreNamed
    DEF RunsInv, ScopeInv, TargetInv, WhereInv, Going, Places, Runs, Want, Automatic, OnlyMoves
<1> USE DEF Hook!lockVars, Hook!state, Hook!call
<1>0. CallsType
  BY DEF Inv, HookInv, HookType
<1>1. case' = case /\ (Clean' => Clean)
  BY CleanNext DEF Inv, Next, Removal, Begins, Invalidates, Goes, Continues, ChoosesAtOnce,
                   LooksUp, Answers, Raises, vars
<1>2. CASE UNCHANGED hookVars
  BY <1>1, <1>2 DEF hookVars
<1>3. ASSUME NEW t \in Threads, Enters(t) PROVE RunsInv'
  <2>1. PICK stage \in {"checking", "choosing"} :
          Hook!Stage(t, stage) /\ (wants'[t] = "move" => stage = "choosing")
    BY <1>0, <1>3 DEF Enters, Hook!Call, Hook!Eval, Hook!To, Hook!Tensor, Hook!Begins,
                      Hook!Stage, CallsType
  <2>2. stage \in HookStages
    BY DEF HookStages
  <2>3. pc'[t].stage = stage /\ \A u \in Threads \ {t} : pc'[u] = pc[u]
    BY <1>0, <2>1, <2>2, StageStep
  <2>4. UNCHANGED <<target, requested, device, where>>
        /\ \A u \in Threads \ {t} : wants'[u] = wants[u]
    BY <1>0, <1>3 DEF Enters, Hook!Call, Hook!Eval, Hook!To, Hook!Tensor, Hook!Begins, CallsType
  <2>5. \/ \A u \in Threads : pc[u].stage = "idle"
        \/ wants'[t] # "move" /\ \A u \in Threads : ~Hook!Moving(u)
    BY <1>0, <1>3 DEF Enters, Hook!Call, Hook!Eval, Hook!To, Hook!Tensor, Hook!Begins,
                      Hook!Quiet, CallsType
  <2>6. pc[t].stage = "idle"
    BY <1>3 DEF Enters, Hook!Call, Hook!Eval, Hook!To, Hook!Tensor, Hook!Begins, Hook!Quiet
  <2>7. ScopeInv'
    BY <2>1, <2>3, <2>4, <2>5 DEF Hook!Moving
  <2>8. TargetInv'
    BY <1>1, <2>3, <2>4, <2>6
  <2>9. WhereInv'
    BY <1>1, <2>3, <2>4
  <2> QED  BY <2>7, <2>8, <2>9
<1>4. ASSUME NEW t \in Threads, Hook!Ends(t), UNCHANGED <<requested, device, where>>,
             pc[t].stage # "resetting"
      PROVE  RunsInv'
  <2>1. /\ pc'[t].stage = "idle" /\ wants'[t] = "call" /\ OnlyMoves(t)
        /\ \A u \in Threads \ {t} : wants'[u] = wants[u]
    BY <1>0, <1>4, EndsStep
  <2>2. ScopeInv'
    BY <2>1
  <2>3. TargetInv'
    BY <1>1, <1>4, <2>1
  <2>4. WhereInv'
    BY <1>1, <1>4, <2>1
  <2> QED  BY <2>2, <2>3, <2>4
<1>5. ASSUME NEW t \in Threads, NEW none \in BOOLEAN, Hook!FindsNone(t, none)
      PROVE  RunsInv'
  BY <1>4, <1>5 DEF Hook!FindsNone
<1>6. ASSUME NEW t \in Threads, NEW d \in Hook!Devices \cup {None},
             NEW purpose \in {"place", "move", "run", "copy"}, Hook!GoesTo(t, purpose, d),
             UNCHANGED <<requested, where, Hook!call>>, pc[t].stage # "idle",
             wants[t] = "move" <=> purpose = "move",
             \/ device' = device /\ pc[t].stage # "resetting"
             \/ purpose = "move" /\ device' = None,
             purpose = "move" => device' = None,
             requested # None \/ Clean => (purpose \in {"place", "run"} => d = Want),
             Clean /\ purpose = "run" => where = d
      PROVE  RunsInv'
  <2>1. /\ pc'[t].stage = IF d \in 0..Removals THEN "asking" ELSE "at_device"
        /\ pc'[t].purpose = purpose /\ target'[t] = d /\ OnlyMoves(t)
    BY <1>0, <1>6, GoesStep
  <2>2. ScopeInv'
    BY <1>6, <2>1
  <2>3. TargetInv'
    BY <1>1, <1>6, <2>1
  <2>4. WhereInv'
    BY <1>1, <1>6, <2>1
  <2> QED  BY <2>2, <2>3, <2>4
<1>7. ASSUME NEW t \in Threads, ChoosesWanted(t) PROVE RunsInv'
  <2>1. PICK d \in Hook!Devices :
          Chooses(t, d) /\ (Placing(t) /\ requested = None /\ Clean => d = Automatic)
    BY <1>7 DEF ChoosesWanted
  <2>2. CASE Placing(t) /\ Hook!Places(t, d)
    <3>1. (IF requested # None THEN requested ELSE d) \in Hook!Devices \cup {None}
      BY DEF Inv, HookInv, HookType
    <3> QED  BY <1>6, <2>1, <2>2, <3>1 DEF Hook!Places, Placing
  <2>3. CASE wants[t] = "copy" /\ Hook!Copies(t, d)
    BY <1>6, <2>3 DEF Hook!Copies
  <2>4. CASE wants[t] = "move" /\ Hook!Requests(t, d)
    <3>1. pc'[t].stage = "resetting" /\ \A u \in Threads \ {t} : pc'[u] = pc[u]
      BY <1>0, <2>4, StageStep DEF Hook!Requests, HookStages
    <3>2. \A u \in Threads \ {t} : pc[u].stage = "idle"
      BY <2>4 DEF Hook!Requests
    <3>3. UNCHANGED <<device, where, wants>> /\ requested' = d
      BY <2>4 DEF Hook!Requests
    <3> QED  BY <1>1, <2>4, <3>1, <3>2, <3>3
  <2> QED  BY <2>1, <2>2, <2>3, <2>4 DEF Chooses
<1>8. ASSUME NEW t \in Threads, Hook!Continue(t) PROVE RunsInv'
  <2>1. CASE Hook!AsksForLock(t) \/ Hook!MakesLock(t) \/ Hook!GetsLock(t) \/ Hook!Acquires(t)
    <3>1. PICK stage \in {"making", "getting", "acquiring", "at_device"} : Hook!Stage(t, stage)
      BY <2>1 DEF Hook!AsksForLock, Hook!MakesLock, Hook!GetsLock, Hook!Acquires, Hook!Stage
    <3>2. /\ pc'[t].stage = stage /\ pc'[t].purpose = pc[t].purpose
          /\ \A u \in Threads \ {t} : pc'[u] = pc[u]
      BY <1>0, <3>1, StageStep DEF HookStages
    <3>3. Going(t) /\ UNCHANGED <<requested, device, where, wants, target>>
      BY <2>1 DEF Hook!AsksForLock, Hook!MakesLock, Hook!GetsLock, Hook!Acquires
    <3>4. ScopeInv'
      BY <3>1, <3>2, <3>3
    <3>5. TargetInv'
      BY <1>1, <3>1, <3>2, <3>3
    <3>6. WhereInv'
      BY <1>1, <3>1, <3>2, <3>3
    <3> QED  BY <3>4, <3>5, <3>6
  <2>2. CASE Hook!Checks(t)
    <3>1. PICK stage \in {"choosing", "entering"} : Hook!Stage(t, stage)
      BY <2>2 DEF Hook!Checks, Hook!Stage
    <3>2. pc'[t].stage = stage /\ \A u \in Threads \ {t} : pc'[u] = pc[u]
      BY <1>0, <3>1, StageStep DEF HookStages
    <3>3. pc[t].stage = "checking" /\ UNCHANGED <<requested, device, where, wants, target>>
      BY <2>2 DEF Hook!Checks
    <3>4. ScopeInv'
      BY <3>1, <3>2, <3>3
    <3>5. TargetInv'
      BY <1>1, <3>1, <3>2, <3>3
    <3>6. WhereInv'
      BY <1>1, <3>1, <3>2, <3>3
    <3> QED  BY <3>4, <3>5, <3>6
  <2>3. CASE Hook!Placed(t)
    <3>1. pc'[t].stage = "settling" /\ \A u \in Threads \ {t} : pc'[u] = pc[u]
      BY <1>0, <2>3, StageStep DEF Hook!Placed, HookStages
    <3>2. Places(t) /\ pc[t].stage = "at_device" /\ pc[t].purpose = "place"
          /\ where' = target[t] /\ UNCHANGED <<requested, device, wants, target>>
      BY <2>3 DEF Hook!Placed
    <3>3. \A u \in Threads : pc[u].stage # "resetting" /\ ~(Going(u) /\ pc[u].purpose = "move")
      BY <3>2
    <3>4. ScopeInv'
      BY <3>1, <3>2
    <3>5. TargetInv'
      BY <1>1, <3>1, <3>2, <3>3
    <3>6. WhereInv'
      BY <1>1, <3>1, <3>2, <3>3
    <3> QED  BY <3>4, <3>5, <3>6
  <2>4. CASE Hook!Settles(t)
    <3>1. pc'[t].stage = "entering" /\ \A u \in Threads \ {t} : pc'[u] = pc[u]
      BY <1>0, <2>4, StageStep DEF Hook!Settles, HookStages
    <3>2. pc[t].stage = "settling" /\ device' = target[t]
          /\ UNCHANGED <<requested, where, wants, target>>
      BY <2>4 DEF Hook!Settles
    <3>3. \A u \in Threads : ~(Going(u) /\ pc[u].purpose = "move")
      BY <3>2
    <3>4. ScopeInv'
      BY <3>1, <3>2
    <3>5. TargetInv'
      BY <1>1, <3>1, <3>2
    <3>6. WhereInv'
      BY <1>1, <3>1, <3>2, <3>3
    <3> QED  BY <3>4, <3>5, <3>6
  <2>5. CASE Hook!Enters(t)
    <3>1. CASE device = None
      BY <1>4, <2>5, <3>1 DEF Hook!Enters
    <3>2. CASE device # None
      <4>1. \A u \in Threads : pc[u].stage # "resetting"
        BY <2>5 DEF Hook!Enters
      <4>2. device \in Hook!Devices
        BY <3>2 DEF Inv, HookInv, HookType
      <4> QED  BY <1>6, <2>5, <3>2, <4>1, <4>2 DEF Hook!Enters
    <3> QED  BY <3>1, <3>2
  <2>6. CASE Hook!EvalEnds(t)
    BY <1>4, <2>6 DEF Hook!EvalEnds
  <2>7. CASE Hook!Resets(t)
    <3>1. target[t] \in Hook!Devices \cup {None}
      BY <1>0 DEF CallsType
    <3> QED  BY <1>6, <2>7, <3>1 DEF Hook!Resets
  <2>8. CASE Hook!Moved(t)
    <3>1. /\ pc'[t].stage = "idle" /\ wants'[t] = "call" /\ OnlyMoves(t)
          /\ \A u \in Threads \ {t} : wants'[u] = wants[u]
      BY <1>0, <2>8, EndsStep DEF Hook!Moved
    <3>2. pc[t].stage = "at_device" /\ pc[t].purpose = "move" /\ where' = target[t]
          /\ UNCHANGED <<requested, device>>
      BY <2>8 DEF Hook!Moved
    <3>3. \A u \in Threads \ {t} : pc[u].stage = "idle"
      BY <3>2
    <3> QED  BY <1>1, <3>1, <3>2, <3>3
  <2>9. CASE Hook!Ran(t) \/ Hook!Copied(t)
    BY <1>4, <2>9 DEF Hook!Ran, Hook!Copied
  <2>10. CASE Hook!CopyFails(t)
    BY <1>1, <1>4, <2>10 DEF Hook!CopyFails
  <2> QED
    BY <1>8, <2>1, <2>2, <2>3, <2>4, <2>5, <2>6, <2>7, <2>8, <2>9, <2>10 DEF Hook!Continue
<1>9. ASSUME NEW t \in Threads, Begins(t) \/ Continues(t) \/ Raises(t)
      PROVE  Enters(t) \/ Hook!Continue(t) \/ Hook!FindsNone(t, FALSE) \/ UNCHANGED hookVars
  BY <1>9 DEF Begins, Enters, Continues, Raises
<1>10. ASSUME NEW t \in Threads, ChoosesAtOnce(t) \/ Answers(t) PROVE RunsInv'
  BY <1>2, <1>5, <1>7, <1>10, WantedIsChosen
<1>11. CASE Removal \/ \E t \in Threads : Invalidates(t) \/ LooksUp(t)
  BY <1>2, <1>11 DEF Removal, Invalidates, LooksUp
<1>12. CASE UNCHANGED vars
  BY <1>2, <1>12 DEF vars
<1> QED
  BY <1>2, <1>3, <1>5, <1>8, <1>9, <1>10, <1>11, <1>12 DEF Next, Goes

\* A call runs on the device that the last to() before it asked for, and if the device
\* never fails on the one its parameters are on, whichever threads call, place and move
\* the module or look its device up meanwhile (hook.py:42-82, device.py:39-61, 129-141).
THEOREM ModelsRunWhereRequested == Spec => []RunsWhereRequested
<1>1. Init => RunsInv /\ CleanInv /\ AskInv /\ LookupInv
  BY DEF Init, Hook!Init, Context!Init, RunsInv, ScopeInv, TargetInv, WhereInv, CleanInv,
         AskInv, LookupInv, Going, Places, Runs
<1>2. Inv /\ RunsInv /\ CleanInv /\ AskInv /\ LookupInv /\ [Next]_vars
        => RunsInv' /\ CleanInv' /\ AskInv' /\ LookupInv'
  BY RunsNext, CleanNext, AskNext, LookupNext DEF Inv
<1>3. Inv /\ RunsInv => RunsWhereRequested
  <2> SUFFICES ASSUME RunsInv, NEW t \in Threads,
                      pc[t] = [stage |-> "at_device", purpose |-> "run"]
               PROVE  /\ requested # None => target[t] = requested
                      /\ Clean => where = target[t]
    BY DEF RunsWhereRequested, Hook!RequestIsHonored, Hook!RunsWhereParametersAre, Clean
  <2>1. Places(t) /\ Runs(t)
    BY DEF Places, Runs, Going
  <2> QED  BY <2>1 DEF RunsInv, TargetInv, WhereInv, Want
<1> QED  BY <1>1, <1>2, <1>3, InvInit, InvNext, PTL DEF Spec

================================================================================
