----------------------------- MODULE HandlePool -----------------------------
(***************************************************************************)
(* The pools of inference handles of src/nam/inference/model_exporter.py,  *)
(* for one model: how threads come by the pool (make_pool, or the cached   *)
(* request pool of a compiled graph, whose two caches are looked up and    *)
(* filled without a lock) and how they use it (ExportedModel.infer).       *)
(***************************************************************************)
EXTENDS Naturals, FiniteSets, FiniteSetsExt

CONSTANTS
  Threads,   \* all threads
  Failures,  \* bound: compilations that fail
  Setups,    \* [threads, parallellism, cached], one of which Init takes
  None

VARIABLES
  setup,      \* the one taken
  compiled,   \* _COMPILED_CACHE has the graph
  cache,      \* _REQUEST_POOL_CACHE: the pool, named by the thread that filled it
  size,       \* the handles put into each pool at first
  free,       \* the handles in each pool now
  pc,         \* where each thread is
  model,      \* the pool of its ExportedModel
  failed      \* how many compilations failed

vars == <<setup, compiled, cache, size, free, pc, model, failed>>
caches == <<compiled, cache, failed>>

\* The threads that use the model, concurrency.get_parallellism(), and whether the
\* model is from export_and_compile, or else from make_pool.
Users == setup.threads
Parallellism == setup.parallellism
Cached == setup.cached

TypeOK ==
  /\ setup \in Setups
  /\ compiled \in BOOLEAN
  /\ cache \in Threads \cup {None}
  /\ size \in [Threads -> Nat]
  /\ free \in [Threads -> Nat]
  /\ pc \in [Threads -> {"new", "compiling", "looking", "filling", "filled", "ready",
                         "waiting", "inferring"}]
  /\ model \in [Threads -> Threads \cup {None}]
  /\ failed \in 0..Failures

Init ==
  /\ setup \in Setups
  /\ compiled = FALSE /\ cache = None
  /\ size = [t \in Threads |-> 0] /\ free = [t \in Threads |-> 0]
  /\ pc = [t \in Threads |-> "new"]
  /\ model = [t \in Threads |-> None]
  /\ failed = 0

Goto(t, stage) == pc' = [pc EXCEPT ![t] = stage]

AtLeastOne(n) == IF n > 1 THEN n ELSE 1

\* A new pool with n handles.
Fill(t, n) ==
  /\ size' = [size EXCEPT ![t] = n]
  /\ free' = [free EXCEPT ![t] = n]

-----------------------------------------------------------------------------
(* make_pool *)

\* One thread loads the model, which all of them then use: the base handle and
\* its copies.
MakePool(t) ==
  /\ ~Cached /\ \A u \in Threads : pc[u] = "new"
  /\ Fill(t, 1 + AtLeastOne(Parallellism - 1))
  /\ model' = [u \in Threads |-> t]
  /\ pc' = [u \in Threads |-> "ready"]
  /\ UNCHANGED <<setup, caches>>

-----------------------------------------------------------------------------
(* export_and_compile *)

LooksForGraph(t) ==
  /\ Cached /\ pc[t] = "new"
  /\ Goto(t, IF compiled THEN "looking" ELSE "compiling")
  /\ UNCHANGED <<setup, caches, size, free, model>>

\* The compilation fails: export_and_compile returns None; the caller may
\* come back.
CompilationFails(t) ==
  /\ pc[t] = "compiling" /\ failed < Failures
  /\ failed' = failed + 1
  /\ Goto(t, "new")
  /\ UNCHANGED <<setup, compiled, cache, size, free, model>>

Compiles(t) ==
  /\ pc[t] = "compiling"
  /\ compiled' = TRUE
  /\ Goto(t, "looking")
  /\ UNCHANGED <<setup, cache, failed, size, free, model>>

LooksForPool(t) ==
  /\ pc[t] = "looking"
  /\ Goto(t, IF cache = None THEN "filling" ELSE "filled")
  /\ UNCHANGED <<setup, caches, size, free, model>>

FillsPool(t) ==
  /\ pc[t] = "filling"
  /\ Fill(t, AtLeastOne(Parallellism))
  /\ cache' = t
  /\ Goto(t, "filled")
  /\ UNCHANGED <<setup, compiled, failed, model>>

\* The pool it returns is the one that is cached by now.
ReturnsPool(t) ==
  /\ pc[t] = "filled"
  /\ model' = [model EXCEPT ![t] = cache]
  /\ Goto(t, "ready")
  /\ UNCHANGED <<setup, caches, size, free>>

-----------------------------------------------------------------------------
(* ExportedModel.infer *)

CallsInfer(t) ==
  /\ pc[t] = "ready"
  /\ Goto(t, "waiting")
  /\ UNCHANGED <<setup, caches, size, free, model>>

\* pool.get() blocks while there is none.
GetsHandle(t) ==
  /\ pc[t] = "waiting" /\ free[model[t]] > 0
  /\ free' = [free EXCEPT ![model[t]] = @ - 1]
  /\ Goto(t, "inferring")
  /\ UNCHANGED <<setup, caches, size, model>>

\* Slip: a raising infer() keeps its handle.
PutsHandleIfFine(t, raised) ==
  /\ pc[t] = "inferring"
  /\ free' = IF raised THEN free ELSE [free EXCEPT ![model[t]] = @ + 1]
  /\ Goto(t, "ready")
  /\ UNCHANGED <<setup, caches, size, model>>

\* Slip: it goes back to the pool that is cached by now.
PutsHandleInCached(t, raised) ==
  /\ pc[t] = "inferring"
  /\ free' = [free EXCEPT ![cache] = @ + 1]
  /\ Goto(t, "ready")
  /\ UNCHANGED <<setup, caches, size, model>>

\* The handle goes back, whether its infer() returned or raised.
PutsHandle(t, raised) ==
  /\ pc[t] = "inferring"
  /\ free' = [free EXCEPT ![model[t]] = @ + 1]
  /\ Goto(t, "ready")
  /\ UNCHANGED <<setup, caches, size, model>>

-----------------------------------------------------------------------------

Builds(t) ==
  MakePool(t) \/ LooksForGraph(t) \/ Compiles(t) \/ LooksForPool(t)
  \/ FillsPool(t) \/ ReturnsPool(t)

EndsInference(t) == \E raised \in BOOLEAN : PutsHandle(t, raised)

Next ==
  \E t \in Users :
    Builds(t) \/ CompilationFails(t) \/ CallsInfer(t) \/ GetsHandle(t) \/ EndsInference(t)

\* Inferences end, and a thread that waits for a handle is not passed over for
\* ever.
Fairness ==
  \A t \in Threads :
    WF_vars(Builds(t)) /\ WF_vars(EndsInference(t)) /\ SF_vars(GetsHandle(t))

Spec == Init /\ [][Next]_vars /\ Fairness

-----------------------------------------------------------------------------
(* Correctness *)

\* As long as no more threads use a model than the executor has, none ever waits
\* for a handle: not after a raising inference, not when threads raced to build
\* the pool (model_exporter.py:25-30, 87-94, 179-187).
WorkersNeverWait ==
  Cardinality(Users) <= Parallellism =>
    \A t \in Users : pc[t] \in {"ready", "waiting"} => free[model[t]] > 0

-----------------------------------------------------------------------------
(* What the docs say, and the code does not do *)

\* What docs/feature_inference_acceleration.md says: pool sizes are always set to
\* get_parallellism().
PoolSizeIsParallellism ==
  \A t \in Threads : size[t] # 0 => size[t] = Parallellism

\* The same of a compiled model: all its handles together.
ModelSizeIsParallellism ==
  MapThenSumSet(LAMBDA t : size[t], Threads) \in {0, Parallellism}

=============================================================================
