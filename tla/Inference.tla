------------------------------ MODULE Inference ------------------------------
(***************************************************************************)
(* An array goes through a pooled model of a fixed batch size: one thread  *)
(* runs run_padded (module BatchPadding) with ExportedModel.infer (module  *)
(* HandlePool) as its infer_fn, so that every chunk takes a handle and     *)
(* gives it back, while other threads use the same model, and race for     *)
(* its handles and to build it.                                            *)
(***************************************************************************)
EXTENDS BatchPadding, FiniteSets

CONSTANTS
  Threads, Setups, Failures, None,  \* as in HandlePool
  Runner,                           \* the thread that runs run_padded
  MaxShared                         \* bound: its rows and batch size if not alone

ASSUME ThreadsAssumption == IsFiniteSet(Threads) /\ Runner \in Threads
ASSUME NoneAssumption == None \notin Threads
ASSUME SetupsAssumption ==
  Setups \subseteq [threads : SUBSET Threads, parallellism : Nat, cached : BOOLEAN]

VARIABLES setup, compiled, cache, handles, free, at, model, failed

Pool == INSTANCE HandlePool WITH size <- handles, pc <- at

poolVars == <<setup, compiled, cache, handles, free, at, model, failed>>
inferenceVars == <<vars, poolVars>>

InferenceInit ==
  /\ Init /\ Pool!Init
  /\ setup.threads # {Runner} => size <= MaxShared /\ count <= MaxShared

\* run_padded's own steps, which need no handle.
Plans == (Chunk \/ Chunked \/ Inferred \/ Join \/ Return) /\ UNCHANGED poolVars

HasChunk == pc = "inferring" /\ Len(outputs) < Len(chunks)

\* The runner calls infer_fn only with a chunk, the others at any time.
CallsInfer(t) ==
  (t = Runner => HasChunk) /\ Pool!CallsInfer(t) /\ UNCHANGED vars

\* The output of the runner's handle is its chunk's; if it raises run_padded does.
GivesOutput(t, raised) ==
  /\ Pool!PutsHandle(t, raised)
  /\ IF t # Runner THEN UNCHANGED vars
     ELSE IF raised THEN InferFails ELSE InferChunk

EndsInference(t) == \E raised \in BOOLEAN : GivesOutput(t, raised)

BuildsModel(t) == Pool!Builds(t) /\ UNCHANGED vars
GetsHandle(t) == Pool!GetsHandle(t) /\ UNCHANGED vars

InferenceNext ==
  \/ Plans
  \/ \E t \in setup.threads :
       \/ BuildsModel(t) \/ GetsHandle(t) \/ CallsInfer(t) \/ EndsInference(t)
       \/ Pool!CompilationFails(t) /\ UNCHANGED vars

\* As in HandlePool; the runner goes on with its chunks.
InferenceFairness ==
  /\ WF_inferenceVars(Plans) /\ WF_inferenceVars(CallsInfer(Runner))
  /\ \A t \in Threads :
       /\ WF_inferenceVars(BuildsModel(t)) /\ WF_inferenceVars(EndsInference(t))
       /\ SF_inferenceVars(GetsHandle(t))

InferenceSpec ==
  InferenceInit /\ [][InferenceNext]_inferenceVars /\ InferenceFairness

-----------------------------------------------------------------------------
(* Correctness *)

\* As long as no more threads use a model than the executor has, none ever waits
\* for a handle: not after a raising inference, not when threads raced to build
\* the pool (model_exporter.py:25-30, 87-94, 179-187).
WorkersNeverWait == Pool!WorkersNeverWait

\* run_padded ends, however many chunks it has and however few handles there are:
\* between its chunks it holds none, and a handle always comes back
\* (padding.py:42-48, model_exporter.py:25-30).
PaddedRunEnds == Runner \in setup.threads => <>(pc \in {"returned", "raised"})

==============================================================================
