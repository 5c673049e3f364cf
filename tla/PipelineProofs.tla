--------------------------- MODULE PipelineProofs ---------------------------
(***************************************************************************)
(* Proofs about module Pipeline, for any number of orchestrators, frames,  *)
(* layers and any handlers: an orchestrator whose frames all come back has *)
(* a window that counts its frames in flight; no frame overtakes at the    *)
(* gate of a contiguous layer; no handler has a frame whose userdata was   *)
(* cleared; and every step of the pipeline is one the caller was promised, *)
(* or none that it sees.                                                   *)
(***************************************************************************)
EXTENDS Pipeline, FiniteSetTheorems, TLAPS

\* Where a frame is tells how far it has come and whom it was given to.
StageInv ==
  \A f \in Frames :
    /\ stage[f] = "interim" => at[f] = 1
    /\ stage[f] # "interim" => f \in setup.fed
    /\ stage[f] \in {"arriving", "waiting", "running", "advancing"} => at[f] <= Finish
    /\ stage[f] = "dropped" => at[f] <= Depth
    /\ stage[f] \in {"finishing", "aborting", "ready"} => at[f] = Finish /\ f \in readied
    /\ stage[f] \in {"advancing", "discarded"} <=> f \in rejected
    /\ f \in readied => stage[f] \in {"finishing", "aborting", "ready", "discarded"}

\* Frames of an owner that has all of its frames returned come to no other end.
ReturnInv ==
  \A f \in Frames : Returned(f.owner) => stage[f] \notin {"aborting", "dropped"}

\* A gate that is never opened again from behind.
Gate(l) == Contiguous(l) /\ l \notin setup.retryable

\* A gate has let none pass that its backlog does not count ...
CountedInv ==
  \A l \in Layers, f \in Frames :
    Gate(l) /\ Past(l, f) /\ f \notin rejected => f.index <= backlog[l][f.owner]

\* ... and counts none that has neither passed nor been discarded.
PassedInv ==
  \A l \in Layers, f \in Frames :
    Gate(l) /\ f.index <= backlog[l][f.owner] => Past(l, f) \/ f \in rejected

\* A frame loses its userdata to a successor that the finish layer let in after it.
BlankInv ==
  \A g \in blank : Past(Finish, g) \/ g \in rejected

GateInv == CountedInv /\ PassedInv

PipelineInv ==
  TypeOK /\ StageInv /\ ReturnInv /\ GateInv /\ BlankInv /\ WindowMatchesFlight

-----------------------------------------------------------------------------
(* Frames and layers *)

LEMMA LayerFacts ==
  /\ Finish = Depth + 1 /\ Depth \in Nat /\ Finish \in Nat
  /\ Layers = 1..Finish /\ Finish \in Layers
  BY DepthAssumption DEF Finish, Layers

LEMMA FrameFacts ==
  ASSUME NEW f \in Frames
  PROVE  f.owner \in Owners /\ f.index \in 0..MaxIndex /\ f.index \in Nat
  BY IndexAssumption DEF Frames

LEMMA SameFrame ==
  ASSUME NEW f \in Frames, NEW g \in Frames, f.owner = g.owner, f.index = g.index
  PROVE  f = g
  BY DEF Frames

LEMMA EarlierFacts ==
  ASSUME NEW f \in Frames
  PROVE  \A g : g \in Earlier(f) <=> g \in Frames /\ g.owner = f.owner /\ g.index < f.index
  BY DEF Earlier

LEMMA FramesFinite == IsFiniteSet(Frames)
<1> DEFINE P == Owners \X (0..MaxIndex)
           frame == [p \in P |-> [owner |-> p[1], index |-> p[2]]]
<1>1. IsFiniteSet(P)
  <2>1. IsFiniteSet(0..MaxIndex)
    BY IndexAssumption, FS_Interval
  <2>2. IsFiniteSet(Owners)
    BY OwnersAssumption
  <2> HIDE DEF P
  <2> QED  BY <2>1, <2>2, FS_Product DEF P
<1>2. frame \in Surjection(P, Frames)
  <2>1. frame \in [P -> Frames]
    BY DEF Frames
  <2>2. ASSUME NEW f \in Frames PROVE \E p \in P : frame[p] = f
    <3>1. <<f.owner, f.index>> \in P /\ f = [owner |-> f.owner, index |-> f.index]
      BY DEF Frames
    <3> QED  BY <3>1
  <2> QED  BY <2>1, <2>2 DEF Surjection
<1> QED  BY <1>1, <1>2, FS_Surjection

LEMMA FrameSets ==
  ASSUME NEW F \in SUBSET Frames
  PROVE  IsFiniteSet(F) /\ Cardinality(F) \in Nat
  BY FramesFinite, FS_Subset, FS_CardinalityType

LEMMA SetupFacts ==
  ASSUME setup \in Setups
  PROVE  /\ setup.retryable \subseteq 1..Depth
         /\ Finish \notin setup.retryable
         /\ setup.retries \in Nat
  BY SetupsAssumption, LayerFacts

-----------------------------------------------------------------------------
(* Types and stages *)

\* A step takes one frame from its stage to another, or a batch of one owner.
LEMMA TypeInit == Init => TypeOK /\ StageInv
<1> SUFFICES ASSUME Init PROVE TypeOK /\ StageInv
  OBVIOUS
<1>1. TypeOK
  BY SetupFacts, LayerFacts, IndexAssumption DEF Init, TypeOK, Stages
<1>2. StageInv
  BY LayerFacts DEF Init, StageInv
<1> QED  BY <1>1, <1>2

LEMMA TypeStep ==
  ASSUME TypeOK, StageInv, [Next]_vars
  PROVE  TypeOK'
<1> USE LayerFacts
<1>1. setup \in Setups /\ setup.retries \in Nat
  BY SetupFacts DEF TypeOK
<1>2. ASSUME NEW f \in Frames, Start(f) PROVE TypeOK'
  BY <1>2, FrameFacts DEF Start, Move, TypeOK, Stages, outcomes
<1>3. ASSUME NEW f \in Frames, Admit(f) PROVE TypeOK'
  <2> DEFINE l == at[f]
             o == f.owner
  <2>1. l \in Layers /\ o \in Owners /\ f.index \in -1..MaxIndex
    BY <1>3, FrameFacts, IndexAssumption DEF Admit, Enters, StageInv, TypeOK
  <2>2. [backlog EXCEPT ![l] = [backlog[l] EXCEPT ![o] = f.index]]
          \in [Layers -> [Owners -> -1..MaxIndex]]
    BY <2>1 DEF TypeOK
  <2>3. backlog' \in [Layers -> [Owners -> -1..MaxIndex]]
    BY <1>3, <2>2 DEF Admit, Enters, TypeOK
  <2> QED  BY <1>3, <2>3 DEF Admit, Enters, Move, TypeOK, Stages, outcomes
<1>4. ASSUME NEW f \in Frames, Begin(f) PROVE TypeOK'
  BY <1>4 DEF Begin, Move, TypeOK, Stages, outcomes
<1>5. ASSUME NEW f \in Frames, Handle(f) PROVE TypeOK'
  <2>1. AtHandler(f) /\ at[f] \in 1..Depth
    BY <1>5 DEF Handle, Forward, Discard, Retry, DropSilently, AtHandler, StageInv, TypeOK
  <2>2. CASE Forward(f)
    BY <2>1, <2>2 DEF Forward, Move, TypeOK, Stages, outcomes
  <2>3. CASE Discard(f)
    <3>1. windowSize' \in [Owners -> Int]
      <4>1. Cardinality({f}) = 1
        BY FS_Singleton
      <4> QED  BY <2>3, <4>1, FrameFacts DEF Discard, Tear, TypeOK
    <3> QED  BY <2>1, <2>3, <3>1 DEF Discard, Move, TypeOK, Stages
  <2>4. CASE Retry(f)
    BY <2>1, <2>4, <1>1 DEF Retry, Move, TypeOK, Stages, outcomes
  <2>5. CASE DropSilently(f)
    BY <2>1, <2>5 DEF DropSilently, Move, TypeOK, Stages, outcomes
  <2> QED  BY <1>5, <2>2, <2>3, <2>4, <2>5 DEF Handle
<1>6. ASSUME NEW f \in Frames, Advance(f) PROVE TypeOK'
  <2> DEFINE l == at[f]
             o == f.owner
  <2>1. l \in Layers /\ o \in Owners /\ f.index \in -1..MaxIndex
    BY <1>6, FrameFacts, IndexAssumption DEF Advance, StageInv, TypeOK
  <2>2. [backlog EXCEPT ![l] = [backlog[l] EXCEPT ![o] = f.index]]
          \in [Layers -> [Owners -> -1..MaxIndex]]
    BY <2>1 DEF TypeOK
  <2>3. backlog' \in [Layers -> [Owners -> -1..MaxIndex]]
    BY <1>6, <2>2 DEF Advance, TypeOK
  <2>4. stage' \in [Frames -> Stages]
    BY <1>6 DEF Advance, Move, TypeOK, Stages
  <2>5. at' \in [Frames -> 1..(Finish + 1)]
    BY <1>6, <2>1 DEF Advance, TypeOK
  <2>6. UNCHANGED <<setup, windowSize, blank, readied, rejected, retries>>
    BY <1>6 DEF Advance, outcomes
  <2> QED  BY <2>3, <2>4, <2>5, <2>6 DEF TypeOK
<1>7. ASSUME NEW o \in Owners, NEW F \in SUBSET {f \in Frames : f.owner = o},
             FinishStep(o, F)
      PROVE  TypeOK'
  <2>1. Cardinality(F) \in Nat /\ F \subseteq Frames
    <3>1. F \in SUBSET Frames
      OBVIOUS
    <3> QED  BY <3>1, FrameSets
  <2>2. \A s \in Stages : MoveAll(F, s) => stage' \in [Frames -> Stages]
    BY DEF MoveAll, TypeOK
  <2>3. CASE FinishCall(o, F)
    <3>1. stage' \in [Frames -> Stages]
      BY <2>2, <2>3 DEF FinishCall, Stages
    <3> QED  BY <2>1, <2>3, <3>1 DEF FinishCall, TypeOK
  <2>4. CASE FinishAbort(o, F)
    <3>1. stage' \in [Frames -> Stages]
      BY <2>2, <2>4 DEF FinishAbort, Stages
    <3> QED  BY <2>1, <2>4, <3>1 DEF FinishAbort, Tear, TypeOK
  <2>5. ASSUME NEW raises \in BOOLEAN, FinishTear(o, F, raises) PROVE TypeOK'
    <3>1. stage' \in [Frames -> Stages]
      <4>1. (IF raises THEN "aborting" ELSE "ready") \in Stages
        BY DEF Stages
      <4> QED  BY <2>2, <2>5, <4>1 DEF FinishTear
    <3> QED  BY <2>1, <2>5, <3>1 DEF FinishTear, Tear, TypeOK
  <2> QED  BY <1>7, <2>3, <2>4, <2>5 DEF FinishStep
<1>8. CASE UNCHANGED vars
  BY <1>8 DEF vars, TypeOK
<1> QED  BY <1>2, <1>3, <1>4, <1>5, <1>6, <1>7, <1>8 DEF Next, Finishes

\* The frames that a step of the finish handler is about.
LEMMA FinishBatch ==
  ASSUME TypeOK, NEW o \in Owners, NEW F \in SUBSET {f \in Frames : f.owner = o},
         FinishStep(o, F)
  PROVE  /\ F \subseteq Frames /\ F # {}
         /\ \A f \in F : f.owner = o
         /\ setup' = setup /\ at' = at /\ backlog' = backlog
         /\ \A f \in Frames \ F : stage'[f] = stage[f]
         /\ \/ /\ \A f \in F : stage[f] = "running" /\ at[f] = Finish
               /\ \A f \in F : stage'[f] = "finishing"
               /\ readied' = readied \cup F /\ rejected' = rejected /\ blank' = blank
               /\ windowSize' = windowSize
            \/ /\ \A f \in F : stage[f] = "finishing"
               /\ \/ \A f \in F : stage'[f] = "ready"
                  \/ o \in setup.raising /\ \A f \in F : stage'[f] = "aborting"
               /\ readied' = readied /\ rejected' = rejected
               /\ blank' = blank \cup {g \in Frames :
                                         \E f \in F : g.owner = o /\ g.index = f.index - 1}
               /\ Tear(o, F)
            \/ /\ \A f \in F : stage[f] = "aborting"
               /\ \A f \in F : stage'[f] = "discarded"
               /\ readied' = readied /\ rejected' = rejected \cup F /\ blank' = blank
               /\ Tear(o, F)
<1>1. F \subseteq Frames /\ \A f \in F : f.owner = o
  OBVIOUS
<1>2. CASE FinishCall(o, F)
  BY <1>1, <1>2 DEF FinishCall, MoveAll, AtFinish, InStage
<1>3. CASE FinishAbort(o, F)
  BY <1>1, <1>3 DEF FinishAbort, MoveAll, InStage
<1>4. ASSUME NEW raises \in BOOLEAN, FinishTear(o, F, raises)
      PROVE  /\ F # {} /\ setup' = setup /\ at' = at /\ backlog' = backlog
             /\ \A f \in Frames \ F : stage'[f] = stage[f]
             /\ \A f \in F : stage[f] = "finishing"
             /\ \/ \A f \in F : stage'[f] = "ready"
                \/ o \in setup.raising /\ \A f \in F : stage'[f] = "aborting"
             /\ readied' = readied /\ rejected' = rejected
             /\ blank' = blank \cup {g \in Frames :
                                       \E f \in F : g.owner = o /\ g.index = f.index - 1}
             /\ Tear(o, F)
  BY <1>1, <1>4 DEF FinishTear, MoveAll, InStage
<1>5. FinishCall(o, F) \/ FinishAbort(o, F) \/ \E raises \in BOOLEAN : FinishTear(o, F, raises)
  BY DEF FinishStep
<1> QED  BY <1>1, <1>2, <1>3, <1>4, <1>5

LEMMA StageStep ==
  ASSUME TypeOK, StageInv, [Next]_vars
  PROVE  StageInv'
<1> USE LayerFacts
<1>1. ASSUME NEW f \in Frames, Start(f) PROVE StageInv'
  BY <1>1 DEF Start, Move, TypeOK, StageInv, outcomes
<1>2. ASSUME NEW f \in Frames, Admit(f) PROVE StageInv'
  BY <1>2 DEF Admit, Enters, Move, TypeOK, StageInv, outcomes
<1>3. ASSUME NEW f \in Frames, Begin(f) PROVE StageInv'
  BY <1>3 DEF Begin, Move, TypeOK, StageInv, outcomes
<1>4. ASSUME NEW f \in Frames, Handle(f) PROVE StageInv'
  <2>1. AtHandler(f) /\ at[f] \in 1..Depth
    BY <1>4 DEF Handle, Forward, Discard, Retry, DropSilently, AtHandler, StageInv, TypeOK
  <2>2. CASE Forward(f)
    BY <2>1, <2>2 DEF Forward, AtHandler, Move, TypeOK, StageInv, outcomes
  <2>3. CASE Discard(f)
    BY <2>1, <2>3 DEF Discard, AtHandler, Move, TypeOK, StageInv
  <2>4. CASE Retry(f)
    BY <2>1, <2>4 DEF Retry, AtHandler, Move, TypeOK, StageInv, outcomes
  <2>5. CASE DropSilently(f)
    BY <2>1, <2>5 DEF DropSilently, AtHandler, Move, TypeOK, StageInv, outcomes
  <2> QED  BY <1>4, <2>2, <2>3, <2>4, <2>5 DEF Handle
<1>5. ASSUME NEW f \in Frames, Advance(f) PROVE StageInv'
  <2>1. at[f] \in 1..Finish /\ stage[f] = "advancing"
    BY <1>5 DEF Advance, StageInv, TypeOK
  <2>2. CASE at[f] = Finish
    BY <1>5, <2>1, <2>2 DEF Advance, Move, TypeOK, StageInv, outcomes
  <2>3. CASE at[f] # Finish
    BY <1>5, <2>1, <2>3 DEF Advance, Move, TypeOK, StageInv, outcomes
  <2> QED  BY <2>2, <2>3
<1>6. ASSUME NEW o \in Owners, NEW F \in SUBSET {f \in Frames : f.owner = o},
             FinishStep(o, F)
      PROVE  StageInv'
  <2> SUFFICES ASSUME NEW f \in Frames
               PROVE  /\ stage'[f] = "interim" => at'[f] = 1
                      /\ stage'[f] # "interim" => f \in setup'.fed
                      /\ stage'[f] \in {"arriving", "waiting", "running", "advancing"}
                           => at'[f] <= Finish
                      /\ stage'[f] = "dropped" => at'[f] <= Depth
                      /\ stage'[f] \in {"finishing", "aborting", "ready"}
                           => at'[f] = Finish /\ f \in readied'
                      /\ stage'[f] \in {"advancing", "discarded"} <=> f \in rejected'
                      /\ f \in readied'
                           => stage'[f] \in {"finishing", "aborting", "ready", "discarded"}
    BY DEF StageInv
  <2> QED  BY <1>6, FinishBatch DEF StageInv
<1>7. CASE UNCHANGED vars
  BY <1>7 DEF vars, StageInv
<1> QED  BY <1>1, <1>2, <1>3, <1>4, <1>5, <1>6, <1>7 DEF Next, Finishes

LEMMA SetupStays ==
  ASSUME [Next]_vars
  PROVE  setup' = setup
  BY DEF Next, Finishes, FinishStep, Start, Admit, Enters, Begin, Handle, Forward, Discard,
     Retry, DropSilently, Advance, FinishCall, FinishTear, FinishAbort, vars

\* Frames of an owner whose frames all come back are neither left out nor aborted.
LEMMA ReturnStep ==
  ASSUME TypeOK, StageInv, ReturnInv, [Next]_vars
  PROVE  ReturnInv'
<1>1. setup' = setup
  BY SetupStays
<1>2. SUFFICES ASSUME NEW g \in Frames, Returned(g.owner)
               PROVE  stage'[g] \notin {"aborting", "dropped"}
  BY <1>1 DEF ReturnInv, Returned, Droppable
<1>3. stage[g] \notin {"aborting", "dropped"}
  BY <1>2 DEF ReturnInv
<1>4. g \notin Droppable /\ g.owner \notin setup.raising
  BY <1>2 DEF Returned
<1>5. ASSUME NEW f \in Frames,
             Start(f) \/ Admit(f) \/ Begin(f) \/ Handle(f) \/ Advance(f)
      PROVE  stage'[g] \notin {"aborting", "dropped"}
  BY <1>3, <1>4, <1>5
     DEF Start, Admit, Enters, Begin, Handle, Forward, Discard, Retry, DropSilently, Advance,
         Move, TypeOK
<1>6. ASSUME NEW o \in Owners, NEW F \in SUBSET {f \in Frames : f.owner = o},
             FinishStep(o, F)
      PROVE  stage'[g] \notin {"aborting", "dropped"}
  BY <1>3, <1>4, <1>6, FinishBatch
<1>7. CASE UNCHANGED vars
  BY <1>3, <1>7 DEF vars
<1> QED  BY <1>5, <1>6, <1>7 DEF Next, Finishes

-----------------------------------------------------------------------------
(* Gates *)

LEMMA OutcomesStay ==
  ASSUME TypeOK, [Next]_vars
  PROVE  rejected \subseteq rejected' /\ readied \subseteq readied'
  BY DEF Next, Finishes, FinishStep, Start, Admit, Enters, Begin, Handle, Forward, Discard,
     Retry, DropSilently, Advance, FinishCall, FinishTear, FinishAbort, vars, outcomes

\* What one step does at the gate of layer l: a frame that was past stays past,
\* a frame is newly past in its turn or as a discarded one, and the backlog
\* moves on for the one frame that takes its turn.
Passes(l, f) ==
  f.index = backlog[l][f.owner] + 1 /\ (Past(l, f)' \/ f \in rejected)

GateMoves(l, f) ==
  /\ backlog'[l][f.owner] = f.index
  /\ \A o \in Owners \ {f.owner} : backlog'[l][o] = backlog[l][o]

LEMMA AtGate ==
  ASSUME TypeOK, StageInv, [Next]_vars, NEW l \in Layers, Gate(l)
  PROVE  /\ \A f \in Frames : Past(l, f) => Past(l, f)'
         /\ \/ /\ backlog'[l] = backlog[l]
               /\ \A f \in Frames : Past(l, f)' => Past(l, f) \/ f \in rejected'
            \/ \E f \in Frames :
                 /\ Passes(l, f) /\ GateMoves(l, f)
                 /\ \A g \in Frames \ {f} : Past(l, g)' => Past(l, g) \/ g \in rejected'
<1> USE LayerFacts
<1> DEFINE Kept == \A f \in Frames : Past(l, f) => Past(l, f)'
           Shut == /\ backlog'[l] = backlog[l]
                   /\ \A f \in Frames : Past(l, f)' => Past(l, f) \/ f \in rejected'
           Opens(f) == /\ Passes(l, f) /\ GateMoves(l, f)
                       /\ \A g \in Frames \ {f} : Past(l, g)' => Past(l, g) \/ g \in rejected'
<1> SUFFICES Kept /\ (Shut \/ \E f \in Frames : Opens(f))
  OBVIOUS
<1>1. Contiguous(l) /\ l \notin setup.retryable /\ l \in 1..Finish
  BY DEF Gate
<1>2. ASSUME NEW f \in Frames, Start(f) PROVE Kept /\ Shut
  BY <1>1, <1>2 DEF Start, Move, TypeOK, StageInv, Past, outcomes
<1>3. ASSUME NEW f \in Frames, Admit(f) PROVE Kept /\ (Shut \/ Opens(f))
  <2>1. Kept /\ \A g \in Frames \ {f} : Past(l, g)' => Past(l, g) \/ g \in rejected'
    BY <1>1, <1>3 DEF Admit, Enters, Move, TypeOK, StageInv, Past, outcomes
  <2>2. at[f] \in Layers /\ f.owner \in Owners
    BY <1>3, FrameFacts DEF Admit, Enters, StageInv, TypeOK
  <2>3. CASE at[f] = l
    <3>1. f.index = backlog[l][f.owner] + 1
      BY <1>1, <1>3, <2>3 DEF Admit, Enters, Reached
    <3>2. Past(l, f)'
      BY <1>3, <2>3 DEF Admit, Enters, Move, TypeOK, Past
    <3>3. GateMoves(l, f)
      BY <1>1, <1>3, <2>2, <2>3 DEF Admit, Enters, TypeOK, GateMoves
    <3> QED  BY <2>1, <3>1, <3>2, <3>3 DEF Passes
  <2>4. CASE at[f] # l
    <3>1. backlog'[l] = backlog[l]
      BY <1>3, <2>2, <2>4 DEF Admit, Enters, TypeOK
    <3>2. Past(l, f)' => Past(l, f)
      BY <1>1, <1>3, <2>2, <2>4 DEF Admit, Enters, Move, TypeOK, Past
    <3> QED  BY <2>1, <3>1, <3>2
  <2> QED  BY <2>3, <2>4
<1>4. ASSUME NEW f \in Frames, Begin(f) PROVE Kept /\ Shut
  BY <1>1, <1>4 DEF Begin, Move, TypeOK, StageInv, Past, outcomes
<1>5. ASSUME NEW f \in Frames, Handle(f) PROVE Kept /\ Shut
  <2>1. AtHandler(f) /\ at[f] \in 1..Depth
    BY <1>5 DEF Handle, Forward, Discard, Retry, DropSilently, AtHandler, StageInv, TypeOK
  <2>2. CASE Forward(f)
    BY <1>1, <2>1, <2>2 DEF Forward, AtHandler, Move, TypeOK, StageInv, Past, outcomes
  <2>3. CASE Discard(f)
    BY <1>1, <2>1, <2>3 DEF Discard, AtHandler, Move, TypeOK, StageInv, Past
  <2>4. CASE Retry(f)
    BY <1>1, <2>1, <2>4 DEF Retry, AtHandler, Move, TypeOK, StageInv, Past, outcomes
  <2>5. CASE DropSilently(f)
    BY <1>1, <2>1, <2>5 DEF DropSilently, AtHandler, Move, TypeOK, StageInv, Past, outcomes
  <2> QED  BY <1>5, <2>2, <2>3, <2>4, <2>5 DEF Handle
<1>6. ASSUME NEW f \in Frames, Advance(f) PROVE Kept /\ (Shut \/ Opens(f))
  <2>1. at[f] \in Layers /\ f.owner \in Owners /\ stage[f] = "advancing" /\ f \in rejected
    BY <1>6, FrameFacts DEF Advance, StageInv, TypeOK
  <2>2. stage'[f] # "interim" /\ \A g \in Frames \ {f} : stage'[g] = stage[g]
    BY <1>6, <2>1 DEF Advance, Move, TypeOK
  <2>3. at'[f] = at[f] + 1 /\ \A g \in Frames \ {f} : at'[g] = at[g]
    BY <1>6 DEF Advance, TypeOK
  <2>4. rejected' = rejected
    BY <1>6 DEF Advance, outcomes
  <2>5. Kept /\ \A g \in Frames : Past(l, g)' => Past(l, g) \/ g \in rejected'
    BY <1>1, <2>1, <2>2, <2>3, <2>4 DEF Past
  <2>6. CASE at[f] = l /\ f.index = backlog[l][f.owner] + 1
    <3>1. GateMoves(l, f)
      BY <1>1, <1>6, <2>1, <2>6 DEF Advance, TypeOK, GateMoves
    <3> QED  BY <2>1, <2>5, <2>6, <3>1 DEF Passes
  <2>7. CASE ~(at[f] = l /\ f.index = backlog[l][f.owner] + 1)
    <3>1. backlog'[l] = backlog[l]
      BY <1>6, <2>1, <2>7 DEF Advance, TypeOK
    <3> QED  BY <2>5, <3>1
  <2> QED  BY <2>6, <2>7
<1>7. ASSUME NEW o \in Owners, NEW F \in SUBSET {f \in Frames : f.owner = o},
             FinishStep(o, F)
      PROVE  Kept /\ Shut
  <2>1. \A f \in Frames : /\ at'[f] = at[f]
                          /\ stage'[f] = "interim" <=> stage[f] = "interim"
                          /\ stage'[f] = "arriving" <=> stage[f] = "arriving"
    BY <1>7, FinishBatch
  <2>2. backlog' = backlog
    BY <1>7, FinishBatch
  <2> QED  BY <2>1, <2>2 DEF Past
<1>8. CASE UNCHANGED vars
  BY <1>8 DEF vars, Past
<1> QED  BY <1>2, <1>3, <1>4, <1>5, <1>6, <1>7, <1>8 DEF Next, Finishes

LEMMA GateInit == Init => GateInv
<1> SUFFICES ASSUME Init PROVE GateInv
  OBVIOUS
<1>1. \A l \in Layers, f \in Frames : ~ Past(l, f)
  BY DEF Init, Past
<1>2. \A l \in Layers, f \in Frames : ~ (f.index <= backlog[l][f.owner])
  BY FrameFacts DEF Init
<1> QED  BY <1>1, <1>2 DEF GateInv, CountedInv, PassedInv

LEMMA GateStep ==
  ASSUME TypeOK, StageInv, GateInv, [Next]_vars
  PROVE  GateInv'
<1>1. setup' = setup /\ rejected \subseteq rejected'
  BY SetupStays, OutcomesStay
<1>2. SUFFICES ASSUME NEW l \in Layers, NEW g \in Frames, Gate(l)
               PROVE  /\ Past(l, g)' /\ g \notin rejected'
                           => g.index <= backlog'[l][g.owner]
                      /\ g.index <= backlog'[l][g.owner] => Past(l, g)' \/ g \in rejected'
  BY <1>1 DEF GateInv, CountedInv, PassedInv, Gate, Contiguous
<1>3. /\ Past(l, g) /\ g \notin rejected => g.index <= backlog[l][g.owner]
      /\ g.index <= backlog[l][g.owner] => Past(l, g) \/ g \in rejected
  BY <1>2 DEF GateInv, CountedInv, PassedInv
<1>4. Past(l, g) => Past(l, g)'
  BY <1>2, AtGate
<1>5. CASE /\ backlog'[l] = backlog[l]
           /\ Past(l, g)' => Past(l, g) \/ g \in rejected'
  BY <1>1, <1>3, <1>4, <1>5
<1>6. ASSUME NEW f \in Frames, Passes(l, f), GateMoves(l, f),
             \A h \in Frames \ {f} : Past(l, h)' => Past(l, h) \/ h \in rejected'
      PROVE  /\ Past(l, g)' /\ g \notin rejected' => g.index <= backlog'[l][g.owner]
             /\ g.index <= backlog'[l][g.owner] => Past(l, g)' \/ g \in rejected'
  <2>1. f.index = backlog[l][f.owner] + 1 /\ backlog'[l][f.owner] = f.index
    BY <1>6 DEF Passes, GateMoves
  <2>2. g.index \in Int /\ g.owner \in Owners /\ f.index \in Int
        /\ backlog[l][g.owner] \in Int /\ backlog[l][f.owner] \in Int
    BY FrameFacts DEF TypeOK
  <2>3. CASE g = f
    BY <1>1, <1>6, <2>1, <2>2, <2>3 DEF Passes
  <2>4. CASE g # f /\ g.owner = f.owner
    <3>1. g.index # f.index
      BY <2>4, SameFrame
    <3> QED  BY <1>1, <1>3, <1>4, <1>6, <2>1, <2>2, <2>4, <3>1
  <2>5. CASE g.owner # f.owner
    <3>1. backlog'[l][g.owner] = backlog[l][g.owner]
      BY <1>6, <2>2, <2>5 DEF GateMoves
    <3> QED  BY <1>1, <1>3, <1>4, <1>6, <2>5, <3>1
  <2> QED  BY <2>3, <2>4, <2>5
<1> QED  BY <1>2, <1>5, <1>6, AtGate

\* Past a gate and not discarded, a frame has all earlier ones past it or discarded.
LEMMA GateOrders ==
  ASSUME TypeOK, GateInv
  PROVE  OrderAtGates
<1> SUFFICES ASSUME NEW l \in Layers, Gate(l), NEW f \in Frames, Past(l, f), f \notin rejected,
                    NEW g \in Earlier(f)
             PROVE  Past(l, g) \/ g \in rejected
  BY DEF OrderAtGates, Gate
<1>1. g \in Frames /\ g.owner = f.owner /\ g.index < f.index
  BY EarlierFacts
<1>2. f.index <= backlog[l][f.owner]
  BY DEF GateInv, CountedInv
<1>3. g.index <= backlog[l][g.owner]
  <2>1. g.index \in Int /\ f.index \in Int /\ backlog[l][f.owner] \in Int
    BY <1>1, FrameFacts DEF TypeOK
  <2> QED  BY <1>1, <1>2, <2>1
<1> QED  BY <1>1, <1>3 DEF GateInv, PassedInv

-----------------------------------------------------------------------------
(* The finish layer *)

LEMMA FinishIsGate == TypeOK => Gate(Finish)
  BY SetupFacts DEF TypeOK, Gate, Contiguous

\* Steps other than those of the finish handler clear no userdata.
LEMMA OthersClearNothing ==
  ASSUME NEW f \in Frames, Start(f) \/ Admit(f) \/ Begin(f) \/ Handle(f) \/ Advance(f)
  PROVE  blank' = blank
  BY DEF Start, Admit, Enters, Begin, Handle, Forward, Discard, Retry, DropSilently, Advance,
         outcomes

\* A frame that is being finished came through the finish layer's gate, and so did its
\* predecessor unless it was discarded.
LEMMA PredecessorIsPast ==
  ASSUME TypeOK, StageInv, GateInv, NEW f \in Frames, stage[f] = "finishing",
         NEW g \in Frames, g.owner = f.owner, g.index = f.index - 1
  PROVE  Past(Finish, g) \/ g \in rejected
<1>1. Past(Finish, f) /\ f \notin rejected
  BY LayerFacts DEF StageInv, Past
<1>2. g \in Earlier(f)
  BY FrameFacts, EarlierFacts
<1> QED  BY <1>1, <1>2, GateOrders, FinishIsGate, LayerFacts DEF OrderAtGates, Gate

LEMMA BlankStep ==
  ASSUME TypeOK, StageInv, GateInv, BlankInv, [Next]_vars
  PROVE  BlankInv'
<1>1. /\ rejected \subseteq rejected'
      /\ \A g \in Frames : Past(Finish, g) => Past(Finish, g)'
  BY OutcomesStay, AtGate, FinishIsGate, LayerFacts
<1>2. SUFFICES ASSUME NEW g \in blank' \ blank PROVE Past(Finish, g) \/ g \in rejected
  <2>1. blank \subseteq Frames /\ blank' \subseteq Frames
    BY TypeStep DEF TypeOK
  <2> QED  BY <1>1, <1>2, <2>1 DEF BlankInv
<1>3. ASSUME NEW o \in Owners, NEW F \in SUBSET {f \in Frames : f.owner = o},
             FinishStep(o, F)
      PROVE  Past(Finish, g) \/ g \in rejected
  <2>1. /\ F \subseteq Frames /\ \A f \in F : f.owner = o
        /\ g \in Frames /\ \A f \in F : stage[f] = "finishing"
        /\ \E f \in F : g.owner = o /\ g.index = f.index - 1
    BY <1>2, <1>3, FinishBatch
  <2>2. PICK f \in F : g.owner = o /\ g.index = f.index - 1
    BY <2>1
  <2> QED  BY <2>1, <2>2, PredecessorIsPast
<1>4. ASSUME NEW f \in Frames,
             Start(f) \/ Admit(f) \/ Begin(f) \/ Handle(f) \/ Advance(f)
      PROVE  FALSE
  BY <1>2, <1>4, OthersClearNothing
<1>5. ASSUME UNCHANGED vars PROVE FALSE
  BY <1>2, <1>5 DEF vars
<1> QED  BY <1>3, <1>4, <1>5 DEF Next, Finishes

\* What has come through the finish layer's gate is at no other layer's handler.
LEMMA NoHandlerHasBlank ==
  ASSUME TypeOK, StageInv, BlankInv
  PROVE  HandlersHaveUserdata
<1> SUFFICES ASSUME NEW f \in Frames, AtHandler(f), f \in blank PROVE FALSE
  BY DEF HandlersHaveUserdata
<1>1. stage[f] = "running" /\ at[f] # Finish /\ at[f] <= Finish /\ at[f] \in Int
  BY DEF AtHandler, StageInv, TypeOK
<1>2. ~ Past(Finish, f) /\ f \notin rejected
  BY <1>1, LayerFacts DEF Past, StageInv
<1> QED  BY <1>2 DEF BlankInv

-----------------------------------------------------------------------------
(* The window *)

LEMMA FlightFinite ==
  ASSUME NEW o
  PROVE  IsFiniteSet(InFlight(o)) /\ Cardinality(InFlight(o)) \in Nat
<1>1. InFlight(o) \in SUBSET Frames
  BY DEF InFlight
<1> QED  BY <1>1, FrameSets

LEMMA TakeSubset ==
  ASSUME NEW S, NEW T \in SUBSET S, IsFiniteSet(S)
  PROVE  Cardinality(S \ T) = Cardinality(S) - Cardinality(T)
<1>1. S \cap T = T
  OBVIOUS
<1> QED  BY <1>1, FS_Difference

\* A frame that a step does not bring into the pipeline or out of it leaves the
\* flight as it is.
LEMMA SameFlight ==
  ASSUME TypeOK, NEW o \in Owners,
         \A f \in Frames : f.owner = o => (stage'[f] \in Flying <=> stage[f] \in Flying)
  PROVE  InFlight(o)' = InFlight(o)
  BY DEF InFlight

LEMMA WindowStep ==
  ASSUME TypeOK, StageInv, ReturnInv, WindowMatchesFlight, [Next]_vars
  PROVE  WindowMatchesFlight'
<1>1. setup' = setup
  BY SetupStays
<1>2. SUFFICES ASSUME NEW o \in Owners, Returned(o)
               PROVE  windowSize'[o] = Cardinality(InFlight(o)')
  BY <1>1 DEF WindowMatchesFlight, Returned, Droppable
<1>3. /\ windowSize[o] = Cardinality(InFlight(o)) /\ windowSize[o] \in Int
      /\ IsFiniteSet(InFlight(o))
  BY <1>2, FlightFinite DEF WindowMatchesFlight, TypeOK
<1>4. o \notin setup.raising /\ \A f \in Frames : f.owner = o => f \notin Droppable
  BY <1>2 DEF Returned
<1>5. ASSUME windowSize'[o] = windowSize[o],
             \A f \in Frames : f.owner = o => (stage'[f] \in Flying <=> stage[f] \in Flying)
      PROVE  windowSize'[o] = Cardinality(InFlight(o)')
  BY <1>3, <1>5, SameFlight
<1>6. ASSUME NEW f \in Frames, Start(f) PROVE windowSize'[o] = Cardinality(InFlight(o)')
  <2>1. CASE f.owner = o
    <3>1. InFlight(o)' = InFlight(o) \cup {f} /\ f \notin InFlight(o)
      BY <1>6, <2>1 DEF Start, Move, TypeOK, InFlight, Flying
    <3>2. windowSize'[o] = windowSize[o] + 1
      BY <1>6, <2>1 DEF Start, TypeOK
    <3> QED  BY <1>3, <3>1, <3>2, FS_AddElement
  <2>2. CASE f.owner # o
    <3>1. windowSize'[o] = windowSize[o]
      BY <1>6, <2>2 DEF Start, TypeOK
    <3>2. \A g \in Frames : g.owner = o => stage'[g] = stage[g]
      BY <1>6, <2>2 DEF Start, Move, TypeOK
    <3> QED  BY <1>5, <3>1, <3>2
  <2> QED  BY <2>1, <2>2
<1>7. ASSUME NEW f \in Frames, Admit(f) \/ Begin(f) \/ Advance(f)
      PROVE  windowSize'[o] = Cardinality(InFlight(o)')
  <2>1. windowSize'[o] = windowSize[o]
    BY <1>7 DEF Admit, Enters, Begin, Advance
  <2>2. \A g \in Frames : stage'[g] \in Flying <=> stage[g] \in Flying
    BY <1>7 DEF Admit, Enters, Begin, Advance, Move, TypeOK, Flying
  <2> QED  BY <1>5, <2>1, <2>2
<1>8. ASSUME NEW f \in Frames, Handle(f) PROVE windowSize'[o] = Cardinality(InFlight(o)')
  <2>1. CASE Forward(f) \/ Retry(f) \/ DropSilently(f)
    <3>1. windowSize'[o] = windowSize[o]
      BY <2>1 DEF Forward, Retry, DropSilently
    <3>2. \A g \in Frames : g.owner = o => (stage'[g] \in Flying <=> stage[g] \in Flying)
      BY <1>4, <2>1 DEF Forward, Retry, DropSilently, AtHandler, Move, TypeOK, Flying
    <3> QED  BY <1>5, <3>1, <3>2
  <2>2. CASE Discard(f) /\ f.owner = o
    <3>1. InFlight(o)' = InFlight(o) \ {f} /\ f \in InFlight(o)
      BY <2>2 DEF Discard, AtHandler, Move, TypeOK, InFlight, Flying
    <3>2. windowSize'[o] = windowSize[o] - 1
      <4>1. Cardinality({f}) = 1
        BY FS_Singleton
      <4> QED  BY <2>2, <4>1 DEF Discard, Tear, TypeOK
    <3> QED  BY <1>3, <3>1, <3>2, FS_RemoveElement
  <2>3. CASE Discard(f) /\ f.owner # o
    <3>1. windowSize'[o] = windowSize[o]
      BY <2>3 DEF Discard, Tear, TypeOK
    <3>2. \A g \in Frames : g.owner = o => stage'[g] = stage[g]
      BY <2>3 DEF Discard, Move, TypeOK
    <3> QED  BY <1>5, <3>1, <3>2
  <2> QED  BY <1>8, <2>1, <2>2, <2>3 DEF Handle
<1>9. ASSUME NEW p \in Owners, NEW F \in SUBSET {f \in Frames : f.owner = p},
             FinishStep(p, F)
      PROVE  windowSize'[o] = Cardinality(InFlight(o)')
  <2>1. CASE windowSize' = windowSize /\ \A f \in F : stage[f] = "running" /\ stage'[f] = "finishing"
    <3>1. \A g \in Frames : stage'[g] \in Flying <=> stage[g] \in Flying
      BY <1>9, <2>1, FinishBatch DEF Flying
    <3> QED  BY <1>5, <2>1, <3>1
  <2>2. CASE Tear(p, F) /\ p # o
    <3>1. windowSize'[o] = windowSize[o]
      BY <2>2 DEF Tear, TypeOK
    <3>2. \A g \in Frames : g.owner = o => stage'[g] = stage[g]
      BY <1>9, <2>2, FinishBatch
    <3> QED  BY <1>5, <3>1, <3>2
  <2>3. CASE Tear(p, F) /\ p = o
    <3>1. \A f \in F : f \in Frames /\ f.owner = o
      BY <2>3
    <3>2. F # {} /\ \A f \in F : stage[f] # "aborting"
      BY <1>2, <1>9, <3>1, FinishBatch DEF ReturnInv
    <3>3. \A f \in F : stage[f] \in Flying /\ stage'[f] \in {"finishing", "ready"}
      BY <1>4, <1>9, <2>3, <3>2, FinishBatch DEF Flying
    <3>4. CASE \A f \in F : stage'[f] = "ready"
      <4>1. InFlight(o)' = InFlight(o) \ F /\ F \in SUBSET InFlight(o)
        BY <1>9, <3>1, <3>3, <3>4, FinishBatch DEF InFlight, Flying
      <4>2. windowSize'[o] = windowSize[o] - Cardinality(F)
        BY <2>3 DEF Tear, TypeOK
      <4> QED  BY <1>3, <4>1, <4>2, TakeSubset
    <3>5. CASE \A f \in F : stage'[f] = "finishing" /\ windowSize' = windowSize
      <4>1. \A g \in Frames : stage'[g] \in Flying <=> stage[g] \in Flying
        BY <1>9, <3>3, <3>5, FinishBatch DEF Flying
      <4> QED  BY <1>5, <3>2, <3>5, <4>1
    <3> QED  BY <1>4, <1>9, <2>3, <3>2, <3>4, <3>5, FinishBatch
  <2> QED  BY <1>9, <2>1, <2>2, <2>3, FinishBatch
<1>10. CASE UNCHANGED vars
  BY <1>3, <1>10 DEF vars, InFlight
<1> QED  BY <1>6, <1>7, <1>8, <1>9, <1>10 DEF Next, Finishes

-----------------------------------------------------------------------------

LEMMA InvInit == Init => PipelineInv
<1> SUFFICES ASSUME Init PROVE PipelineInv
  OBVIOUS
<1>1. TypeOK /\ StageInv /\ GateInv
  BY TypeInit, GateInit
<1>2. ReturnInv /\ BlankInv
  BY DEF Init, ReturnInv, BlankInv
<1>3. WindowMatchesFlight
  <2>1. \A o \in Owners : InFlight(o) = {} /\ windowSize[o] = 0
    BY DEF Init, InFlight, Flying
  <2> QED  BY <2>1, FS_EmptySet DEF WindowMatchesFlight
<1> QED  BY <1>1, <1>2, <1>3 DEF PipelineInv

LEMMA InvStep ==
  ASSUME PipelineInv, [Next]_vars
  PROVE  PipelineInv'
<1> USE DEF PipelineInv
<1>1. TypeOK' /\ StageInv'
  BY TypeStep, StageStep
<1>2. ReturnInv' /\ GateInv'
  BY ReturnStep, GateStep
<1>3. BlankInv'
  BY BlankStep
<1>4. WindowMatchesFlight'
  BY WindowStep
<1> QED  BY <1>1, <1>2, <1>3, <1>4

THEOREM InvHolds == Spec => []PipelineInv
<1>1. PipelineInv /\ [Next]_vars => PipelineInv'
  BY InvStep
<1> QED  BY InvInit, <1>1, PTL DEF Spec

\* The window of an orchestrator whose frames all come back counts its frames
\* in flight, whatever the frames of others do in the same layers
\* (orchestrator.py:717-722, 796-800).
THEOREM WindowCountsTheFlight == Spec => []WindowMatchesFlight
<1>1. PipelineInv => WindowMatchesFlight
  BY DEF PipelineInv
<1> QED  BY InvHolds, <1>1, PTL

\* At the gate of a contiguous layer that does not retry no frame overtakes an
\* earlier one of its owner (orchestrator.py:308-342).
THEOREM NoneOvertakesAtGates == Spec => []OrderAtGates
<1>1. PipelineInv => OrderAtGates
  BY GateOrders DEF PipelineInv
<1> QED  BY InvHolds, <1>1, PTL

\* No handler has a frame whose userdata was cleared, whichever batches of the finish
\* layer end first (orchestrator.py:584-594, 372-383, 308-342).
THEOREM UserdataIsThere == Spec => []HandlersHaveUserdata
<1>1. PipelineInv => HandlersHaveUserdata
  BY NoHandlerHasBlank DEF PipelineInv
<1> QED  BY InvHolds, <1>1, PTL

-----------------------------------------------------------------------------
(* What the caller was promised *)

LEMMA PromisedIs ==
  ASSUME TypeOK, NEW f \in Frames
  PROVE  /\ f \notin PromisedItems \/ stage[f] = "interim" => Promised[f] = "interim"
         /\ f \in PromisedItems /\ stage[f] = "ready" => Promised[f] = "ready"
         /\ f \in PromisedItems /\ stage[f] \in {"advancing", "discarded"}
              => Promised[f] = "discarded"
         /\ f \in PromisedItems /\ stage[f] \in Flying => Promised[f] = "inflight"
  BY DEF Promised, Flying

LEMMA PromisedBecomes ==
  ASSUME TypeOK', NEW f \in Frames
  PROVE  /\ f \notin PromisedItems' \/ stage'[f] = "interim" => Promised'[f] = "interim"
         /\ f \in PromisedItems' /\ stage'[f] = "ready" => Promised'[f] = "ready"
         /\ f \in PromisedItems' /\ stage'[f] \in {"advancing", "discarded"}
              => Promised'[f] = "discarded"
         /\ f \in PromisedItems' /\ stage'[f] \in Flying => Promised'[f] = "inflight"
  BY DEF Promised, Flying

LEMMA PromisedFacts ==
  ASSUME TypeOK
  PROVE  /\ PromisedItems \subseteq Frames
         /\ Promised = [f \in Frames |-> Promised[f]]
         /\ \A f \in PromisedItems : f \in setup.fed /\ Returned(f.owner)
  BY SetupsAssumption DEF TypeOK, PromisedItems, Promised, Unhindered

LEMMA PromisedItemsStay ==
  ASSUME setup' = setup
  PROVE  PromisedItems' = PromisedItems
  BY DEF PromisedItems, Unhindered, Returned, Droppable, Discardable, Careful

\* A frame that is promised is where the promise knows it.
LEMMA PromisedStages ==
  ASSUME TypeOK, ReturnInv, NEW f \in PromisedItems
  PROVE  stage[f] \in Flying \cup {"interim", "ready", "advancing", "discarded"}
  BY PromisedFacts DEF TypeOK, Stages, Flying, ReturnInv

\* What the caller sees of a frame changes as the frame is started, discarded or
\* handed out, and not on its way.
LEMMA Unseen ==
  ASSUME PipelineInv, PipelineInv', setup' = setup,
         \A f \in PromisedItems :
           \/ stage'[f] = stage[f]
           \/ stage[f] \in Flying /\ stage'[f] \in Flying
           \/ stage[f] \in {"advancing", "discarded"} /\ stage'[f] \in {"advancing", "discarded"}
  PROVE  UNCHANGED <<PromisedItems, Promised>>
<1>1. TypeOK /\ TypeOK' /\ ReturnInv
  BY DEF PipelineInv
<1>2. PromisedItems' = PromisedItems /\ PromisedItems \subseteq Frames
  BY <1>1, PromisedItemsStay, PromisedFacts
<1>3. ASSUME NEW f \in Frames PROVE Promised'[f] = Promised[f]
  <2>1. CASE f \notin PromisedItems
    BY <1>1, <1>2, <2>1, PromisedIs, PromisedBecomes
  <2>2. CASE f \in PromisedItems
    BY <1>1, <1>2, <2>2, PromisedIs, PromisedBecomes, PromisedStages
  <2> QED  BY <2>1, <2>2
<1>4. Promised' = [f \in Frames |-> Promised'[f]]
  BY DEF Promised
<1>5. Promised = [f \in Frames |-> Promised[f]]
  BY <1>1, PromisedFacts
<1>6. Promised' = Promised
  BY <1>3, <1>4, <1>5
<1> QED  BY <1>2, <1>6

\* A frame that is promised starts within its owner's window.
LEMMA StartPromised ==
  ASSUME PipelineInv, PipelineInv', NEW f \in PromisedItems, Start(f)
  PROVE  Lifecycle!Start(f)
<1>1. TypeOK /\ TypeOK' /\ ReturnInv /\ StageInv /\ setup' = setup
  BY DEF PipelineInv, Start
<1>2. /\ PromisedItems' = PromisedItems /\ PromisedItems \subseteq Frames /\ f \in Frames
      /\ f.owner \in Owners
  BY <1>1, PromisedItemsStay, PromisedFacts, FrameFacts
<1>3. \A g \in Frames : g \in setup.fed /\ g.owner = f.owner => g \in PromisedItems
  BY DEF PromisedItems
<1>4. Promised[f] = "interim"
  BY <1>1, <1>2, PromisedIs DEF Start
<1>5. ASSUME NEW g \in Lifecycle!Earlier(f) PROVE Promised[g] # "interim"
  <2>1. g \in Frames /\ g.owner = f.owner /\ g \in Earlier(f)
    BY <1>5 DEF Lifecycle!Earlier, Lifecycle!Frames, Earlier, Frames
  <2>2. stage[g] # "interim" /\ g \in PromisedItems
    BY <1>1, <1>3, <2>1 DEF Start, StageInv
  <2> QED  BY <1>1, <2>1, <2>2, PromisedIs, PromisedStages
<1>6. Lifecycle!InFlight(f.owner) = InFlight(f.owner)
  <2>1. ASSUME NEW g \in Frames, g.owner = f.owner
        PROVE  Promised[g] = "inflight" <=> stage[g] \in Flying
    <3>1. CASE stage[g] = "interim"
      BY <1>1, <3>1, PromisedIs DEF Flying
    <3>2. CASE stage[g] # "interim"
      <4>1. g \in PromisedItems
        BY <1>1, <1>3, <2>1, <3>2 DEF StageInv
      <4>2. stage[g] \in Flying \/ stage[g] = "ready" \/ stage[g] \in {"advancing", "discarded"}
        BY <1>1, <3>2, <4>1, PromisedStages
      <4> QED  BY <1>1, <4>1, <4>2, PromisedIs DEF Flying
    <3> QED  BY <3>1, <3>2
  <2>2. Lifecycle!Frames = Frames
    BY DEF Lifecycle!Frames, Frames
  <2> QED  BY <2>1, <2>2 DEF Lifecycle!InFlight, InFlight
<1>7. Cardinality(Lifecycle!InFlight(f.owner)) < MaxWindow
  <2>1. Returned(f.owner)
    BY <1>1, PromisedFacts
  <2>2. windowSize[f.owner] = Cardinality(InFlight(f.owner))
    BY <1>2, <2>1 DEF PipelineInv, WindowMatchesFlight
  <2>3. windowSize[f.owner] < MaxWindow
    BY DEF Start
  <2> QED  BY <1>6, <2>2, <2>3
<1>8. Promised' = [Promised EXCEPT ![f] = "inflight"]
  <2>1. Promised'[f] = "inflight"
    <3>1. stage'[f] \in Flying
      BY <1>1, <1>2 DEF Start, Move, TypeOK, Flying
    <3> QED  BY <1>1, <1>2, <3>1, PromisedBecomes
  <2>2. ASSUME NEW g \in Frames, g # f PROVE Promised'[g] = Promised[g]
    <3>1. stage'[g] = stage[g]
      BY <1>1, <2>2 DEF Start, Move, TypeOK
    <3> QED  BY <1>1, <1>2, <2>2, <3>1, PromisedIs, PromisedBecomes, PromisedStages
  <2>3. Promised' = [g \in Frames |-> Promised'[g]]
    BY DEF Promised
  <2>4. Promised = [g \in Frames |-> Promised[g]]
    BY <1>1, PromisedFacts
  <2> QED  BY <1>2, <2>1, <2>2, <2>3, <2>4
<1>9. \A S : Lifecycle!Cardinality(S) = Cardinality(S)
  BY DEF Lifecycle!Cardinality, Cardinality
<1> QED  BY <1>2, <1>4, <1>5, <1>7, <1>8, <1>9 DEF Lifecycle!Start

\* Frames that are promised end together, by one of the two outcomes.
LEMMA EndPromised ==
  ASSUME PipelineInv, PipelineInv', setup' = setup,
         NEW F \in SUBSET PromisedItems, F # {},
         \A f \in F : stage[f] \in Flying,
         \A g \in PromisedItems \ F : stage'[g] = stage[g]
  PROVE  /\ (\A f \in F : stage'[f] = "ready") => Lifecycle!End(F, "ready")
         /\ (\A f \in F : stage'[f] = "advancing") => Lifecycle!End(F, "discarded")
<1>1. TypeOK /\ TypeOK' /\ ReturnInv
  BY DEF PipelineInv
<1>2. PromisedItems' = PromisedItems /\ PromisedItems \subseteq Frames
  BY <1>1, PromisedItemsStay, PromisedFacts
<1>3. \A f \in F : Promised[f] = "inflight"
  BY <1>1, <1>2, PromisedIs
<1>4. \A g \in Frames \ F : Promised'[g] = Promised[g]
  BY <1>1, <1>2, PromisedIs, PromisedBecomes, PromisedStages
<1>5. /\ Promised' = [g \in Frames |-> Promised'[g]]
      /\ Lifecycle!Frames = Frames
  BY DEF Promised, Lifecycle!Frames, Frames
<1>6. ASSUME NEW outcome, \A f \in F : Promised'[f] = outcome
      PROVE  Lifecycle!End(F, outcome)
  <2>1. Promised' = [g \in Frames |-> IF g \in F THEN outcome ELSE Promised[g]]
    BY <1>2, <1>4, <1>5, <1>6
  <2> QED  BY <1>2, <1>3, <1>5, <2>1 DEF Lifecycle!End
<1>7. (\A f \in F : stage'[f] = "ready") => \A f \in F : Promised'[f] = "ready"
  BY <1>1, <1>2, PromisedBecomes
<1>8. (\A f \in F : stage'[f] = "advancing") => \A f \in F : Promised'[f] = "discarded"
  BY <1>1, <1>2, PromisedBecomes
<1> QED  BY <1>6, <1>7, <1>8

LEMMA StepIsPromised ==
  ASSUME PipelineInv, PipelineInv', [Next]_vars
  PROVE  [Lifecycle!Next]_<<PromisedItems, Promised>>
<1>1. setup' = setup
  BY SetupStays
<1>2. TypeOK /\ StageInv /\ ReturnInv
  BY DEF PipelineInv
<1>3. PromisedItems \subseteq Frames /\ Lifecycle!Frames = Frames
  BY <1>2, PromisedFacts DEF Lifecycle!Frames, Frames
<1>4. ASSUME NEW f \in Frames, Start(f) PROVE [Lifecycle!Next]_<<PromisedItems, Promised>>
  <2>1. CASE f \in PromisedItems
    BY <1>3, <1>4, <2>1, StartPromised DEF Lifecycle!Next
  <2>2. CASE f \notin PromisedItems
    <3>1. \A g \in PromisedItems : stage'[g] = stage[g]
      BY <1>2, <1>3, <1>4, <2>2 DEF Start, Move, TypeOK
    <3> QED  BY <1>1, <3>1, Unseen
  <2> QED  BY <2>1, <2>2
<1>5. ASSUME NEW f \in Frames, Admit(f) \/ Begin(f) \/ Forward(f) \/ Retry(f) \/ Advance(f)
      PROVE  UNCHANGED <<PromisedItems, Promised>>
  <2>1. \A g \in Frames \ {f} : stage'[g] = stage[g]
    BY <1>2, <1>5 DEF Admit, Enters, Begin, Forward, Retry, Advance, Move, TypeOK
  <2>2. \/ stage'[f] = stage[f]
        \/ stage[f] \in Flying /\ stage'[f] \in Flying
        \/ stage[f] = "advancing" /\ stage'[f] = "discarded"
    BY <1>2, <1>5 DEF Admit, Enters, Begin, Forward, Retry, AtHandler, Advance, Move, TypeOK,
       Flying
  <2> QED  BY <1>1, <1>3, <2>1, <2>2, Unseen
<1>6. ASSUME NEW f \in Frames, DropSilently(f) PROVE UNCHANGED <<PromisedItems, Promised>>
  <2>1. f \notin PromisedItems
    BY <1>2, <1>6, PromisedFacts DEF DropSilently, Returned
  <2>2. \A g \in PromisedItems : stage'[g] = stage[g]
    BY <1>2, <1>3, <1>6, <2>1 DEF DropSilently, Move, TypeOK
  <2> QED  BY <1>1, <2>2, Unseen
<1>7. ASSUME NEW f \in Frames, Discard(f) PROVE [Lifecycle!Next]_<<PromisedItems, Promised>>
  <2>1. /\ stage[f] \in Flying /\ stage'[f] = "advancing"
        /\ \A g \in Frames \ {f} : stage'[g] = stage[g]
    BY <1>2, <1>7 DEF Discard, AtHandler, Move, TypeOK, Flying
  <2>2. CASE f \in PromisedItems
    <3>1. Lifecycle!End({f}, "discarded")
      BY <1>1, <1>3, <2>1, <2>2, EndPromised
    <3> QED  BY <1>3, <1>7, <3>1 DEF Lifecycle!Next
  <2>3. CASE f \notin PromisedItems
    BY <1>1, <1>3, <2>1, <2>3, Unseen
  <2> QED  BY <2>2, <2>3
<1>8. ASSUME NEW o \in Owners, NEW F \in SUBSET {f \in Frames : f.owner = o},
             FinishStep(o, F)
      PROVE  [Lifecycle!Next]_<<PromisedItems, Promised>>
  <2>1. F \subseteq Frames /\ F # {} /\ \A g \in PromisedItems \ F : stage'[g] = stage[g]
    BY <1>2, <1>3, <1>8, FinishBatch
  <2>2. F \subseteq PromisedItems \/ F \cap PromisedItems = {}
    <3>1. \A f \in F : f \in setup.fed /\ f.owner = o
      BY <1>2, <1>8, <2>1, FinishBatch DEF StageInv
    <3> QED  BY <2>1, <3>1 DEF PromisedItems
  <2>3. CASE F \cap PromisedItems = {}
    BY <1>1, <2>1, <2>3, Unseen
  <2>4. CASE F \subseteq PromisedItems
    <3>1. \A f \in F : stage[f] # "aborting" /\ f.owner \notin setup.raising
      BY <1>2, <2>4, PromisedFacts, PromisedStages DEF Flying, Returned
    <3>2. \/ \A f \in F : stage[f] = "running" /\ stage'[f] = "finishing"
          \/ \A f \in F : stage[f] = "finishing" /\ stage'[f] = "ready"
      BY <1>2, <1>8, <2>1, <3>1, FinishBatch
    <3>3. CASE \A f \in F : stage[f] = "running" /\ stage'[f] = "finishing"
      BY <1>1, <2>1, <3>3, Unseen DEF Flying
    <3>4. CASE \A f \in F : stage[f] = "finishing" /\ stage'[f] = "ready"
      <4>1. Lifecycle!End(F, "ready")
        BY <1>1, <2>1, <2>4, <3>4, EndPromised DEF Flying
      <4> QED  BY <1>3, <2>1, <4>1 DEF Lifecycle!Next
    <3> QED  BY <3>2, <3>3, <3>4
  <2> QED  BY <2>2, <2>3, <2>4
<1>9. CASE UNCHANGED vars
  BY <1>1, <1>9, Unseen DEF vars
<1> QED  BY <1>4, <1>5, <1>6, <1>7, <1>8, <1>9 DEF Next, Finishes, Handle

LEMMA InitIsPromised == Init => Lifecycle!Init
<1> SUFFICES ASSUME Init PROVE Lifecycle!Init
  OBVIOUS
<1>1. TypeOK
  BY TypeInit
<1>2. PromisedItems \subseteq Lifecycle!Frames /\ Lifecycle!Frames = Frames
  BY <1>1, PromisedFacts DEF Lifecycle!Frames, Frames
<1>3. Promised = [f \in Frames |-> "interim"]
  <2>1. \A f \in Frames : Promised[f] = "interim"
    BY <1>1, PromisedIs DEF Init
  <2> QED  BY <1>1, <2>1, PromisedFacts
<1> QED  BY <1>2, <1>3 DEF Lifecycle!Init

\* Every step of layers, windows and handlers is one of the life that the
\* caller was promised for its frames, or none that it sees: started in order
\* and within the window, ended once (orchestrator.py:700-822, 308-383).
THEOREM PipelineKeepsThePromise == Spec => Lifecycle!Safe
<1>1. PipelineInv /\ PipelineInv' /\ [Next]_vars
        => [Lifecycle!Next]_<<PromisedItems, Promised>>
  BY StepIsPromised
<1> QED  BY InitIsPromised, InvHolds, <1>1, PTL DEF Spec, Lifecycle!Safe

=============================================================================
