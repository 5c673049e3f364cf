--------------------------- MODULE InferenceProofs ---------------------------
(***************************************************************************)
(* run_padded gives one output per row, for every batch size, every array  *)
(* and every model.  The invariant ties each chunk to the one before it    *)
(* (its first row follows on the other's last) and what is joined to the   *)
(* chunks that are joined.                                                 *)
(*                                                                         *)
(* It keeps this promise when its infer_fn is a pooled model that any      *)
(* number of threads use and whose handles may raise: whatever the pool    *)
(* does is a step of run_padded or leaves it alone.  And with as many      *)
(* handles as threads none of these waits: every handle that is not in its *)
(* pool is in the hands of one thread.                                     *)
(***************************************************************************)
EXTENDS Inference, FiniteSetTheorems, TLAPS

-----------------------------------------------------------------------------
(* run_padded *)

Rows == Nat \cup {Zero}
Outputs == {Infer(row) : row \in Rows}

Typed ==
  /\ size \in Nat \ {0} /\ count \in Nat /\ offset \in Nat /\ joined \in Nat
  /\ chunks \in Seq([rows : [1..size -> Rows], valid : 1..size])
  /\ outputs \in Seq([rows : [1..size -> Outputs], valid : 1..size])
  /\ result \in Seq(Outputs)
  /\ pc \in {"chunking", "inferring", "joining", "returned", "raised"}

\* The rows of the array that are before chunk k, and those that the first k
\* chunks hold.
Start(k) == chunks[k].rows[1] - 1
Covered(k) == IF k = 0 THEN 0 ELSE Start(k) + chunks[k].valid

ChunkHolds(k) ==
  /\ chunks[k].rows = Padded(Start(k), chunks[k].valid)
  /\ Start(k) = Covered(k - 1)
  /\ Start(k) \in Nat
  /\ k < Len(chunks) \/ offset < count => chunks[k].valid = size

Chunking ==
  /\ \A k \in 1..Len(chunks) : ChunkHolds(k)
  /\ offset = Covered(Len(chunks)) /\ offset <= count
  /\ pc # "chunking" => offset = count

OutputOf(chunk) ==
  [rows |-> [i \in 1..size |-> Infer(chunk.rows[i])], valid |-> chunk.valid]

Inferring ==
  /\ Len(outputs) <= Len(chunks)
  /\ \A k \in 1..Len(outputs) : outputs[k] = OutputOf(chunks[k])
  /\ pc = "chunking" => outputs = <<>>
  /\ pc \in {"joining", "returned"} => Len(outputs) = Len(chunks)

Joining ==
  /\ joined <= Len(outputs)
  /\ result = [i \in 1..Covered(joined) |-> Infer(i)]
  /\ pc = "returned" => joined = Len(outputs)

Inv == Typed /\ Chunking /\ Inferring /\ Joining

-----------------------------------------------------------------------------

LEMMA ElementOf ==
  ASSUME NEW S, NEW s \in Seq(S), NEW k \in 1..Len(s)
  PROVE  s[k] \in S
  OBVIOUS

LEMMA ConcatOf ==
  ASSUME NEW S, NEW s \in Seq(S), NEW t \in Seq(S)
  PROVE  /\ s \o t \in Seq(S)
         /\ Len(s \o t) = Len(s) + Len(t)
         /\ \A i \in 1..(Len(s) + Len(t)) :
              (s \o t)[i] = IF i <= Len(s) THEN s[i] ELSE t[i - Len(s)]
  OBVIOUS

LEMMA SequenceOf ==
  ASSUME NEW S, NEW s \in Seq(S)
  PROVE  s = [i \in 1..Len(s) |-> s[i]]
  OBVIOUS

\* A chunk has the shape that the model wants, and at least one row of the array.
LEMMA ChunkShape ==
  ASSUME Typed, NEW k \in 1..Len(chunks)
  PROVE  /\ chunks[k] \in [rows : [1..size -> Rows], valid : 1..size]
         /\ chunks[k].valid \in 1..size
<1>1. chunks[k] \in [rows : [1..size -> Rows], valid : 1..size]
  BY ElementOf DEF Typed
<1> QED  BY <1>1

\* Chunks that are there keep their place when one is appended.
LEMMA AppendKeeps ==
  ASSUME NEW S, NEW s \in Seq(S), NEW e \in S
  PROVE  /\ Append(s, e) \in Seq(S)
         /\ Len(Append(s, e)) = Len(s) + 1
         /\ \A k \in 1..Len(s) : Append(s, e)[k] = s[k]
         /\ Append(s, e)[Len(s) + 1] = e
  OBVIOUS

LEMMA InvInit == Init => Inv
<1> SUFFICES ASSUME Init PROVE Inv
  OBVIOUS
<1>1. Typed
  BY SizesAssumption, CountsAssumption DEF Init, Typed
<1>2. Chunking /\ Inferring
  BY CountsAssumption DEF Init, Chunking, Inferring, Covered
<1>3. Joining
  <2>1. result = [i \in 1..0 |-> Infer(i)]
    BY DEF Init
  <2> QED  BY <2>1 DEF Init, Joining, Covered
<1> QED  BY <1>1, <1>2, <1>3 DEF Inv

LEMMA ChunkStep ==
  ASSUME Inv, Chunk
  PROVE  Inv'
<1> USE DEF Inv
<1> DEFINE end == Smaller(offset + size, count)
           valid == end - offset
           chunk == [rows |-> Padded(offset, valid), valid |-> valid]
<1> PICK n \in Nat : n = Len(chunks)
  BY DEF Typed
<1>1. /\ offset < count /\ pc = "chunking" /\ offset' = end
      /\ chunks' = Append(chunks, chunk)
      /\ UNCHANGED <<size, count, outputs, joined, result, pc>>
  BY DEF Chunk
<1>2. valid \in 1..size /\ end \in Nat /\ end <= count /\ (end < count => valid = size)
  BY <1>1 DEF Typed, Smaller
<1>3. chunk \in [rows : [1..size -> Rows], valid : 1..size]
  BY <1>2 DEF Typed, Padded, Rows
<1>4. /\ chunks' \in Seq([rows : [1..size -> Rows], valid : 1..size])
      /\ Len(chunks') = n + 1
      /\ \A k \in 1..n : chunks'[k] = chunks[k]
      /\ chunks'[n + 1] = chunk
  <2> HIDE DEF chunk
  <2> QED  BY <1>1, <1>3, AppendKeeps DEF Typed
<1>5. Typed'
  BY <1>1, <1>2, <1>4 DEF Typed
<1>6. \A k \in 0..n : Covered(k)' = Covered(k)
  BY <1>4 DEF Covered, Start
<1>7. chunk.rows[1] = offset + 1 /\ chunk.valid = valid
  BY <1>2 DEF Padded, Typed
<1>8. Covered(n + 1)' = end /\ Start(n + 1)' = offset
  <2>1. chunks'[n + 1].rows[1] = offset + 1 /\ chunks'[n + 1].valid = end - offset
    BY <1>4, <1>7
  <2>2. offset \in Nat /\ n + 1 # 0
    BY DEF Typed
  <2> HIDE DEF end
  <2> QED  BY <2>1, <2>2, <1>2 DEF Covered, Start
<1>9. Chunking'
  <2>1. ASSUME NEW k \in 1..n PROVE ChunkHolds(k)'
    <3>1. ChunkHolds(k) /\ chunks[k].valid = size
      BY <1>1 DEF Chunking, ChunkHolds
    <3>2. Start(k)' = Start(k) /\ chunks'[k] = chunks[k] /\ Covered(k - 1)' = Covered(k - 1)
      <4>1. chunks'[k] = chunks[k] /\ k - 1 \in 0..n
        BY <1>4
      <4>2. Covered(k - 1)' = Covered(k - 1)
        BY <1>6, <4>1
      <4> QED  BY <4>1, <4>2 DEF Start
    <3>3. \A m, v : Padded(m, v)' = Padded(m, v)
      BY <1>1 DEF Padded
    <3>4. offset < count /\ size' = size
      BY <1>1
    <3> QED  BY <3>1, <3>2, <3>3, <3>4 DEF ChunkHolds
  <2>2. ChunkHolds(n + 1)'
    <3>1. Covered(n)' = offset
      BY <1>4, <1>6 DEF Chunking
    <3>2. /\ chunks'[n + 1].rows = [i \in 1..size |-> IF i <= valid THEN offset + i ELSE Zero]
          /\ chunks'[n + 1].valid = valid
      BY <1>4 DEF Padded
    <3>3. (n + 1) - 1 = n
      OBVIOUS
    <3> QED  BY <3>1, <3>2, <3>3, <1>1, <1>2, <1>4, <1>8 DEF ChunkHolds, Padded, Typed
  <2>3. \A k \in 1..Len(chunks') : ChunkHolds(k)'
    BY <2>1, <2>2, <1>4
  <2> QED  BY <2>3, <1>1, <1>2, <1>4, <1>8 DEF Chunking
<1>10. Inferring' /\ Joining'
  BY <1>1, <1>4, <1>6 DEF Inferring, Joining, Typed
<1> QED  BY <1>5, <1>9, <1>10

LEMMA InferStep ==
  ASSUME Inv, InferChunk
  PROVE  Inv'
<1> USE DEF Inv
<1> PICK n \in Nat : n = Len(outputs)
  BY DEF Typed
<1> DEFINE output == OutputOf(chunks[n + 1])
<1>1. /\ outputs' = Append(outputs, output) /\ n < Len(chunks) /\ pc = "inferring"
      /\ UNCHANGED <<size, count, offset, chunks, joined, result, pc>>
  BY DEF InferChunk, OutputOf
<1>2. chunks[n + 1] \in [rows : [1..size -> Rows], valid : 1..size]
  <2>1. n + 1 \in 1..Len(chunks)
    BY <1>1 DEF Typed
  <2> QED  BY <2>1, ChunkShape
<1>3. output \in [rows : [1..size -> Outputs], valid : 1..size]
  BY <1>2 DEF OutputOf, Outputs
<1>4. /\ outputs' \in Seq([rows : [1..size -> Outputs], valid : 1..size])
      /\ Len(outputs') = n + 1
      /\ \A k \in 1..n : outputs'[k] = outputs[k]
      /\ outputs'[n + 1] = output
  <2> HIDE DEF output
  <2> QED  BY <1>1, <1>3, AppendKeeps DEF Typed
<1>5. Typed'
  BY <1>1, <1>4 DEF Typed
<1>6. Chunking'
  <2>1. \A k \in 1..Len(chunks) : ChunkHolds(k)' = ChunkHolds(k)
    BY <1>1 DEF ChunkHolds, Covered, Start, Padded
  <2> QED  BY <1>1, <2>1 DEF Chunking, Covered, Start
<1>7. Inferring'
  <2>1. ASSUME NEW k \in 1..(n + 1) PROVE outputs'[k] = OutputOf(chunks[k])
    BY <1>4, k \in 1..n \/ k = n + 1 DEF Inferring
  <2>2. \A k \in 1..Len(outputs') : outputs'[k] = OutputOf(chunks[k])'
    BY <1>1, <1>4, <2>1 DEF OutputOf
  <2>3. Len(outputs') <= Len(chunks')
    BY <1>1, <1>4 DEF Typed
  <2> QED  BY <1>1, <2>2, <2>3 DEF Inferring
<1>8. Joining'
  BY <1>1, <1>4 DEF Joining, Covered, Start, Typed
<1> QED  BY <1>5, <1>6, <1>7, <1>8

LEMMA JoinStep ==
  ASSUME Inv, Join
  PROVE  Inv'
<1> USE DEF Inv
<1> PICK k \in Nat : k = joined + 1
  BY DEF Typed
<1> DEFINE piece == SubSeq(outputs[k].rows, 1, outputs[k].valid)
<1>1. /\ joined' = k /\ result' = result \o piece /\ joined < Len(outputs) /\ pc = "joining"
      /\ UNCHANGED <<size, count, offset, chunks, outputs, pc>>
  BY DEF Join
<1>2. k \in 1..Len(outputs) /\ k \in 1..Len(chunks)
  BY <1>1 DEF Typed, Inferring
<1>3. /\ outputs[k] = OutputOf(chunks[k]) /\ ChunkHolds(k)
      /\ chunks[k].valid \in 1..size
  <2>1. chunks[k] \in [rows : [1..size -> Rows], valid : 1..size]
    BY <1>2, ChunkShape
  <2> QED  BY <1>2, <2>1 DEF Inferring, Chunking
<1>4. /\ Covered(joined) \in Nat /\ Covered(joined) = Start(k)
      /\ Covered(k) = Covered(joined) + chunks[k].valid
  BY <1>1, <1>3 DEF ChunkHolds, Covered, Typed
<1>5. \A i \in 1..chunks[k].valid : outputs[k].rows[i] = Infer(Covered(joined) + i)
  BY <1>3, <1>4 DEF OutputOf, ChunkHolds, Padded, Typed
<1>6. /\ piece \in Seq(Outputs) /\ Len(piece) = chunks[k].valid
      /\ \A i \in 1..Len(piece) : piece[i] = Infer(Covered(joined) + i)
  <2>1. outputs[k].rows \in [1..size -> Outputs] /\ outputs[k].valid = chunks[k].valid
    BY <1>2, <1>3 DEF Typed, OutputOf
  <2>2. outputs[k].rows \in Seq(Outputs) /\ Len(outputs[k].rows) = size
    BY <2>1 DEF Typed
  <2>3. outputs[k].valid \in 1..Len(outputs[k].rows)
    BY <2>1, <2>2, <1>3
  <2>4. piece \in Seq(Outputs) /\ Len(piece) = chunks[k].valid
    BY <2>1, <2>2, <2>3, <1>3
  <2>5. \A i \in 1..Len(piece) : piece[i] = outputs[k].rows[i]
    BY <2>1, <2>2, <2>3, <2>4, <1>3
  <2> QED  BY <2>4, <2>5, <1>5
<1>7. /\ Len(result) = Covered(joined)
      /\ \A i \in 1..Len(result) : result[i] = Infer(i)
  BY <1>4 DEF Joining, Typed
<1>8. result' = [i \in 1..Covered(k) |-> Infer(i)]
  <2> HIDE DEF piece
  <2>1. /\ result' \in Seq(Outputs) /\ Len(result') = Len(result) + Len(piece)
        /\ \A i \in 1..(Len(result) + Len(piece)) :
             result'[i] = IF i <= Len(result) THEN result[i] ELSE piece[i - Len(result)]
    BY <1>1, <1>6, ConcatOf DEF Typed
  <2>2. Len(result) + Len(piece) = Covered(k)
    BY <1>4, <1>6, <1>7
  <2>3. ASSUME NEW i \in 1..Covered(k)
        PROVE  result'[i] = Infer(i)
    <3>1. CASE i <= Len(result)
      BY <3>1, <2>1, <2>2, <1>7, <1>4
    <3>2. CASE ~(i <= Len(result))
      <4>1. i - Len(result) \in 1..Len(piece)
        BY <3>2, <2>2, <1>3, <1>4, <1>6, <1>7
      <4>2. piece[i - Len(result)] = Infer(Covered(joined) + (i - Len(result)))
        BY <4>1, <1>6
      <4>3. Covered(joined) + (i - Len(result)) = i
        BY <1>4, <1>7
      <4>4. result'[i] = piece[i - Len(result)]
        BY <3>2, <2>1, <2>2
      <4> QED  BY <4>2, <4>3, <4>4
    <3> QED  BY <3>1, <3>2
  <2>4. result' = [i \in 1..Len(result') |-> result'[i]]
    BY <2>1, SequenceOf
  <2> QED  BY <2>1, <2>2, <2>3, <2>4
<1>9. Typed'
  <2>1. result' \in Seq(Outputs)
    <3> HIDE DEF piece
    <3> QED  BY <1>1, <1>6, ConcatOf DEF Typed
  <2> QED  BY <1>1, <2>1 DEF Typed
<1>10. Chunking' /\ Inferring'
  BY <1>1 DEF Chunking, ChunkHolds, Covered, Start, Padded, Inferring, OutputOf
<1>11. Joining'
  <2>1. Covered(k) = Covered(joined)'
    BY <1>1 DEF Covered, Start
  <2>2. result' = [i \in 1..Covered(joined)' |-> Infer(i)]
    BY <1>8, <2>1
  <2>3. joined' <= Len(outputs') /\ pc' = "joining"
    BY <1>1, <1>2
  <2> HIDE DEF piece
  <2> QED  BY <2>2, <2>3 DEF Joining
<1> QED  BY <1>9, <1>10, <1>11

\* Where the call is may change when what is known of that place holds.
LEMMA OnlyPcChanges ==
  ASSUME Inv, UNCHANGED <<size, count, offset, chunks, outputs, joined, result>>,
         pc' \in {"inferring", "joining", "returned", "raised"},
         offset = count,
         pc' \in {"joining", "returned"} => Len(outputs) = Len(chunks),
         pc' = "returned" => joined = Len(outputs)
  PROVE  Inv'
<1>1. Typed'
  BY DEF Inv, Typed
<1>2. \A k : ChunkHolds(k)' <=> ChunkHolds(k)
  BY DEF ChunkHolds, Covered, Start, Padded
<1>3. Chunking'
  BY <1>2 DEF Inv, Chunking, Covered, Start
<1>4. Inferring'
  BY DEF Inv, Inferring, OutputOf
<1>5. Joining'
  BY DEF Inv, Joining, Covered, Start
<1> QED  BY <1>1, <1>3, <1>4, <1>5 DEF Inv

LEMMA InvNext == Inv /\ [Next]_vars => Inv'
<1> SUFFICES ASSUME Inv, [Next]_vars PROVE Inv'
  OBVIOUS
<1>1. CASE Chunk
  BY <1>1, ChunkStep
<1>2. CASE InferChunk
  BY <1>2, InferStep
<1>3. CASE Join
  BY <1>3, JoinStep
<1>4. CASE Chunked
  <2>1. /\ offset = count /\ pc' = "inferring" /\ pc = "chunking"
        /\ UNCHANGED <<size, count, offset, chunks, outputs, joined, result>>
    BY <1>4 DEF Chunked, Inv, Typed, Chunking
  <2> QED  BY <2>1, OnlyPcChanges DEF Inv, Inferring, Joining
<1>5. CASE Inferred
  <2>1. /\ pc' \in {"raised", "joining"} /\ pc = "inferring"
        /\ Len(outputs) = Len(chunks)
        /\ UNCHANGED <<size, count, offset, chunks, outputs, joined, result>>
    BY <1>5 DEF Inferred
  <2> QED  BY <2>1, OnlyPcChanges DEF Inv, Chunking
<1>6. CASE InferFails
  <2>1. /\ pc' = "raised" /\ pc = "inferring"
        /\ UNCHANGED <<size, count, offset, chunks, outputs, joined, result>>
    BY <1>6 DEF InferFails
  <2> QED  BY <2>1, OnlyPcChanges DEF Inv, Chunking
<1>7. CASE Return
  <2>1. /\ pc' = "returned" /\ pc = "joining" /\ joined = Len(outputs)
        /\ UNCHANGED <<size, count, offset, chunks, outputs, joined, result>>
    BY <1>7 DEF Return
  <2> QED  BY <2>1, OnlyPcChanges DEF Inv, Chunking, Inferring
<1>8. CASE UNCHANGED vars
  BY <1>8 DEF vars, Inv, Typed, Chunking, ChunkHolds, Covered, Start, Padded, Inferring,
              OutputOf, Joining
<1> QED  BY <1>1, <1>2, <1>3, <1>4, <1>5, <1>6, <1>7, <1>8 DEF Next

\* run_padded returns the model's output for every row of the array, in their order, and
\* nothing of the padding's, whatever the batch size, the array and the model.
THEOREM EveryRowOnce == Spec => []OneOutputPerRow
<1>1. Inv => OneOutputPerRow
  BY DEF Inv, Typed, Chunking, Inferring, Joining, OneOutputPerRow
<1> QED  BY <1>1, InvInit, InvNext, PTL DEF Spec

\* Every chunk but the last is full, and the last one holds a row.
THEOREM OnlyTheRestIsPadded == Spec => []FullChunksFirst
<1>1. Inv => FullChunksFirst
  BY ChunkShape DEF Inv, Chunking, ChunkHolds, FullChunksFirst
<1> QED  BY <1>1, InvInit, InvNext, PTL DEF Spec

-----------------------------------------------------------------------------
(* run_padded with a pooled model *)

LEMMA PoolStepsArePaddingSteps == [InferenceNext]_inferenceVars => [Next]_vars
<1> SUFFICES ASSUME [InferenceNext]_inferenceVars PROVE [Next]_vars
  OBVIOUS
<1>1. CASE Plans
  BY <1>1 DEF Plans, Next
<1>2. ASSUME NEW t \in setup.threads, EndsInference(t) PROVE [Next]_vars
  BY <1>2 DEF EndsInference, GivesOutput, Next
<1>3. CASE UNCHANGED inferenceVars
  BY <1>3 DEF inferenceVars
<1> QED  BY <1>1, <1>2, <1>3
         DEF InferenceNext, BuildsModel, GetsHandle, CallsInfer

\* run_padded returns the pooled model's output for every row, in the rows' order,
\* whatever threads share the model, wait for its handles or make them raise.
THEOREM EveryRowOnceFromPool == InferenceSpec => []OneOutputPerRow
<1>1. InferenceInit => Inv
  BY InvInit DEF InferenceInit
<1>2. Inv /\ [InferenceNext]_inferenceVars => Inv'
  BY PoolStepsArePaddingSteps, InvNext
<1>3. Inv => OneOutputPerRow
  BY DEF Inv, Typed, Chunking, Inferring, Joining, OneOutputPerRow
<1> QED  BY <1>1, <1>2, <1>3, PTL DEF InferenceSpec

-----------------------------------------------------------------------------
(* The pools *)

HasModel == {"ready", "waiting", "inferring"}
PoolStages == {"new", "compiling", "looking", "filling", "filled"} \cup HasModel

\* The threads that hold a handle of pool p.
HoldersOf(p) == {t \in Threads : at[t] = "inferring" /\ model[t] = p}

\* A pool that is in use, or may be: it was filled once and will not be again.
IsFilled(p) ==
  /\ handles[p] >= 1 /\ handles[p] >= setup.parallellism
  /\ setup.cached => at[p] \in {"filled"} \cup HasModel

PoolTyped ==
  /\ setup \in Setups
  /\ cache \in Threads \cup {None}
  /\ handles \in [Threads -> Nat]
  /\ free \in [Threads -> Int]
  /\ at \in [Threads -> PoolStages]
  /\ model \in [Threads -> Threads \cup {None}]

PoolInv ==
  /\ PoolTyped
  /\ cache # None => setup.cached /\ IsFilled(cache)
  /\ \A t \in Threads :
       /\ at[t] = "filled" => cache # None
       /\ at[t] \in HasModel => model[t] \in Threads /\ IsFilled(model[t])
       /\ at[t] = "inferring" => t \in setup.threads
       /\ ~setup.cached => at[t] \in {"new"} \cup HasModel
       /\ free[t] = handles[t] - Cardinality(HoldersOf(t))

LEMMA HoldersFinite ==
  ASSUME NEW p
  PROVE  IsFiniteSet(HoldersOf(p)) /\ Cardinality(HoldersOf(p)) \in Nat
<1>1. HoldersOf(p) \subseteq Threads
  BY DEF HoldersOf
<1> QED  BY <1>1, ThreadsAssumption, FS_Subset, FS_CardinalityType

LEMMA SetupTyped ==
  ASSUME PoolInv
  PROVE  /\ setup.threads \subseteq Threads /\ setup.parallellism \in Nat
         /\ setup.cached \in BOOLEAN
BY SetupsAssumption DEF PoolInv, PoolTyped

\* A handle is taken by a thread that holds none, and given back by its holder.
LEMMA TakingCounts ==
  ASSUME PoolTyped, NEW t \in Threads, at[t] # "inferring",
         at' = [at EXCEPT ![t] = "inferring"], model' = model, NEW p \in Threads
  PROVE  Cardinality(HoldersOf(p)') =
           Cardinality(HoldersOf(p)) + (IF p = model[t] THEN 1 ELSE 0)
<1>1. CASE p = model[t]
  <2>1. HoldersOf(p)' = HoldersOf(p) \cup {t} /\ t \notin HoldersOf(p)
    BY <1>1 DEF HoldersOf, PoolTyped
  <2> QED  BY <1>1, <2>1, HoldersFinite, FS_AddElement
<1>2. CASE p # model[t]
  <2>1. HoldersOf(p)' = HoldersOf(p)
    BY <1>2 DEF HoldersOf, PoolTyped
  <2> QED  BY <1>2, <2>1, HoldersFinite
<1> QED  BY <1>1, <1>2

LEMMA GivingCounts ==
  ASSUME PoolTyped, NEW t \in Threads, at[t] = "inferring",
         at' = [at EXCEPT ![t] = "ready"], model' = model, NEW p \in Threads
  PROVE  Cardinality(HoldersOf(p)') =
           Cardinality(HoldersOf(p)) - (IF p = model[t] THEN 1 ELSE 0)
<1>1. CASE p = model[t]
  <2>1. HoldersOf(p)' = HoldersOf(p) \ {t} /\ t \in HoldersOf(p)
    BY <1>1 DEF HoldersOf, PoolTyped
  <2> QED  BY <1>1, <2>1, HoldersFinite, FS_RemoveElement
<1>2. CASE p # model[t]
  <2>1. HoldersOf(p)' = HoldersOf(p)
    BY <1>2 DEF HoldersOf, PoolTyped
  <2> QED  BY <1>2, <2>1, HoldersFinite
<1> QED  BY <1>1, <1>2

PoolStep(t) ==
  \/ Pool!Builds(t) \/ Pool!GetsHandle(t) \/ Pool!CallsInfer(t)
  \/ Pool!CompilationFails(t) \/ \E raised \in BOOLEAN : Pool!PutsHandle(t, raised)

LEMMA StepsOfPool ==
  [InferenceNext]_inferenceVars =>
    (\E t \in setup.threads : PoolStep(t)) \/ UNCHANGED poolVars
BY DEF InferenceNext, Plans, BuildsModel, GetsHandle, CallsInfer, EndsInference, GivesOutput,
       PoolStep, inferenceVars

LEMMA PoolNext ==
  ASSUME PoolInv, [InferenceNext]_inferenceVars
  PROVE  PoolInv'
<1> USE NoneAssumption DEF PoolInv, PoolTyped, PoolStages, HasModel, IsFilled
<1> USE DEF Pool!caches, Pool!Goto, Pool!Cached, Pool!Parallellism
<1>0. setup.threads \subseteq Threads /\ setup.parallellism \in Nat /\ setup.cached \in BOOLEAN
  BY SetupTyped
<1>1. CASE UNCHANGED poolVars
  BY <1>1 DEF poolVars, HoldersOf
<1>2. ASSUME NEW t \in setup.threads, PoolStep(t) PROVE PoolInv'
  <2>0. t \in Threads
    BY <1>0, <1>2
  <2>1. CASE Pool!GetsHandle(t)
    <3>1. \A p \in Threads : Cardinality(HoldersOf(p)') =
            Cardinality(HoldersOf(p)) + (IF p = model[t] THEN 1 ELSE 0)
      BY <2>0, <2>1, TakingCounts DEF Pool!GetsHandle
    <3> QED  BY <1>2, <2>0, <2>1, <3>1, HoldersFinite DEF Pool!GetsHandle
  <2>2. ASSUME NEW raised, Pool!PutsHandle(t, raised) PROVE PoolInv'
    <3>1. \A p \in Threads : Cardinality(HoldersOf(p)') =
            Cardinality(HoldersOf(p)) - (IF p = model[t] THEN 1 ELSE 0)
      BY <2>0, <2>2, GivingCounts DEF Pool!PutsHandle
    <3> QED  BY <1>2, <2>0, <2>2, <3>1, HoldersFinite DEF Pool!PutsHandle
  <2>3. ASSUME UNCHANGED <<setup, cache, handles, free>>,
               \A u \in Threads : at'[u] = "inferring" <=> at[u] = "inferring",
               \A u \in Threads : at[u] = "inferring" => model'[u] = model[u]
        PROVE  \A p \in Threads : free'[p] = handles'[p] - Cardinality(HoldersOf(p)')
    <3>1. \A p \in Threads : HoldersOf(p)' = HoldersOf(p)
      BY <2>3 DEF HoldersOf
    <3> QED  BY <2>3, <3>1
  <2>4. CASE Pool!CallsInfer(t)
    BY <2>0, <2>3, <2>4 DEF Pool!CallsInfer
  <2>5. CASE Pool!CompilationFails(t) \/ Pool!Compiles(t)
    BY <2>0, <2>3, <2>5 DEF Pool!CompilationFails, Pool!Compiles
  <2>6. CASE Pool!LooksForGraph(t) \/ Pool!LooksForPool(t)
    BY <2>0, <2>3, <2>6 DEF Pool!LooksForGraph, Pool!LooksForPool
  <2>7. CASE Pool!ReturnsPool(t)
    BY <2>0, <2>3, <2>7 DEF Pool!ReturnsPool
  <2>8. CASE Pool!FillsPool(t)
    <3>1. PICK n \in Nat :
            /\ n >= 1 /\ n >= setup.parallellism
            /\ handles' = [handles EXCEPT ![t] = n] /\ free' = [free EXCEPT ![t] = n]
      <4>1. Pool!AtLeastOne(setup.parallellism) \in Nat
            /\ Pool!AtLeastOne(setup.parallellism) >= 1
            /\ Pool!AtLeastOne(setup.parallellism) >= setup.parallellism
        BY <1>0 DEF Pool!AtLeastOne
      <4> QED  BY <2>8, <4>1 DEF Pool!FillsPool, Pool!Fill
    <3>2. HoldersOf(t) = {}
      BY <2>0, <2>8 DEF Pool!FillsPool, HoldersOf
    <3>3. \A p \in Threads : HoldersOf(p)' = HoldersOf(p)
      BY <2>0, <2>8 DEF Pool!FillsPool, HoldersOf
    <3>4. ASSUME NEW p \in Threads
          PROVE  free'[p] = handles'[p] - Cardinality(HoldersOf(p)')
      <4>1. CASE p = t
        <5>1. Cardinality(HoldersOf(p)') = 0
          BY <3>2, <3>3, <4>1, FS_EmptySet
        <5> QED  BY <2>0, <3>1, <4>1, <5>1
      <4>2. CASE p # t
        BY <2>0, <3>1, <3>3, <4>2
      <4> QED  BY <4>1, <4>2
    <3>5. \A p \in Threads : IsFilled(p) => p # t /\ IsFilled(p)'
      BY <2>0, <2>8, <3>1 DEF Pool!FillsPool
    <3>6. IsFilled(t)' /\ setup.cached
      BY <2>0, <2>8, <3>1 DEF Pool!FillsPool
    <3>7. PoolTyped' /\ cache' = t
      BY <2>0, <2>8, <3>1 DEF Pool!FillsPool
    <3> QED  BY <2>0, <2>8, <3>4, <3>5, <3>6, <3>7 DEF Pool!FillsPool
  <2>9. CASE Pool!MakePool(t)
    <3>1. PICK n \in Nat :
            /\ n >= 1 /\ n >= setup.parallellism
            /\ handles' = [handles EXCEPT ![t] = n] /\ free' = [free EXCEPT ![t] = n]
      <4>1. LET n == 1 + Pool!AtLeastOne(setup.parallellism - 1)
            IN  n \in Nat /\ n >= 1 /\ n >= setup.parallellism
        BY <1>0 DEF Pool!AtLeastOne
      <4> QED  BY <2>9, <4>1 DEF Pool!MakePool, Pool!Fill
    <3>2. \A p \in Threads : HoldersOf(p) = {} /\ HoldersOf(p)' = {}
      BY <2>9 DEF Pool!MakePool, HoldersOf
    <3>3. \A p \in Threads : free'[p] = handles'[p] - Cardinality(HoldersOf(p)')
      <4>1. \A p \in Threads : Cardinality(HoldersOf(p)) = 0 /\ Cardinality(HoldersOf(p)') = 0
        BY <3>2, FS_EmptySet
      <4>2. \A p \in Threads : free'[p] = handles'[p]
        BY <2>0, <3>1, <4>1
      <4>3. \A p \in Threads : handles'[p] \in Nat
        BY <2>0, <3>1
      <4> QED  BY <4>1, <4>2, <4>3
    <3>4. ~setup.cached /\ UNCHANGED <<setup, cache>>
          /\ at' = [u \in Threads |-> "ready"] /\ model' = [u \in Threads |-> t]
      BY <2>9 DEF Pool!MakePool
    <3>5. handles' \in [Threads -> Nat] /\ free' \in [Threads -> Int] /\ handles'[t] = n
      BY <2>0, <3>1
    <3>6. cache = None
      BY <3>4
    <3> QED  BY <2>0, <3>1, <3>3, <3>4, <3>5, <3>6
  <2> QED
    BY <1>2, <2>1, <2>2, <2>4, <2>5, <2>6, <2>7, <2>8, <2>9 DEF PoolStep, Pool!Builds
<1> QED  BY <1>1, <1>2, StepsOfPool

\* Module HandlePool's Cardinality is that of FiniteSets.
LEMMA PoolCardinality == ASSUME NEW S PROVE Pool!Cardinality(S) = Cardinality(S)
BY DEF Pool!Cardinality, Cardinality

\* No thread waits for a handle of a model that no more threads use than the executor
\* has, whatever their number, whichever of them race to build the pool and however often
\* inferences raise (model_exporter.py:25-30, 87-94, 179-187).
THEOREM NobodyWaits == InferenceSpec => []WorkersNeverWait
<1>1. InferenceInit => PoolInv
  <2> SUFFICES ASSUME InferenceInit PROVE PoolInv
    OBVIOUS
  <2>1. \A p : HoldersOf(p) = {}
    BY DEF InferenceInit, Pool!Init, HoldersOf
  <2> QED  BY <2>1, FS_EmptySet DEF InferenceInit, Pool!Init, PoolInv, PoolTyped, PoolStages, HasModel
<1>2. PoolInv /\ [InferenceNext]_inferenceVars => PoolInv'
  BY PoolNext
<1>3. PoolInv => WorkersNeverWait
  <2> SUFFICES ASSUME PoolInv, Cardinality(setup.threads) <= setup.parallellism,
                      NEW t \in setup.threads, at[t] \in {"ready", "waiting"}
               PROVE  free[model[t]] > 0
    BY PoolCardinality
       DEF WorkersNeverWait, Pool!WorkersNeverWait, Pool!Users, Pool!Parallellism
  <2> DEFINE p == model[t]
  <2>1. p \in Threads /\ handles[p] >= setup.parallellism /\ handles[p] \in Nat
        /\ free[p] = handles[p] - Cardinality(HoldersOf(p))
    BY SetupTyped DEF PoolInv, PoolTyped, HasModel, IsFilled
  <2>2. IsFiniteSet(setup.threads)
    BY SetupTyped, ThreadsAssumption, FS_Subset
  <2>3. HoldersOf(p) \subseteq setup.threads \ {t}
    BY DEF PoolInv, HoldersOf
  <2>4. IsFiniteSet(setup.threads \ {t})
        /\ Cardinality(setup.threads \ {t}) = Cardinality(setup.threads) - 1
    BY <2>2, FS_RemoveElement
  <2>5. Cardinality(HoldersOf(p)) <= Cardinality(setup.threads) - 1
    BY <2>3, <2>4, FS_Subset
  <2>6. Cardinality(setup.threads) \in Nat /\ Cardinality(HoldersOf(p)) \in Nat
        /\ setup.parallellism \in Nat
    BY <2>2, HoldersFinite, SetupTyped, FS_CardinalityType
  <2> QED  BY <2>1, <2>5, <2>6
<1> QED  BY <1>1, <1>2, <1>3, PTL DEF InferenceSpec

==============================================================================
