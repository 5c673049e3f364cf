----------------------------- MODULE BatchPadding -----------------------------
(***************************************************************************)
(* padding.run_padded (src/nam/inference/padding.py): an array of any      *)
(* number of rows goes through a model of a fixed batch size in chunks,    *)
(* the last one padded with zero rows, and the outputs are joined without  *)
(* the padding's.                                                          *)
(*                                                                         *)
(* A row of the array is its number; the model is a function of rows.      *)
(***************************************************************************)
EXTENDS Integers, Sequences

CONSTANTS
  Sizes,     \* the fixed batch sizes of models
  Counts,    \* the numbers of rows in arrays
  Zero,      \* the padding row
  Infer(_)   \* the model

ASSUME SizesAssumption == Sizes \subseteq Nat \ {0}
ASSUME CountsAssumption == Counts \subseteq Nat

VARIABLES
  size,     \* fixed_batch_size
  count,    \* original_count
  offset,   \* the rows that are in chunks
  chunks,   \* chunks(): the rows and how many of them are the array's
  outputs,  \* chunk_outputs: the same of the model's outputs
  joined,   \* the outputs that are joined
  result,   \* reassemble(), of one of the model's outputs
  pc        \* "chunking", "inferring", "joining", "returned", "raised"

vars == <<size, count, offset, chunks, outputs, joined, result, pc>>

Init ==
  /\ size \in Sizes /\ count \in Counts
  /\ offset = 0 /\ chunks = <<>>
  /\ outputs = <<>>
  /\ joined = 0 /\ result = <<>>
  /\ pc = "chunking"

Smaller(m, n) == IF m < n THEN m ELSE n

-----------------------------------------------------------------------------
(* BatchPlan.chunks *)

\* The rows after the first n, padded up to the size.
Padded(n, valid) == [i \in 1..size |-> IF i <= valid THEN n + i ELSE Zero]

\* Slip: the last chunk counts as a full one.
ChunkFull ==
  /\ pc = "chunking" /\ offset < count
  /\ LET valid == Smaller(size, count - offset)
     IN chunks' = Append(chunks, [rows |-> Padded(offset, valid), valid |-> size])
  /\ offset' = Smaller(offset + size, count)
  /\ UNCHANGED <<size, count, outputs, joined, result, pc>>

Chunk ==
  /\ pc = "chunking" /\ offset < count
  /\ LET end == Smaller(offset + size, count)
         valid == end - offset
     IN /\ chunks' = Append(chunks, [rows |-> Padded(offset, valid), valid |-> valid])
        /\ offset' = end
  /\ UNCHANGED <<size, count, outputs, joined, result, pc>>

Chunked ==
  /\ pc = "chunking" /\ offset >= count
  /\ pc' = "inferring"
  /\ UNCHANGED <<size, count, offset, chunks, outputs, joined, result>>

-----------------------------------------------------------------------------
(* run_padded *)

InferChunk ==
  /\ pc = "inferring" /\ Len(outputs) < Len(chunks)
  /\ LET chunk == chunks[Len(outputs) + 1]
     IN outputs' = Append(outputs, [rows |-> [i \in 1..size |-> Infer(chunk.rows[i])],
                                    valid |-> chunk.valid])
  /\ UNCHANGED <<size, count, offset, chunks, joined, result, pc>>

\* The model raises, and so does run_padded.
InferFails ==
  /\ pc = "inferring" /\ Len(outputs) < Len(chunks)
  /\ pc' = "raised"
  /\ UNCHANGED <<size, count, offset, chunks, outputs, joined, result>>

\* reassemble() takes the number of outputs from the first chunk, which an empty
\* array does not have.
Inferred ==
  /\ pc = "inferring" /\ Len(outputs) = Len(chunks)
  /\ pc' = IF outputs = <<>> THEN "raised" ELSE "joining"
  /\ UNCHANGED <<size, count, offset, chunks, outputs, joined, result>>

-----------------------------------------------------------------------------
(* BatchPlan.reassemble *)

Join ==
  /\ pc = "joining" /\ joined < Len(outputs)
  /\ joined' = joined + 1
  /\ LET output == outputs[joined + 1]
     IN result' = result \o SubSeq(output.rows, 1, output.valid)
  /\ UNCHANGED <<size, count, offset, chunks, outputs, pc>>

Return ==
  /\ pc = "joining" /\ joined = Len(outputs)
  /\ pc' = "returned"
  /\ UNCHANGED <<size, count, offset, chunks, outputs, joined, result>>

Next == Chunk \/ Chunked \/ InferChunk \/ InferFails \/ Inferred \/ Join \/ Return

Spec == Init /\ [][Next]_vars

-----------------------------------------------------------------------------
(* Correctness *)

\* What comes back is the model's output for every row, in the rows' order, and
\* nothing of the padding (padding.py:42-48, docs/feature_inference_acceleration.md:84-88).
OneOutputPerRow == pc = "returned" => result = [i \in 1..count |-> Infer(i)]

\* Full chunks come first: no more than the last one is padded.
FullChunksFirst ==
  \A k \in 1..Len(chunks) :
    /\ chunks[k].valid \in 1..size
    /\ k < Len(chunks) => chunks[k].valid = size

=============================================================================
