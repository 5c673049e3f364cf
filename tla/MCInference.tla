----------------------------- MODULE MCInference -----------------------------
(* Inference with up to three threads, for TLC; the model tells rows apart. *)
EXTENDS Inference

CONSTANTS t1, t2, t3

ThreeThreads == {t1, t2, t3}

Squared(row) == row * row + 1

SmallSizes == 1..5
SmallCounts == 0..12

Setup(threads, n, cached) ==
  [threads |-> threads, parallellism |-> n, cached |-> cached]

\* One thread for itself, as many as there are handles, or more.
Sound ==
  {Setup({t1}, 1, TRUE), Setup({t1, t2, t3}, 3, FALSE),
   Setup({t1, t2, t3}, 3, TRUE), Setup({t1, t2, t3}, 2, TRUE)}

==============================================================================
