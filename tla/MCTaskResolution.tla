-------------------------- MODULE MCTaskResolution --------------------------
(* TaskResolution with a few frames and calls for TLC. *)
EXTENDS TaskResolution, TLC

CONSTANTS f1, f2, f3, c1, c2, c3, layer

TwoOfThree == {f1, f2}
OneOfTwo == {f1}

ThreeFrames == {f1, f2, f3}
TwoFrames == {f1, f2}

ThreeCalls == {c1, c2, c3}
TwoCalls == {c1, c2}

AnyLayer == BOOLEAN
AsynchronousLayer == {TRUE}
SynchronousLayer == {FALSE}

\* Calls are interchangeable, and so are the frames of the batch.
BatchSymmetry == Permutations(ThreeCalls) \cup Permutations(TwoOfThree)

=============================================================================
