---------------------------- MODULE MCHandlePool ----------------------------
(* HandlePool with two threads for TLC, showing promises broken. *)
EXTENDS HandlePool

CONSTANTS t1, t2

TwoThreads == {t1, t2}

Setup(n, cached) == [threads |-> TwoThreads, parallellism |-> n, cached |-> cached]

MadeForOne == {Setup(1, FALSE)}
RacedFor == {Setup(2, TRUE)}

=============================================================================
