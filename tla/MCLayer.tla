------------------------------ MODULE MCLayer -------------------------------
(* Layer with small sets of owners, frames and workers for TLC. *)
EXTENDS Layer, TLC

CONSTANTS o1, o2, w1, w2

TwoOwners == {o1, o2}
TwoWorkers == {w1, w2}

UpTo(O, n) == {f \in Frames : f.owner \in O /\ f.index <= n}

\* A layer with the defaults that one owner's frames 0..n come to.
Plain(n) ==
  [frames |-> UpTo({o1}, n), minBatch |-> 1, contiguous |-> FALSE, yields |-> TRUE,
   discardable |-> {}, retries |-> 0, closers |-> {}]

Ordered(n) == [Plain(n) EXCEPT !.contiguous = TRUE]
First == UpTo({o1}, 0)
Later(n) == UpTo({o1}, n) \ First

\* Two owners, one of whose frames may be discarded, and a retry.
Shared ==
  [Plain(1) EXCEPT !.frames = @ \cup UpTo({o2}, 0), !.retries = 1,
                   !.discardable = UpTo({o2}, 0)]
\* A contiguous layer, with the first frame discarded or not.
InOrder == [Ordered(2) EXCEPT !.discardable = First]
\* A batch of two to wait for.
Batching == [Ordered(2) EXCEPT !.minBatch = 2]
\* One of two owners closes.
Closing ==
  [Ordered(0) EXCEPT !.frames = @ \cup UpTo({o2}, 1), !.closers = {o1}]

Sound == {Shared, InOrder, Batching, Closing}

\* Those that break a promise.
Overshooting == {[Plain(4) EXCEPT !.minBatch = 2]}
NeverYielding == {[Ordered(1) EXCEPT !.minBatch = 2, !.yields = FALSE]}
DiscardingAhead == {[Ordered(2) EXCEPT !.discardable = Later(2)]}
RetryingInOrder == {[Ordered(1) EXCEPT !.retries = 1]}

=============================================================================
