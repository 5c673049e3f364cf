----------------------------- MODULE MCPipeline -----------------------------
(* Pipeline with one or two owners and a few frames for TLC. *)
EXTENDS Pipeline, TLC

CONSTANTS o1, o2

TwoOwners == {o1, o2}

UpTo(o, n) == {f \in Frames : f.owner = o /\ f.index <= n}
FirstFrame == UpTo(o1, 0)

\* One owner's frames 0..n and handlers that return whatever they get.
Plain(n) ==
  [fed |-> UpTo(o1, n), contiguous |-> {}, discardable |-> {}, droppable |-> {},
   careful |-> FALSE, retryable |-> {}, retries |-> 0, raising |-> {}]

\* A retry behind a contiguous layer.
Retrying == [Plain(MaxIndex) EXCEPT !.contiguous = {1}, !.retryable = {2}, !.retries = 1]
\* Discards in and behind contiguous layers.
Discarding ==
  [Plain(MaxIndex) EXCEPT !.contiguous = {1, 2}, !.discardable = Frames, !.careful = TRUE]
\* Two owners, one of whose handlers and callbacks do all that they should not.
Mixed ==
  [Plain(1) EXCEPT !.fed = @ \cup UpTo(o2, 0), !.discardable = UpTo(o1, 1),
                   !.droppable = UpTo(o1, 1), !.raising = {o1}]

\* Handlers that work side by side and a retry bring the frames out of their order.
Overtaking == [Plain(2) EXCEPT !.retryable = {1}, !.retries = 1]

Sound == {Retrying, Discarding, Mixed, Overtaking}

\* Those that break a promise.
Defaults == {Plain(1)}
Dropping == {[Plain(1) EXCEPT !.droppable = FirstFrame]}
Ordered == {[Plain(1) EXCEPT !.contiguous = {1}]}
Raising == {[Plain(1) EXCEPT !.raising = {o1}]}

=============================================================================
