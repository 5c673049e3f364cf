------------------------------ MODULE MCWindow ------------------------------
(* Window with two pumps and a few items for TLC. *)
EXTENDS Window, TLC

CONSTANTS p1, p2

OnePump == {p1}
TwoPumps == {p1, p2}

\* Items that can be framed, and a None before them.
Plain == [none |-> {}, bad |-> {}, raises |-> FALSE]
NoneFirst == [Plain EXCEPT !.none = {1}]
\* Whatever can go wrong does.
Faulty == [none |-> {1}, bad |-> {3}, raises |-> TRUE]

Sound == {Plain, NoneFirst, Faulty}
Holes == {NoneFirst}
BadFirst == {[Plain EXCEPT !.bad = {1}]}
Raising == {[Plain EXCEPT !.raises = TRUE]}

=============================================================================
