------------------------------ MODULE MCBundles ------------------------------
(* Bundles with a few edits and launches for TLC. *)
EXTENDS Bundles

Both == BOOLEAN
Always == {TRUE}
Never == {FALSE}

\* Every edit brings new text, or the last one brings the first text back.
Onwards == {[v \in Versions |-> v]}
Back == {[v \in Versions |-> v % MaxEdits]}
OnwardsAndBack == Onwards \cup Back

=============================================================================
