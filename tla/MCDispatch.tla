----------------------------- MODULE MCDispatch -----------------------------
(* Dispatch with two or three calls, which break promises, for TLC. *)
EXTENDS Dispatch, TLC

CONSTANTS t1, t2, t3, s1, s2, s3, w1, w2

TwoTasks == {t1, t2}
ThreeTasks == {t1, t2, t3}
ThreeSources == {s1, s2, s3}
OneWorker == {w1}
TwoWorkers == {w1, w2}
NoTasks == {}
FirstTask == {t1}

\* A call on each of two partitions.
TwoSourceOfTask == (t1 :> s1) @@ (t2 :> s2)
\* Two gpu calls and one of a cpu layer.
GpuSourceOfTask == (t1 :> s2) @@ (t2 :> s2) @@ (t3 :> s1)
\* One call of a source with a role of its own.
OddSourceOfTask == (t1 :> s1) @@ (t2 :> s3)

SourceRole == (s1 :> "cpu") @@ (s2 :> "gpu") @@ (s3 :> "inference")

TwoPartitions == <<"cpu", "gpu">>

=============================================================================
