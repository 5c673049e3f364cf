---------------------------- MODULE MCScheduling ----------------------------
(* Scheduling with a few calls for TLC. *)
EXTENDS Scheduling, TLC

CONSTANTS t1, t2, t3, t4, cpu, gpu, odd, w1, w2

\* Two polls, which are cpu work, a call of a gpu layer and one of a layer with a
\* role of its own.
AllTasks == {t1, t2, t3, t4}
Polls == {t1, t2}
SourceOfTask == (t1 :> cpu) @@ (t2 :> cpu) @@ (t3 :> gpu) @@ (t4 :> odd)
AllSources == {cpu, gpu, odd}
SourceRole == (cpu :> "cpu") @@ (gpu :> "gpu") @@ (odd :> "inference")

TwoPartitions == <<"cpu", "gpu">>
Setup(calls, exits) == [calls |-> calls, exits |-> exits]
Sound == {Setup({t1, t2}, FALSE), Setup({t3, t4}, FALSE), Setup({t1}, TRUE)}

NoTasks == {}
OneWorker == {w1}
TwoWorkers == {w1, w2}

=============================================================================
