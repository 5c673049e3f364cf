-------------------------------- MODULE Api ----------------------------------
(***************************************************************************)
(* What a sharded project promises to those who call its /api              *)
(* (docs/feature_sharding.md): wherever a request is sent, the module that *)
(* owns its path answers it, as if the project were one process; or the    *)
(* request fails, in the end.                                              *)
(***************************************************************************)

CONSTANTS Requests, None, Failed

VARIABLES
  due,    \* the answers each request may get: those of the whole project in one process
  answer  \* the one it has got; None while it is under way

vars == <<due, answer>>

Init == answer = [r \in Requests |-> None]

Answers(r) == answer[r] = None /\ answer'[r] \in due[r] \cup {Failed}

\* When a process ends, several fail at once.
Next ==
  /\ answer' = [r \in Requests |-> answer'[r]]
  /\ \A r \in Requests : Answers(r) \/ answer'[r] = answer[r]
  /\ UNCHANGED due

Spec == Init /\ [][Next]_vars

=============================================================================
