------------------------------ MODULE MCDevices ------------------------------
(* Devices with two threads for TLC. *)
EXTENDS Devices

CONSTANTS t1, t2

TwoThreads == {t1, t2}

\* All kinds of calls on a machine that works; calls where the driver does not; each
\* with invalidations that overlap other calls or do not.
Usual == [made |-> TRUE, cuda |-> FALSE, apart |-> TRUE, faults |-> FALSE,
          calls |-> {"call", "eval", "move", "copy"}]
WithCuda == [Usual EXCEPT !.cuda = TRUE]
Unmade == [Usual EXCEPT !.made = FALSE, !.calls = {"call", "copy"}]
Faults == [Usual EXCEPT !.faults = TRUE, !.calls = {"call", "eval"}]
Overlapping == [Faults EXCEPT !.apart = FALSE, !.faults = FALSE]

PassingCases == {Usual, WithCuda, Unmade, Faults, Overlapping}

\* Beyond the conditions under which the properties hold.
UnmadeCases == {Unmade}
FaultCases == {[Faults EXCEPT !.calls = {"call", "copy"}]}
OverlappingCases == {[Overlapping EXCEPT !.faults = TRUE]}

=============================================================================
