----------------------------- MODULE MCExecution -----------------------------
(* Execution with two owners for TLC: the layers and the faults that are looked at. *)
EXTENDS Execution

CONSTANTS o1, o2, b1, b2

TwoOwners == {o1, o2}
TwoBatches == {b1, b2}

\* One batch with two frames of each owner; or two with one of each.
One == {f \in Frames : f.batch = b1}
Two == {f \in Frames : f.index = 1}

Plain == [frames |-> One, workers |-> 1, shared |-> FALSE, coroutine |-> FALSE, consults |-> FALSE,
          asynchronous |-> FALSE, faulty |-> {}, leavable |-> {}, retryable |-> {},
          readyRaises |-> {}, discardRaises |-> {}]

\* One owner's frames make the handler raise, and the other's ready callback does.
Faults == [Plain EXCEPT !.faulty = {o1}, !.readyRaises = {o2}]
SharedFaults == [Faults EXCEPT !.shared = TRUE, !.faulty = TwoOwners]

\* One owner's discard callback raises, too.
Deaf == [Faults EXCEPT !.discardRaises = {o1}, !.readyRaises = {}]
SharedDeaf == [Deaf EXCEPT !.shared = TRUE]

\* Handlers that leave frames out of what they return, or have some retried; the same
\* in an asynchronous layer; and two batches with frames that are retried.
Leaving == [Plain EXCEPT !.workers = 2, !.faulty = {o2}, !.leavable = One,
                         !.retryable = {f \in One : f.index = 1}]
Asynchronous == [Leaving EXCEPT !.asynchronous = TRUE, !.readyRaises = {o2}]
Retried == [Plain EXCEPT !.frames = Two, !.workers = 2,
                         !.retryable = {f \in Two : f.owner = o1}]

\* A coroutine that may wait for a worker, and one worker more than there are batches.
Coroutines(workers) ==
  [Plain EXCEPT !.frames = Two, !.workers = workers, !.coroutine = TRUE,
                !.consults = TRUE, !.faulty = {o1}]

FaultSetups == {Faults, SharedFaults, Deaf, SharedDeaf}
CoroutineSetups == {Coroutines(3)}
HandlerSetups == {Leaving, Asynchronous, Retried}
PassingSetups == FaultSetups \cup CoroutineSetups \cup HandlerSetups

\* Beyond the conditions under which the properties hold: a discard callback that
\* raises, and no worker to spare.
DeafSetups == {Deaf, SharedDeaf}
HeldSetups == {Coroutines(2)}

=============================================================================
