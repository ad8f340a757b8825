----------------------------- MODULE RunLifecycle -----------------------------
(***************************************************************************)
(* What an agent run promises, with no lease, clock, queue or worker: it   *)
(* starts at most Budget[r] times, its results become visible all at once   *)
(* and only when it completes, a completed or cancelled run is final, and  *)
(* only an operator brings a failed run back, while it has attempts left.  *)
(***************************************************************************)
EXTENDS Integers

CONSTANTS Runs, Budget

VARIABLES
  status,  \* status[r]: "ABSENT" until the run is admitted
  left,    \* left[r]: the attempts it may still start
  result   \* result[r]: its facts are visible to the rest of the platform

vars == <<status, left, result>>

Statuses == {"ABSENT", "QUEUED", "RUNNING", "COMPLETED", "FAILED", "CANCELLED"}

Init == /\ status = [r \in Runs |-> "ABSENT"]
        /\ left = Budget
        /\ result = [r \in Runs |-> FALSE]

Moves(r, from, to) == status[r] \in from /\ status'[r] = to

Start(r) == /\ Moves(r, {"QUEUED"}, "RUNNING")
            /\ left'[r] = left[r] - 1
            /\ result'[r] = result[r]

Publish(r) == /\ Moves(r, {"RUNNING"}, "COMPLETED")
              /\ left'[r] = left[r]
              /\ result'[r]

\* Admission, a failure, a cancellation, and any way back to the queue.
Other(r) == /\ \/ Moves(r, {"ABSENT"}, "QUEUED")
               \/ Moves(r, {"RUNNING", "FAILED"}, "QUEUED") /\ left[r] > 0
               \/ Moves(r, {"RUNNING"}, "FAILED")
               \/ Moves(r, {"QUEUED", "RUNNING"}, "CANCELLED")
            /\ left'[r] = left[r]
            /\ result'[r] = result[r]

Stay(r) == /\ status'[r] = status[r]
           /\ left'[r] = left[r]
           /\ result'[r] = result[r]

\* One recovery transaction may move several runs.
Next == /\ status' \in [Runs -> Statuses]
        /\ left' \in [Runs -> Nat]
        /\ result' \in [Runs -> BOOLEAN]
        /\ \A r \in Runs : Start(r) \/ Publish(r) \/ Other(r) \/ Stay(r)

Spec == Init /\ [][Next]_vars
=============================================================================
