------------------------- MODULE IngestionLifecycle -------------------------
(***************************************************************************)
(* What an ingestion job promises its callers, with no table, lease or     *)
(* clock: a job moves only along the table of legal transitions, every     *)
(* start consumes one attempt of a finite budget, and a job that waits to  *)
(* run again still has an attempt left.  The table is                      *)
(* domain/ingestion/models.py:_LEGAL_TRANSITIONS; no statement of the job  *)
(* store consults it, so that the store respects it is a refinement to     *)
(* check, not an assertion the program makes.                              *)
(***************************************************************************)
EXTENDS Integers

CONSTANT Jobs

VARIABLES
  state,   \* state[j]: "ABSENT" until the job's row is inserted
  left     \* left[j]: attempts the job may still start

vars == <<state, left>>

FinalStates == {"SUCCEEDED", "COMPLETED_WITH_GAPS", "FAILED", "DEAD_LETTER", "CANCELLED"}
ActiveStates == {"QUEUED", "RUNNING", "RETRY_SCHEDULED"}
States == {"ABSENT"} \cup ActiveStates \cup FinalStates

\* The states a job may move to: the final states have no way out.
LegalTransitions ==
  [s \in States |->
    CASE s = "QUEUED"          -> {"RUNNING", "CANCELLED"}
      [] s = "RUNNING"         -> (FinalStates \ {"CANCELLED"}) \cup {"RETRY_SCHEDULED"}
      [] s = "RETRY_SCHEDULED" -> {"QUEUED", "CANCELLED"}
      [] OTHER                 -> {}]

Init == /\ state = [j \in Jobs |-> "ABSENT"]
        /\ left = [j \in Jobs |-> 0]

Admit(j) == /\ state[j] = "ABSENT"
            /\ state'[j] = "QUEUED"
            /\ left'[j] > 0

Start(j) == /\ state'[j] = "RUNNING"
            /\ left'[j] = left[j] - 1

Leave(j) == /\ state'[j] # "RUNNING"
            /\ state'[j] \in ActiveStates => left[j] > 0
            /\ left'[j] = left[j]

Transition(j) == /\ state'[j] \in LegalTransitions[state[j]]
                 /\ Start(j) \/ Leave(j)

Stay(j) == /\ state'[j] = state[j]
           /\ left'[j] = left[j]

\* One statement of the store may move several jobs: each moves legally or stays.
Next == /\ state' \in [Jobs -> States]
        /\ left' \in [Jobs -> Nat]
        /\ \A j \in Jobs : Admit(j) \/ Transition(j) \/ Stay(j)

Spec == Init /\ [][Next]_vars
=============================================================================
