------------------------------ MODULE AgentRun ------------------------------
(***************************************************************************)
(* What one run of the agent workflow promises, whatever else happens to   *)
(* the task row, the queues and the other runs: a patch is validated       *)
(* before it is published, is repaired at most MaxRetries times, is        *)
(* published at most once, and at most MaxLetters dead letters are written *)
(* once it is given up.  TaskLifecycle implements this for every job.      *)
(***************************************************************************)
EXTENDS Naturals

CONSTANTS
  MaxRetries,
  MaxLetters   \* 1, or 2 when a query may fail after the first is written

VARIABLES
  phase,     \* where the run stands
  repairs,   \* calls of the fix agent that were completed
  opened,    \* a pull request of this run exists on GitHub
  letters    \* rows of the dead letter queue written for this run

runVars == <<phase, repairs, opened, letters>>

\* The phases in which the run may still do something.
Live == {"editing", "valid", "invalid", "published", "rejected"}

Phases == Live \cup {"waiting", "over"}

Init ==
  /\ phase = "waiting"
  /\ repairs = 0
  /\ opened = FALSE
  /\ letters = 0

Start ==
  /\ phase = "waiting"
  /\ phase' = "editing"
  /\ UNCHANGED <<repairs, opened, letters>>

Validate ==
  /\ phase = "editing"
  /\ phase' \in {"valid", "invalid"}
  /\ UNCHANGED <<repairs, opened, letters>>

Repair ==
  /\ phase = "invalid"
  /\ repairs < MaxRetries
  /\ phase' = "editing"
  /\ repairs' = repairs + 1
  /\ UNCHANGED <<opened, letters>>

Publish ==
  /\ phase = "valid"
  /\ ~opened
  /\ phase' = "published"
  /\ opened' = TRUE
  /\ UNCHANGED <<repairs, letters>>

\* A step failed, or the repairs are used up.
Reject ==
  /\ phase \in Live \ {"rejected"}
  /\ phase' = "rejected"
  /\ UNCHANGED <<repairs, opened, letters>>

\* The letter is committed before the run is over.
DeadLetter ==
  /\ phase = "rejected"
  /\ letters < MaxLetters
  /\ letters' = letters + 1
  /\ UNCHANGED <<phase, repairs, opened>>

\* The run ends: completed, noticed a cancellation, was killed or was dropped.
Stop ==
  /\ phase \in Live \cup {"waiting"}
  /\ phase' = "over"
  /\ UNCHANGED <<repairs, opened, letters>>

Next == Start \/ Validate \/ Repair \/ Publish \/ Reject \/ DeadLetter \/ Stop

Spec == Init /\ [][Next]_runVars
=============================================================================
