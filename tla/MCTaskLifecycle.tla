-------------------------- MODULE MCTaskLifecycle --------------------------
(***************************************************************************)
(* TaskLifecycle for TLC.  Jobs, and the requests to one endpoint, are     *)
(* interchangeable, so runs that check no liveness use Symmetry.           *)
(***************************************************************************)
EXTENDS TaskLifecycle, TLC

Symmetry ==
  Permutations(Jobs) \cup Permutations(Cancels) \cup Permutations(Retries)

\* A retry needs a message of its own: a job for each retry, one for submit.
ASSUME EnoughJobs == Cardinality(Jobs) >= 1 + Cardinality(Retries)
=============================================================================
