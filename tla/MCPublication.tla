--------------------------- MODULE MCPublication ---------------------------
(***************************************************************************)
(* Publication for TLC.  Runs, paths and branch names are only compared.   *)
(***************************************************************************)
EXTENDS Publication, TLC

Symmetry ==
  Permutations(Runs) \cup Permutations(Paths) \cup Permutations(Branches)
=============================================================================
