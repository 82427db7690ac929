---------------------------- MODULE MCRepoIndex ----------------------------
(***************************************************************************)
(* RepoIndex for TLC.  Paths, and blobs, are only compared for equality;   *)
(* so are the runs.                                                        *)
(***************************************************************************)
EXTENDS RepoIndex, TLC

Symmetry == Permutations(Paths) \cup Permutations(Blobs) \cup Permutations(Syncs)
=============================================================================
