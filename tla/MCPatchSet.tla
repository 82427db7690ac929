----------------------------- MODULE MCPatchSet -----------------------------
(***************************************************************************)
(* PatchSet for TLC.  Paths of a kind, and texts that are neither blank    *)
(* nor broken, are only compared for equality.                             *)
(***************************************************************************)
EXTENDS PatchSet, TLC

Symmetry ==
  Permutations(Python) \cup Permutations(Scripts)
    \cup Permutations(Texts \ (Broken \cup {Blank}))
=============================================================================
