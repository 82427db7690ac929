----------------------------- MODULE MCSandbox -----------------------------
(* Small instances of Sandbox for TLC. *)
EXTENDS Sandbox

\* Two modules that compile, one that does not, a script, a dangerous shell
\* script and a style sheet.
SmallPatchFiles ==
  {[path |-> "a", lang |-> "py", text |-> "valid"],
   [path |-> "b", lang |-> "py", text |-> "valid"],
   [path |-> "c", lang |-> "py", text |-> "broken"],
   [path |-> "d", lang |-> "js", text |-> "valid"],
   [path |-> "e", lang |-> "sh", text |-> "dangerous"],
   [path |-> "f", lang |-> "other", text |-> "valid"]}
=============================================================================
