---------------------------- MODULE MCCodeContext ----------------------------
(***************************************************************************)
(* CodeContext for TLC: a module of the server, an entry point that        *)
(* imports it, a Dockerfile, which is not indexed, and a workflow under    *)
(* .github with the path it has without the dot.                           *)
(***************************************************************************)
EXTENDS CodeContext, TLC

Symmetry == Permutations(Chunks)

MCPaths == {"server/a.py", "main.py", "Dockerfile", ".github/ci.yml", "github/ci.yml"}
MCServer == {"server/a.py", ".github/ci.yml"}
MCIndexed == MCPaths \ {"Dockerfile", "github/ci.yml"}
MCEntry == {"main.py"}
MCClean == [p \in MCPaths |-> IF p = ".github/ci.yml" THEN "github/ci.yml" ELSE p]
MCImports == [p \in MCPaths |-> IF p = "main.py" THEN {"server/a.py"} ELSE {}]
MCTokens == [p \in MCPaths |-> IF p = "main.py" THEN 2 ELSE 1]

\* Bound: the repository has the entry point and the workflow, and either of the
\* module and the Dockerfile; nothing has the workflow's path without the dot.
SmallInit ==
  Init /\ {"main.py", ".github/ci.yml"} \subseteq repo /\ "github/ci.yml" \notin repo
SmallSpec == SmallInit /\ [][Next]_vars
=============================================================================
