------------------------------ MODULE Sandbox ------------------------------
(***************************************************************************)
(* The validation of a patch: the client in the worker, the runner behind  *)
(* HTTP (infrastructure/sandbox/) and the containers it starts, two for a  *)
(* file (infrastructure/docker/docker_executor.py).  A container is known  *)
(* by what is in its /tmp, a tmpfs that goes with it.                      *)
(***************************************************************************)
EXTENDS Naturals, FiniteSets

CONSTANTS
  Validations,  \* calls of validate_generated_code
  Files,        \* the files a patch may have, a finite set of [path, lang, text]
  MaxFiles,     \* files of a patch the runner accepts (20)
  NoFile        \* no file is being checked, a model value

\* lang is "py", "js", "sh" for a shell script, or "other".  text is what the
\* checks make of it: dangerous for scan_generated_code, unnameable for
\* _safe_basename, huge, or what the compiler says, valid or broken.

VARIABLES
  runner,     \* where: "remote", "local", or "unset" in production
  patch,      \* validation -> generated_code
  verdict,    \* validation -> what the worker got, "none" so far
  step,       \* validation -> progress in run_tests
  phase,      \* validation -> what its container is for
  todo,       \* validation -> files still to be checked
  file,       \* validation -> the file being checked
  tmp,        \* validation -> files in /tmp of its container
  exitOk,     \* validation -> how the last container ended
  allOk,      \* validation -> no file failed so far
  disturbed   \* history variable: validations with a fault outside the program

loop == <<phase, todo, file, tmp, exitOk, allOk>>
vars == <<runner, patch, verdict, step, loop, disturbed>>

TypeOK ==
  /\ runner \in {"remote", "local", "unset"}
  /\ patch \in [Validations -> SUBSET Files]
  /\ verdict \in [Validations -> {"none", "passed", "failed", "error"}]
  /\ step \in [Validations -> {"new", "scan", "next", "start", "run", "remove", "returned"}]
  /\ phase \in [Validations -> {"write", "check"}]
  /\ todo \in [Validations -> SUBSET Files]
  /\ file \in [Validations -> Files \cup {NoFile}]
  /\ tmp \in [Validations -> SUBSET Files]
  /\ exitOk \in [Validations -> BOOLEAN]
  /\ allOk \in [Validations -> BOOLEAN]
  /\ disturbed \subseteq Validations

Init ==
  /\ runner \in {"remote", "local", "unset"}
  /\ patch \in [Validations -> SUBSET Files]
  /\ verdict = [v \in Validations |-> "none"]
  /\ step = [v \in Validations |-> "new"]
  /\ phase = [v \in Validations |-> "write"]
  /\ todo = [v \in Validations |-> {}]
  /\ file = [v \in Validations |-> NoFile]
  /\ tmp = [v \in Validations |-> {}]
  /\ exitOk = [v \in Validations |-> FALSE]
  /\ allOk = [v \in Validations |-> TRUE]
  /\ disturbed = {}

Go(v, to) == step' = [step EXCEPT ![v] = to]

\* The worker gets the answer unless it has given up.
Answer(v, result) ==
  /\ Go(v, "returned")
  /\ verdict' = [verdict EXCEPT ![v] = IF @ = "none" THEN result ELSE @]

Validate(v) ==
  /\ step[v] = "new"
  /\ IF \/ runner = "unset"
        \/ runner = "remote" /\ (patch[v] = {} \/ Cardinality(patch[v]) > MaxFiles)
     THEN Answer(v, "failed")
     ELSE Go(v, "scan") /\ UNCHANGED verdict
  /\ UNCHANGED <<runner, patch, loop, disturbed>>

Of(v, lang) == {f \in patch[v] : f.lang = lang}

\* All but the "other" files are scanned.  Python only is checked, or JS/TS
\* without Python; the other files of such a patch are not.
Scan(v) ==
  /\ step[v] = "scan"
  /\ LET checked == IF Of(v, "py") = patch[v] THEN Of(v, "py")
                    ELSE IF Of(v, "py") = {} THEN Of(v, "js") ELSE {}
     IN  IF checked = {} \/ \E f \in patch[v] : f.text = "dangerous" /\ f.lang # "other"
         THEN Answer(v, "failed") /\ UNCHANGED todo
         ELSE /\ Go(v, "next")
              /\ todo' = [todo EXCEPT ![v] = checked]
              /\ UNCHANGED verdict
  /\ UNCHANGED <<runner, patch, phase, file, tmp, exitOk, allOk, disturbed>>

\* A file without a usable name raises, which only the runner turns into an
\* answer; one that is too large fails without a container.
NextFile(v, f) ==
  /\ step[v] = "next"
  /\ f \in todo[v]
  /\ todo' = [todo EXCEPT ![v] = @ \ {f}]
  /\ CASE f.text = "unnameable" ->
            /\ Answer(v, IF runner = "remote" THEN "failed" ELSE "error")
            /\ UNCHANGED <<phase, file, allOk>>
       [] f.text = "huge" ->
            /\ allOk' = [allOk EXCEPT ![v] = FALSE]
            /\ UNCHANGED <<step, verdict, phase, file>>
       [] OTHER ->
            /\ Go(v, "start")
            /\ phase' = [phase EXCEPT ![v] = "write"]
            /\ file' = [file EXCEPT ![v] = f]
            /\ UNCHANGED <<verdict, allOk>>
  /\ UNCHANGED <<runner, patch, tmp, exitOk, disturbed>>

\* containers.run: the root file system is read-only, /tmp is a new tmpfs.
StartContainer(v) ==
  /\ step[v] = "start"
  /\ Go(v, "run")
  /\ tmp' = [tmp EXCEPT ![v] = {}]
  /\ UNCHANGED <<runner, patch, verdict, phase, todo, file, exitOk, allOk, disturbed>>

\* The command of the container ends: the file is written, or compiled.
CommandEnds(v) ==
  /\ step[v] = "run"
  /\ Go(v, "remove")
  /\ IF phase[v] = "write"
     THEN /\ tmp' = [tmp EXCEPT ![v] = @ \cup {file[v]}]
          /\ exitOk' = [exitOk EXCEPT ![v] = TRUE]
     ELSE /\ exitOk' = [exitOk EXCEPT ![v] = file[v] \in tmp[v] /\ file[v].text = "valid"]
          /\ UNCHANGED tmp
  /\ UNCHANGED <<runner, patch, verdict, phase, todo, file, allOk, disturbed>>

\* The daemon refuses, the command takes over a minute or runs out of memory.
ContainerFails(v) ==
  /\ step[v] \in {"start", "run"}
  /\ Go(v, "remove")
  /\ exitOk' = [exitOk EXCEPT ![v] = FALSE]
  /\ disturbed' = disturbed \cup {v}
  /\ UNCHANGED <<runner, patch, verdict, phase, todo, file, tmp, allOk>>

\* The container goes, in a finally clause, and its /tmp with it.
RemoveContainer(v) ==
  /\ step[v] = "remove"
  /\ tmp' = [tmp EXCEPT ![v] = {}]
  /\ IF phase[v] = "write" /\ exitOk[v]
     THEN Go(v, "start") /\ phase' = [phase EXCEPT ![v] = "check"] /\ UNCHANGED allOk
     ELSE Go(v, "next") /\ allOk' = [allOk EXCEPT ![v] = @ /\ exitOk[v]] /\ UNCHANGED phase
  /\ UNCHANGED <<runner, patch, verdict, todo, file, exitOk, disturbed>>

Return(v) ==
  /\ step[v] = "next"
  /\ todo[v] = {}
  /\ Answer(v, IF allOk[v] THEN "passed" ELSE "failed")
  /\ UNCHANGED <<runner, patch, loop, disturbed>>

\* The client waits two minutes, the runner up to two for each file; or the
\* runner cannot be reached, or refuses the secret.
ClientGivesUp(v) ==
  /\ runner = "remote" /\ verdict[v] = "none"
  /\ verdict' = [verdict EXCEPT ![v] = "failed"]
  /\ disturbed' = disturbed \cup {v}
  /\ UNCHANGED <<runner, patch, step, loop>>

Next == \E v \in Validations :
  \/ Validate(v) \/ Scan(v) \/ StartContainer(v) \/ CommandEnds(v)
  \/ ContainerFails(v) \/ RemoveContainer(v) \/ Return(v) \/ ClientGivesUp(v)
  \/ \E f \in Files : NextFile(v, f)

Spec == Init /\ [][Next]_vars

(***************************************************************************)
(* Properties.                                                             *)
(***************************************************************************)

\* "Validate generated code via syntax checks only (py_compile / node --check)"
\* (docker_executor.py:141): a patch of Python files, or of JS/TS files, that
\* all compile is not turned down unless Docker or the network fails.
ValidPasses ==
  \A v \in Validations :
    /\ verdict[v] = "failed"
    /\ runner # "unset"
    /\ patch[v] # {} /\ Cardinality(patch[v]) <= MaxFiles
    /\ Of(v, "py") = patch[v] \/ Of(v, "js") = patch[v]
    => (\E f \in patch[v] : f.text # "valid") \/ v \in disturbed
=============================================================================
