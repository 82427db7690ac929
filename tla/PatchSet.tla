------------------------------ MODULE PatchSet ------------------------------
(***************************************************************************)
(* What one walk through the agent graph does to the patch: the files read *)
(* from the repository, the allowlist plan.files_to_modify, the code the   *)
(* writer and the fix agent generate, its validation and the files that    *)
(* are committed.  The agents answer anything.  A text stands for all file *)
(* contents with the same meaningful lines (minimal_patch.py), a file that *)
(* does not exist has none of them.                                        *)
(***************************************************************************)
EXTENDS Naturals, FiniteSets

CONSTANTS
  Python,       \* .py paths
  Scripts,      \* JavaScript and TypeScript paths
  Others,       \* other paths, which the sandbox does not check
  Texts,        \* contents, up to blank lines and trailing blanks
  Blank,        \* the content without meaningful lines
  Broken,       \* texts that do not parse
  Absent,       \* no such file, or a directory at the path; no such entry
  MaxTargets,   \* settings.CONTEXT_TARGET_MAX_FILES
  MaxExtra,     \* settings.PLAN_HINTS_MAX_EXTRA_FILES
  MaxAllowed,   \* settings.CONTEXT_ALLOWLIST_MAX_FILES
  MaxRetries,   \* settings.MAX_RETRIES
  SkipTests,    \* settings.WORKFLOW_SKIP_TESTS
  FetchFails    \* GitHub may refuse a file that exists

Paths == Python \cup Scripts \cup Others

ASSUME PathsAssumption ==
  /\ IsFiniteSet(Paths)
  /\ Python \cap Scripts = {}
  /\ Others \cap (Python \cup Scripts) = {}

ASSUME TextsAssumption == Blank \in Texts /\ Broken \subseteq Texts /\ Absent \notin Texts

ASSUME SettingsAssumption ==
  /\ {MaxTargets, MaxExtra, MaxAllowed, MaxRetries} \subseteq Nat
  /\ SkipTests \in BOOLEAN /\ FetchFails \in BOOLEAN

VARIABLES
  pc,          \* node of the graph, or how the walk ended
  repo,        \* path -> text on the default branch
  files,       \* repo_files: path -> text read, Blank for a file to create
  missed,      \* history variable: existing paths that could not be read
  allowed,     \* plan.files_to_modify
  generated,   \* generated_code: path -> text
  validated,   \* history variable: generated_code when it was last validated
  passed,      \* test_passed
  retryCount,  \* retry_count
  pr           \* path -> text committed to the branch of the pull request

vars == <<pc, repo, files, missed, allowed, generated, validated, passed,
          retryCount, pr>>

\* A dict from paths to contents.
Dicts == [Paths -> Texts \cup {Absent}]
Keys(dict) == {p \in Paths : dict[p] # Absent}
Empty == [p \in Paths |-> Absent]
Update(dict, new) == [p \in Paths |-> IF new[p] # Absent THEN new[p] ELSE dict[p]]
Only(dict, S) == [p \in Paths |-> IF p \in S THEN dict[p] ELSE Absent]

Working == {"read_code", "write_code", "write_again", "execute", "fix",
            "fix_again", "create_pr"}

TypeOK ==
  /\ pc \in Working \cup {"dlq", "published", "raised"}
  /\ {repo, files, generated, validated, pr} \subseteq Dicts
  /\ missed \subseteq Paths
  /\ allowed \subseteq Paths
  /\ passed \in BOOLEAN
  /\ retryCount \in 0..MaxRetries

Init ==
  /\ pc = "read_code"
  /\ repo \in Dicts
  /\ files = Empty
  /\ missed = {}
  /\ allowed = {}
  /\ generated = Empty
  /\ validated = Empty
  /\ passed = FALSE
  /\ retryCount = 0
  /\ pr = Empty

\* Meaningful lines differ; a file that does not exist has none.
HasSubstantiveChange(original, updated) ==
  updated # (IF original = Absent THEN Blank ELSE original)

FilterSubstantive(new, originals) ==
  Only(new, {p \in Keys(new) : HasSubstantiveChange(originals[p], new[p])})

-----------------------------------------------------------------------------
(* read_code: any files of the repository are at hand, from the cache of   *)
(* all files with an indexed extension or fetched one by one.              *)

ReadCode(targets, read) ==
  /\ pc = "read_code"
  /\ targets # {} /\ Cardinality(targets) <= MaxTargets
  /\ read \subseteq Keys(repo)
  /\ missed' = (targets \cap Keys(repo)) \ read
  /\ missed' # {} => FetchFails
  /\ allowed' = targets
  /\ files' = [p \in Paths |-> IF p \in read THEN repo[p]
                               ELSE IF p \in targets THEN Blank ELSE Absent]
  /\ pc' = "write_code"
  /\ UNCHANGED <<repo, generated, validated, passed, retryCount, pr>>

-----------------------------------------------------------------------------
(* expand_write_allowlist.                                                 *)

\* The paths are added in the order of the answer until the list is full.
Grown(extra) ==
  {larger \in SUBSET (allowed \cup extra) :
     /\ allowed \subseteq larger /\ larger # allowed
     /\ \/ larger = allowed \cup extra /\ Cardinality(larger) <= MaxAllowed
        \/ Cardinality(larger) = MaxAllowed}

\* Mutant: the bodies of the new paths are not fetched.
ExpandAllowlistBlindly(extra) ==
  /\ allowed' \in Grown(extra)
  /\ UNCHANGED <<files, missed>>

ExpandAllowlist(extra) ==
  \E larger \in Grown(extra) :
    LET need == (larger \ allowed) \cap (Keys(repo) \ Keys(files))
    IN  \E fetched \in SUBSET need :
          /\ need # fetched => FetchFails
          /\ allowed' = larger
          /\ files' = Update(files, Only(repo, fetched))
          /\ missed' = missed \cup (need \ fetched)

-----------------------------------------------------------------------------
(* write_code: the batches of the writer are one answer.                   *)

Written(answer) ==
  /\ generated' = FilterSubstantive(answer, files)
  /\ Keys(generated') # {}
  /\ pc' = "execute"
  /\ UNCHANGED <<repo, files, missed, allowed, validated, passed, retryCount, pr>>

WriteCode(answer) ==
  /\ pc = "write_code"
  /\ Keys(answer) # {}
  /\ Keys(answer) \subseteq allowed
  /\ Written(answer)

\* Extra files all of which are related to the plan: at most MaxExtra of them
\* are added.  The targets always come with _targets_from_plan_hints.
WriteExtra(answer) ==
  /\ pc = "write_code"
  /\ \E related \in SUBSET (Keys(answer) \ allowed) :
       /\ related # {}
       /\ Cardinality(related) <= MaxExtra
       /\ related = Keys(answer) \ allowed \/ Cardinality(related) = MaxExtra
       /\ ExpandAllowlist(related)
  /\ pc' = "write_again"
  /\ UNCHANGED <<repo, generated, validated, passed, retryCount, pr>>

\* Mutant: the second answer is not held to the allowlist.
WriteAgainUnchecked(answer) ==
  /\ pc = "write_again"
  /\ Keys(answer) # {}
  /\ Written(answer)

WriteAgain(answer) ==
  /\ pc = "write_again"
  /\ Keys(answer) # {}
  /\ Keys(answer) \subseteq allowed
  /\ Written(answer)

-----------------------------------------------------------------------------
(* execute, and where the graph goes from there.                           *)

Parses(dict) ==
  \A p \in Keys(dict) : p \in Python \cup Scripts => dict[p] \notin Broken

\* Python only, or no Python and some scripts, whose other files are not checked.
\* A check that does not find its file, as in a container of its own, fails, which
\* Execute allows for any code.
RunTests(dict) ==
  /\ Keys(dict) # {}
  /\ \/ Keys(dict) \subseteq Python
     \/ Keys(dict) \cap Scripts # {} /\ Keys(dict) \cap Python = {}
  /\ Parses(dict)

\* Mutant: one fix too many.
RouteOneMore(ok) ==
  IF ok THEN "create_pr" ELSE IF retryCount <= MaxRetries THEN "fix" ELSE "dlq"

RouteAfterExecute(ok) ==
  IF ok THEN "create_pr" ELSE IF retryCount < MaxRetries THEN "fix" ELSE "dlq"

\* The sandbox may fail, which counts as failed tests.
Execute ==
  /\ pc = "execute"
  /\ passed' \in {FALSE, SkipTests \/ RunTests(generated)}
  /\ SkipTests => passed'
  /\ validated' = generated
  /\ pc' = RouteAfterExecute(passed')
  /\ UNCHANGED <<repo, files, missed, allowed, generated, retryCount, pr>>

-----------------------------------------------------------------------------
(* fix: the allowlist is what is generated already.                        *)

\* Mutant: a fix is committed without another validation.
FixedUnchecked(answer) ==
  /\ generated' = Update(generated, answer)
  /\ retryCount' = retryCount + 1
  /\ pc' = "create_pr"
  /\ UNCHANGED <<repo, files, missed, allowed, validated, passed, pr>>

\* The answer replaces the generated code.
Fixed(answer) ==
  /\ generated' = LET kept == FilterSubstantive(answer, generated)
                  IN  IF Keys(kept) = {} THEN answer ELSE kept
  /\ retryCount' = retryCount + 1
  /\ pc' = "execute"
  /\ UNCHANGED <<repo, files, missed, allowed, validated, passed, pr>>

Fix(answer) ==
  /\ pc = "fix"
  /\ Keys(answer) # {}
  /\ Keys(answer) \subseteq Keys(generated)
  /\ Fixed(answer)

\* Every extra path that was read joins the generated code, also one that the
\* full allowlist had no room for.
FixExtra(answer) ==
  LET extra == Keys(answer) \ Keys(generated)
  IN  /\ pc = "fix"
      /\ extra # {}
      /\ ExpandAllowlist(extra)
      /\ generated' = Update(Only(files', extra), generated)
      /\ pc' = "fix_again"
      /\ UNCHANGED <<repo, validated, passed, retryCount, pr>>

FixAgain(answer) ==
  /\ pc = "fix_again"
  /\ Keys(answer) # {}
  /\ Keys(answer) \subseteq Keys(generated)
  /\ Fixed(answer)

-----------------------------------------------------------------------------
(* create_pr: one commit of all files that differ from what was read.      *)

CreatePr ==
  /\ pc = "create_pr"
  /\ Keys(FilterSubstantive(generated, files)) # {}
  /\ pr' = FilterSubstantive(generated, files)
  /\ pc' = "published"
  /\ UNCHANGED <<repo, files, missed, allowed, generated, validated, passed,
                 retryCount>>

\* An invalid answer, an unrelated or refused extra path, unsafe code, no
\* change at all, GitHub or a model that fails: the node raises.
Raise ==
  /\ pc \in Working
  /\ pc' = "raised"
  /\ UNCHANGED <<repo, files, missed, allowed, generated, validated, passed,
                 retryCount, pr>>

Next ==
  \/ \E targets, read \in SUBSET Paths : ReadCode(targets, read)
  \/ \E answer \in Dicts :
       \/ WriteCode(answer) \/ WriteExtra(answer) \/ WriteAgain(answer)
       \/ Fix(answer) \/ FixExtra(answer) \/ FixAgain(answer)
  \/ Execute \/ CreatePr \/ Raise

Spec == Init /\ [][Next]_vars

-----------------------------------------------------------------------------
(* Properties.                                                             *)

\* Whatever the agents answer and however often the code was fixed, the pull
\* request holds only texts that were validated together, its Python files and
\* scripts parse, and it does not mix them (nodes.py:463-492 relies on the
\* generated code staying as node_execute saw it).
CommittedWasValidated ==
  pc = "published" /\ ~SkipTests =>
    /\ \A p \in Keys(pr) : pr[p] = validated[p]
    /\ RunTests(validated) /\ Parses(pr)

\* Only paths of the plan, with the extra paths that were added to it, are
\* generated.  When the list is full the fix agent may also change other files
\* that were read (nodes.py:422-426).
AllowlistHolds ==
  Keys(generated) \subseteq
    allowed \cup (IF Cardinality(allowed) >= MaxAllowed THEN Keys(files) ELSE {})

\* A commit replaces an existing file only when its content was read and shown
\* to the agents, or when GitHub refused to hand it out.
ReplacesOnlyWhatItRead ==
  \A p \in Keys(pr) \ missed : repo[p] # Absent => files[p] = repo[p]
=============================================================================
