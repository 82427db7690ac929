--------------------------- MODULE PatchSet_proofs ---------------------------
(***************************************************************************)
(* Proofs about PatchSet for any paths and texts, any settings and any     *)
(* answers of the agents.  IInv says what the node that comes next implies *)
(* about the patch, and where the files in repo_files come from; the three *)
(* safety properties follow from it.                                       *)
(***************************************************************************)
EXTENDS PatchSet, FiniteSetTheorems, TLAPS

\* What the next node implies about the patch.
Stage ==
  /\ pc \in {"read_code", "write_code", "write_again"} => generated = Empty
  /\ pc \in {"fix", "fix_again"} => retryCount < MaxRetries
  /\ pc = "create_pr" =>
       validated = generated /\ (SkipTests \/ RunTests(generated))
  /\ pc # "published" => pr = Empty
  /\ pc = "published" => Keys(pr) \subseteq Keys(generated)

\* A path the agents may write holds the text of the repository, is new, or
\* could not be read.
ReadOrNew ==
  \A p \in allowed \cup Keys(files) :
    repo[p] # Absent /\ p \notin missed => files[p] = repo[p]

IInv == TypeOK /\ Stage /\ AllowlistHolds /\ ReadOrNew /\ CommittedWasValidated

-----------------------------------------------------------------------------
(* The operators on dicts.                                                 *)

\* Update keeps the keys of both dicts.
LEMMA UpdateKeys ==
  ASSUME NEW dict \in Dicts, NEW new \in Dicts
  PROVE  /\ Update(dict, new) \in Dicts
         /\ Keys(Update(dict, new)) = Keys(dict) \cup Keys(new)
BY DEF Dicts, Keys, Update

\* Only keeps the entries of the given paths.
LEMMA OnlyKeys ==
  ASSUME NEW dict \in Dicts, NEW S
  PROVE  /\ Only(dict, S) \in Dicts
         /\ Keys(Only(dict, S)) = Keys(dict) \cap S
BY DEF Dicts, Keys, Only

\* A filtered answer is part of the answer.
LEMMA FilterKeys ==
  ASSUME NEW new \in Dicts, NEW originals \in Dicts
  PROVE  /\ FilterSubstantive(new, originals) \in Dicts
         /\ Keys(FilterSubstantive(new, originals)) \subseteq Keys(new)
         /\ \A p \in Keys(FilterSubstantive(new, originals)) :
              FilterSubstantive(new, originals)[p] = new[p]
<1>1. PICK S : FilterSubstantive(new, originals) = Only(new, S)
  BY DEF FilterSubstantive
<1>2. Only(new, S) \in Dicts /\ Keys(Only(new, S)) = Keys(new) \cap S
  BY OnlyKeys
<1>3. \A p \in Keys(Only(new, S)) : Only(new, S)[p] = new[p]
  BY DEF Keys, Only
<1> QED BY <1>1, <1>2, <1>3

\* The empty dict has no keys.
LEMMA EmptyKeys == Empty \in Dicts /\ Keys(Empty) = {}
BY DEF Empty, Dicts, Keys

\* A list that grows gets all extra paths unless it becomes full; a full one
\* does not grow.
LEMMA GrownList ==
  ASSUME allowed \subseteq Paths, NEW extra \in SUBSET Paths, NEW larger \in Grown(extra)
  PROVE  /\ larger \subseteq Paths /\ allowed \subseteq larger
         /\ larger \subseteq allowed \cup extra
         /\ Cardinality(larger) < MaxAllowed => larger = allowed \cup extra
         /\ Cardinality(allowed) < MaxAllowed
<1>1. larger \subseteq Paths /\ allowed \subseteq larger /\ larger # allowed
      /\ larger \subseteq allowed \cup extra
  BY DEF Grown
<1>2. IsFiniteSet(larger)
  BY <1>1, PathsAssumption, FS_Subset
<1>3. Cardinality(allowed) < Cardinality(larger) /\ Cardinality(allowed) \in Nat
      /\ Cardinality(larger) \in Nat
  BY <1>1, <1>2, FS_Subset, FS_CardinalityType
<1>4. Cardinality(larger) <= MaxAllowed
      /\ (Cardinality(larger) < MaxAllowed => larger = allowed \cup extra)
  BY <1>3, SettingsAssumption DEF Grown
<1> QED BY <1>1, <1>3, <1>4, SettingsAssumption

\* What a grown allowlist means for the files.
LEMMA Expanded ==
  ASSUME TypeOK, ReadOrNew, NEW extra \in SUBSET Paths, ExpandAllowlist(extra),
         UNCHANGED repo
  PROVE  /\ files' \in Dicts /\ missed' \subseteq Paths /\ allowed' \in Grown(extra)
         /\ allowed' \subseteq Paths
         /\ Keys(files) \subseteq Keys(files')
         /\ ReadOrNew'
<1>1. PICK larger \in Grown(extra), fetched \in SUBSET Paths :
        /\ fetched \subseteq (larger \ allowed) \cap (Keys(repo) \ Keys(files))
        /\ allowed' = larger
        /\ files' = Update(files, Only(repo, fetched))
        /\ missed' = missed \cup
             (((larger \ allowed) \cap (Keys(repo) \ Keys(files))) \ fetched)
  BY DEF ExpandAllowlist, Keys
<1>2. files \in Dicts /\ repo \in Dicts /\ allowed \subseteq Paths /\ missed \subseteq Paths
  BY DEF TypeOK
<1>3. larger \subseteq Paths
  BY <1>2, GrownList
<1>4. Only(repo, fetched) \in Dicts /\ Keys(Only(repo, fetched)) = Keys(repo) \cap fetched
  BY <1>2, OnlyKeys
<1>5. files' \in Dicts /\ Keys(files') = Keys(files) \cup (Keys(repo) \cap fetched)
  BY <1>1, <1>2, <1>4, UpdateKeys
<1>6. missed' \subseteq Paths
  BY <1>1, <1>2 DEF Keys
<1>7. ReadOrNew'
  <2> SUFFICES ASSUME NEW p \in allowed' \cup Keys(files'),
                      repo[p] # Absent, p \notin missed'
               PROVE  files'[p] = repo[p]
    BY DEF ReadOrNew
  <2>1. p \in Paths
    BY <1>1, <1>3 DEF Keys
  <2>2. CASE p \in fetched
    BY <1>1, <2>1, <2>2 DEF Update, Only
  <2>3. CASE p \notin fetched
    <3>1. files'[p] = files[p]
      BY <1>1, <2>1, <2>3 DEF Update, Only
    <3>2. p \in allowed \cup Keys(files)
      BY <1>1, <1>5, <2>1, <2>3 DEF Keys
    <3> QED BY <1>1, <3>1, <3>2 DEF ReadOrNew
  <2> QED BY <2>2, <2>3
<1> QED BY <1>1, <1>3, <1>5, <1>6, <1>7

-----------------------------------------------------------------------------
(* The invariant.                                                          *)

LEMMA InvInit == Init => IInv
<1> SUFFICES ASSUME Init PROVE IInv
  OBVIOUS
<1>1. Empty \in Dicts /\ Keys(Empty) = {}
  BY EmptyKeys
<1>2. TypeOK
  <2>1. retryCount \in 0..MaxRetries
    BY SettingsAssumption DEF Init
  <2>2. {repo, files, generated, validated, pr} \subseteq Dicts
    BY <1>1 DEF Init
  <2> QED BY <2>1, <2>2 DEF Init, TypeOK, Working
<1>3. Stage /\ AllowlistHolds /\ ReadOrNew /\ CommittedWasValidated
  BY <1>1 DEF Init, Stage, AllowlistHolds, ReadOrNew, CommittedWasValidated
<1> QED BY <1>2, <1>3 DEF IInv

\* read_code.
LEMMA ReadCodeStep ==
  ASSUME IInv, NEW targets \in SUBSET Paths, NEW read \in SUBSET Paths,
         ReadCode(targets, read)
  PROVE  IInv'
<1> USE DEF IInv, ReadCode
<1>1. repo \in Dicts /\ Blank \in Texts
  BY TextsAssumption DEF TypeOK
<1>2. files' \in Dicts
  BY <1>1 DEF Dicts, Keys
<1>3. TypeOK'
  BY <1>2 DEF TypeOK, Working
<1>4. Keys(generated') = {}
  BY EmptyKeys DEF Stage
<1>5. Keys(files') \subseteq read \cup targets
  BY DEF Keys
<1>6. ReadOrNew'
  <2> SUFFICES ASSUME NEW p \in allowed' \cup Keys(files'),
                      repo[p] # Absent, p \notin missed'
               PROVE  files'[p] = repo[p]
    BY DEF ReadOrNew
  <2>1. p \in Paths /\ p \in read
    BY <1>5 DEF Keys
  <2> QED BY <2>1
<1>7. Stage' /\ AllowlistHolds' /\ CommittedWasValidated'
  BY <1>4 DEF Stage, AllowlistHolds, CommittedWasValidated
<1> QED BY <1>3, <1>6, <1>7

\* write_code and its second call.
LEMMA WrittenStep ==
  ASSUME IInv, NEW answer \in Dicts, pc \in {"write_code", "write_again"},
         Keys(answer) \subseteq allowed, Written(answer)
  PROVE  IInv'
<1> USE DEF IInv, Written
<1>1. generated' \in Dicts /\ Keys(generated') \subseteq allowed
  BY FilterKeys DEF TypeOK
<1>2. TypeOK'
  BY <1>1 DEF TypeOK, Working
<1>3. Stage'
  BY DEF Stage
<1>4. AllowlistHolds'
  BY <1>1 DEF AllowlistHolds
<1>5. ReadOrNew' /\ CommittedWasValidated'
  BY DEF ReadOrNew, CommittedWasValidated
<1> QED BY <1>2, <1>3, <1>4, <1>5

\* The allowlist grows before the writer's second call.
LEMMA WriteExtraStep ==
  ASSUME IInv, NEW answer \in Dicts, WriteExtra(answer)
  PROVE  IInv'
<1> USE DEF IInv, WriteExtra
<1>1. PICK related \in SUBSET Paths : ExpandAllowlist(related)
  BY DEF Keys
<1>2. files' \in Dicts /\ missed' \subseteq Paths /\ allowed' \subseteq Paths /\ ReadOrNew'
  BY <1>1, Expanded
<1>3. Keys(generated') = {}
  BY EmptyKeys DEF Stage
<1>4. TypeOK'
  BY <1>2 DEF TypeOK, Working
<1>5. Stage' /\ AllowlistHolds' /\ CommittedWasValidated'
  BY <1>3 DEF Stage, AllowlistHolds, CommittedWasValidated
<1> QED BY <1>2, <1>4, <1>5

\* execute: what goes on to create_pr was validated.
LEMMA ExecuteStep ==
  ASSUME IInv, Execute
  PROVE  IInv'
<1> USE DEF IInv, Execute
<1>1. passed' \in BOOLEAN
  BY SettingsAssumption DEF RunTests, Parses
<1>2. TypeOK'
  BY <1>1 DEF TypeOK, Working, RouteAfterExecute
<1>3. pc' = "create_pr" => SkipTests \/ RunTests(generated)
  BY <1>1 DEF RouteAfterExecute
<1>4. pc' \in {"fix", "fix_again"} => retryCount' < MaxRetries
  BY DEF RouteAfterExecute
<1>5. pc' \in {"create_pr", "fix", "dlq"}
  BY DEF RouteAfterExecute
<1>6. RunTests(generated') <=> RunTests(generated)
  OBVIOUS
<1>7. Stage'
  BY <1>3, <1>4, <1>5, <1>6 DEF Stage
<1>8. AllowlistHolds' /\ ReadOrNew' /\ CommittedWasValidated'
  BY <1>5 DEF AllowlistHolds, ReadOrNew, CommittedWasValidated
<1> QED BY <1>2, <1>7, <1>8

\* fix and its second call.
LEMMA FixedStep ==
  ASSUME IInv, NEW answer \in Dicts, pc \in {"fix", "fix_again"},
         Keys(answer) \subseteq Keys(generated), Fixed(answer)
  PROVE  IInv'
<1> USE DEF IInv, Fixed
<1>1. generated' \in Dicts /\ Keys(generated') \subseteq Keys(generated)
  BY FilterKeys DEF TypeOK
<1>2. retryCount' \in 0..MaxRetries
  BY SettingsAssumption DEF TypeOK, Stage
<1>3. TypeOK'
  BY <1>1, <1>2 DEF TypeOK, Working
<1>4. AllowlistHolds'
  BY <1>1 DEF AllowlistHolds
<1>5. Stage' /\ ReadOrNew' /\ CommittedWasValidated'
  BY DEF Stage, ReadOrNew, CommittedWasValidated
<1> QED BY <1>3, <1>4, <1>5

\* The allowlist, and the generated code with it, grow before the second call.
LEMMA FixExtraStep ==
  ASSUME IInv, NEW answer \in Dicts, FixExtra(answer)
  PROVE  IInv'
<1> DEFINE extra == Keys(answer) \ Keys(generated)
<1> USE DEF IInv
<1>1. extra \in SUBSET Paths /\ ExpandAllowlist(extra) /\ UNCHANGED repo
      /\ generated' = Update(Only(files', extra), generated)
      /\ pc = "fix" /\ pc' = "fix_again"
      /\ UNCHANGED <<repo, validated, passed, retryCount, pr>>
  BY DEF FixExtra, Keys
<1> HIDE DEF extra
<1>2. files' \in Dicts /\ missed' \subseteq Paths /\ allowed' \subseteq Paths /\ ReadOrNew'
      /\ allowed' \in Grown(extra) /\ Keys(files) \subseteq Keys(files')
  BY <1>1, Expanded
<1>3. generated \in Dicts /\ allowed \subseteq Paths
  BY DEF TypeOK
<1>4. Only(files', extra) \in Dicts /\ Keys(Only(files', extra)) = Keys(files') \cap extra
  BY <1>2, OnlyKeys
<1>5. generated' \in Dicts
      /\ Keys(generated') = (Keys(files') \cap extra) \cup Keys(generated)
  BY <1>1, <1>3, <1>4, UpdateKeys
<1>6. TypeOK'
  BY <1>1, <1>2, <1>5 DEF TypeOK, Working
<1>7. /\ allowed \subseteq allowed'
      /\ Cardinality(allowed') < MaxAllowed => allowed' = allowed \cup extra
      /\ Cardinality(allowed) < MaxAllowed
  BY <1>1, <1>2, <1>3, GrownList
<1>8. Cardinality(allowed) \in Nat /\ Cardinality(allowed') \in Nat /\ MaxAllowed \in Nat
  BY <1>2, <1>3, PathsAssumption, SettingsAssumption, FS_Subset, FS_CardinalityType
<1>9. Keys(generated) \subseteq allowed
  BY <1>7, <1>8 DEF AllowlistHolds
<1>10. AllowlistHolds'
  <2>1. CASE Cardinality(allowed') < MaxAllowed
    BY <1>5, <1>7, <1>9, <2>1 DEF AllowlistHolds
  <2>2. CASE Cardinality(allowed') >= MaxAllowed
    BY <1>5, <1>7, <1>9, <2>2 DEF AllowlistHolds
  <2> QED BY <1>8, <2>1, <2>2
<1>11. Stage' /\ CommittedWasValidated'
  BY <1>1 DEF Stage, CommittedWasValidated
<1> QED BY <1>2, <1>6, <1>10, <1>11

\* create_pr commits a part of what was validated.
LEMMA CreatePrStep ==
  ASSUME IInv, CreatePr
  PROVE  IInv'
<1> USE DEF IInv, CreatePr
<1>1. /\ pr' \in Dicts /\ Keys(pr') \subseteq Keys(generated)
      /\ \A p \in Keys(pr') : pr'[p] = generated[p]
  BY FilterKeys DEF TypeOK
<1>2. TypeOK'
  BY <1>1 DEF TypeOK, Working
<1>3. Stage'
  BY <1>1 DEF Stage
<1>4. ASSUME ~SkipTests
      PROVE  /\ \A p \in Keys(pr') : pr'[p] = validated'[p]
             /\ RunTests(validated') /\ Parses(pr')
  <2>1. validated' = generated /\ RunTests(generated)
    BY <1>4 DEF Stage
  <2>2. Parses(pr')
    BY <1>1, <2>1 DEF RunTests, Parses
  <2> QED BY <1>1, <2>1, <2>2
<1>5. CommittedWasValidated'
  BY <1>4 DEF CommittedWasValidated
<1>6. AllowlistHolds' /\ ReadOrNew'
  BY DEF AllowlistHolds, ReadOrNew
<1> QED BY <1>2, <1>3, <1>5, <1>6

\* A node that raises leaves the patch as it is.
LEMMA RaiseStep ==
  ASSUME IInv, Raise
  PROVE  IInv'
BY DEF IInv, Raise, TypeOK, Working, Stage, AllowlistHolds, ReadOrNew, CommittedWasValidated

LEMMA InvStep == IInv /\ [Next]_vars => IInv'
<1> SUFFICES ASSUME IInv, [Next]_vars
             PROVE  IInv'
  OBVIOUS
<1>1. ASSUME NEW targets \in SUBSET Paths, NEW read \in SUBSET Paths,
             ReadCode(targets, read)
      PROVE  IInv'
  BY <1>1, ReadCodeStep
<1>2. ASSUME NEW answer \in Dicts, WriteCode(answer)
      PROVE  IInv'
  BY <1>2, WrittenStep DEF WriteCode
<1>3. ASSUME NEW answer \in Dicts, WriteExtra(answer)
      PROVE  IInv'
  BY <1>3, WriteExtraStep
<1>4. ASSUME NEW answer \in Dicts, WriteAgain(answer)
      PROVE  IInv'
  BY <1>4, WrittenStep DEF WriteAgain
<1>5. ASSUME NEW answer \in Dicts, Fix(answer)
      PROVE  IInv'
  BY <1>5, FixedStep DEF Fix
<1>6. ASSUME NEW answer \in Dicts, FixExtra(answer)
      PROVE  IInv'
  BY <1>6, FixExtraStep
<1>7. ASSUME NEW answer \in Dicts, FixAgain(answer)
      PROVE  IInv'
  BY <1>7, FixedStep DEF FixAgain
<1>8. CASE Execute
  BY <1>8, ExecuteStep
<1>9. CASE CreatePr
  BY <1>9, CreatePrStep
<1>10. CASE Raise
  BY <1>10, RaiseStep
<1>11. CASE UNCHANGED vars
  BY <1>11 DEF vars, IInv, TypeOK, Stage, AllowlistHolds, ReadOrNew, CommittedWasValidated
<1> QED
  BY <1>1, <1>2, <1>3, <1>4, <1>5, <1>6, <1>7, <1>8, <1>9, <1>10, <1>11 DEF Next

LEMMA Inductive == Spec => []IInv
BY InvInit, InvStep, PTL DEF Spec

-----------------------------------------------------------------------------
(* The theorems.                                                           *)

\* The state of a run keeps its type, and the fixes stay within MaxRetries.
THEOREM TypeCorrect == Spec => []TypeOK
<1>1. IInv => TypeOK
  BY DEF IInv
<1> QED BY <1>1, Inductive, PTL

\* What is committed was validated as a whole, whatever the agents answered
\* (node_execute before node_create_pr).
THEOREM CommitsWereValidated == Spec => []CommittedWasValidated
<1>1. IInv => CommittedWasValidated
  BY DEF IInv
<1> QED BY <1>1, Inductive, PTL

\* Only paths of the allowlist are generated until it is full
\* (expand_write_allowlist and both agents).
THEOREM AllowlistKept == Spec => []AllowlistHolds
<1>1. IInv => AllowlistHolds
  BY DEF IInv
<1> QED BY <1>1, Inductive, PTL

\* A commit replaces only files that were read, or that GitHub refused to
\* hand out (node_read_code, expand_write_allowlist).
THEOREM NothingReplacedUnread == Spec => []ReplacesOnlyWhatItRead
<1>1. IInv => ReplacesOnlyWhatItRead
  <2> SUFFICES ASSUME IInv, NEW p \in Keys(pr) \ missed, repo[p] # Absent
               PROVE  files[p] = repo[p]
    BY DEF ReplacesOnlyWhatItRead
  <2>1. p \in Keys(generated)
    BY EmptyKeys DEF IInv, Stage
  <2>2. p \in allowed \cup Keys(files)
    BY <2>1 DEF IInv, AllowlistHolds
  <2> QED BY <2>2 DEF IInv, ReadOrNew
<1> QED BY <1>1, Inductive, PTL
=============================================================================
