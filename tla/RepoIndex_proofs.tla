-------------------------- MODULE RepoIndex_proofs --------------------------
(***************************************************************************)
(* The vector index of a repository, for any number of callers of          *)
(* sync_repo, paths, blobs and commits, and any of the faults: type        *)
(* correctness, and what the index holds while nothing went wrong or no    *)
(* two runs overlapped since the vectors were last wiped.                  *)
(***************************************************************************)
EXTENDS RepoIndex, TLAPS

\* The run writes vectors.
Indexing == {"delete", "files", "upsert"}

\* What a run holds in memory: commits that exist; paths of the tip it read
\* to index, paths the tip lacks to delete, each only while it deals with them.
RunHolds(s) ==
  /\ tip[s] \in 0..Len(history)
  /\ seen[s] \in 0..Len(history)
  /\ Active(s) => tip[s] > 0
  /\ pc[s] \in {"count", "diff"} \/ mode[s] = "incremental" => seen[s] > 0
  /\ pc[s] = "delete" => mode[s] = "incremental"
  /\ pc[s] \notin Indexing => mode[s] = "full"
  /\ pc[s] # "delete" => gone[s] = {}
  /\ pc[s] # "upsert" => current[s] = {}
  /\ pc[s] \in Indexing =>
       /\ \A p \in todo[s] \cup current[s] : history[tip[s]][p] # Absent
       /\ \A p \in gone[s] : history[tip[s]][p] = Absent
       /\ todo[s] \cap current[s] = {}

RunsHold == \A s \in Syncs : RunHolds(s)

TypeInv == TypeOK /\ Len(history) > 0 /\ RunsHold

\* The run of s and nobody else's takes a step.
Same(t) ==
  UNCHANGED <<pc[t], mode[t], tip[t], seen[t], gone[t], todo[t], current[t]>>

OnlyRun(s) == \A t \in Syncs \ {s} : Same(t)

-----------------------------------------------------------------------------
(* Type correctness.                                                       *)

LEMMA TypeInit == Init => TypeInv
<1> SUFFICES ASSUME Init PROVE TypeInv
  OBVIOUS
<1>1. PICK t \in Trees : history = <<t>>
  BY DEF Init
<1>2. history \in Seq(Trees) /\ Len(history) = 1
  BY <1>1
<1>3. TypeOK
  BY <1>2 DEF Init, TypeOK, Progress, Finished
<1>4. ASSUME NEW s \in Syncs
      PROVE  /\ pc[s] = "idle" /\ mode[s] = "full" /\ tip[s] = 0 /\ seen[s] = 0
             /\ gone[s] = {} /\ current[s] = {}
  BY DEF Init
<1>5. ASSUME NEW s \in Syncs PROVE RunHolds(s)
  BY <1>2, <1>4 DEF RunHolds, Active, Indexing, Finished
<1> QED
  BY <1>2, <1>3, <1>5 DEF TypeInv, RunsHold

\* Membership in the files of a tree, its index and the paths that changed.
LEMMA TreeFacts ==
  ASSUME NEW t \in Trees, NEW u \in Trees
  PROVE  /\ Files(t) \subseteq Paths
         /\ ChangedPaths(t, u) \subseteq Paths
         /\ IndexOf(t) \subseteq Paths \X Blobs
         /\ \A p \in Paths : p \in Files(t) <=> t[p] # Absent
         /\ \A p \in Paths : p \in ChangedPaths(t, u) <=> u[p] # Absent /\ t[p] # u[p]
  BY DEF Files, ChangedPaths, IndexOf, Trees

LEMMA InIndexOf ==
  ASSUME NEW t \in Trees, NEW p \in Paths, NEW b \in Blobs
  PROVE  <<p, b>> \in IndexOf(t) <=> t[p] = b
  BY IndexAssumption DEF IndexOf, Files, Trees

\* Two sets of vectors with the same elements are equal.
LEMMA SameVectors ==
  ASSUME NEW S, NEW T, S \subseteq Paths \X Blobs, T \subseteq Paths \X Blobs,
         \A p \in Paths, b \in Blobs : <<p, b>> \in S <=> <<p, b>> \in T
  PROVE  S = T
  OBVIOUS

\* The commits a run read are trees.
LEMMA RunTrees ==
  ASSUME TypeInv, NEW s \in Syncs
  PROVE  /\ tip[s] > 0 => tip[s] \in 1..Len(history) /\ history[tip[s]] \in Trees
         /\ seen[s] > 0 => seen[s] \in 1..Len(history) /\ history[seen[s]] \in Trees
         /\ state > 0 => state \in 1..Len(history) /\ history[state] \in Trees
  BY DEF TypeInv, TypeOK, RunsHold, RunHolds

\* What the other runs hold stays theirs.
LEMMA RunsHoldFrame ==
  ASSUME TypeInv, NEW s \in Syncs, OnlyRun(s), history' = history, RunHolds(s)'
  PROVE  RunsHold'
<1> SUFFICES ASSUME NEW t \in Syncs \ {s} PROVE RunHolds(t)'
  BY DEF RunsHold
<1>1. Same(t) /\ RunHolds(t)
  BY DEF OnlyRun, TypeInv, RunsHold
<1> QED
  BY <1>1 DEF Same, RunHolds, Active

\* A commit is added: the earlier ones stay.
LEMMA PushFacts ==
  ASSUME TypeInv, NEW t \in Trees, Push(t)
  PROVE  /\ history' \in Seq(Trees)
         /\ Len(history') = Len(history) + 1
         /\ \A i \in 1..Len(history) : history'[i] = history[i]
  BY DEF TypeInv, TypeOK, Push

LEMMA PushType ==
  ASSUME TypeInv, NEW t \in Trees, Push(t)
  PROVE  TypeInv'
<1>1. UNCHANGED <<state, index, pc, forced, mode, tip, seen, gone, todo, current, suspect>>
  BY DEF Push, local
<1>2. TypeOK'
  BY <1>1, PushFacts DEF TypeInv, TypeOK
<1>3. ASSUME NEW s \in Syncs PROVE RunHolds(s)'
  <2>1. tip[s] \in 0..Len(history') /\ seen[s] \in 0..Len(history')
    BY PushFacts DEF TypeInv, TypeOK, RunsHold, RunHolds
  <2>2. pc[s] \in Indexing => history'[tip[s]] = history[tip[s]]
    BY PushFacts, RunTrees DEF TypeInv, TypeOK, RunsHold, RunHolds, Active, Indexing, Finished
  <2> QED
    BY <1>1, <2>1, <2>2 DEF TypeInv, RunsHold, RunHolds, Active
<1> QED
  BY <1>2, <1>3, PushFacts DEF TypeInv, TypeOK, RunsHold

\* A call that is over holds nothing.
LEMMA EndFacts ==
  ASSUME TypeInv, NEW s \in Syncs, NEW place \in Finished, End(s, place)
  PROVE  /\ OnlyRun(s)
         /\ /\ pc' \in [Syncs -> Progress]
            /\ forced' \in [Syncs -> BOOLEAN]
            /\ mode' \in [Syncs -> {"full", "incremental"}]
            /\ tip' \in [Syncs -> Nat]
            /\ seen' \in [Syncs -> Nat]
            /\ gone' \in [Syncs -> SUBSET Paths]
            /\ todo' \in [Syncs -> SUBSET Paths]
            /\ current' \in [Syncs -> SUBSET Paths]
         /\ pc'[s] = place
         /\ history' = history => RunHolds(s)'
<1> USE DEF TypeInv, TypeOK, End, Goto
<1>1. OnlyRun(s)
  BY DEF OnlyRun, Same
<1>2. /\ pc' \in [Syncs -> Progress]
      /\ pc'[s] = place
  BY DEF Progress
<1>3. forced' \in [Syncs -> BOOLEAN] /\ mode' \in [Syncs -> {"full", "incremental"}]
  OBVIOUS
<1>4. tip' \in [Syncs -> Nat] /\ seen' \in [Syncs -> Nat]
  OBVIOUS
<1>5. /\ gone' \in [Syncs -> SUBSET Paths]
      /\ todo' \in [Syncs -> SUBSET Paths]
      /\ current' \in [Syncs -> SUBSET Paths]
  OBVIOUS
<1>6. ASSUME history' = history PROVE RunHolds(s)'
  <2>1. /\ mode'[s] = "full" /\ tip'[s] = 0 /\ seen'[s] = 0
        /\ gone'[s] = {} /\ todo'[s] = {} /\ current'[s] = {}
    OBVIOUS
  <2> QED
    BY <1>2, <1>6, <2>1 DEF RunHolds, Active, Finished, Indexing
<1> QED
  BY <1>1, <1>2, <1>3, <1>4, <1>5, <1>6

-----------------------------------------------------------------------------
(* What each step of a run does to what the run holds, and that it keeps   *)
(* the types.                                                              *)

\* ReadTip, LoadState, CountVectors and DeletesDone: nothing is written.
LEMMA ReadTipFacts ==
  ASSUME TypeInv, NEW s \in Syncs, NEW force \in ForceFull, ReadTip(s, force)
  PROVE  /\ TypeInv' /\ OnlyRun(s)
         /\ pc'[s] = "load"
<1> USE DEF TypeInv, TypeOK, ReadTip, Goto, Active
<1>1. TypeOK'
  BY IndexAssumption DEF Progress
<1>2. OnlyRun(s)
  BY DEF OnlyRun, Same
<1>3. pc'[s] = "load" /\ tip'[s] = Len(history)
  OBVIOUS
<1>4. RunHolds(s) /\ pc[s] \in Finished
  BY DEF RunsHold
<1>5. RunHolds(s)'
  BY <1>3, <1>4 DEF RunHolds, Indexing, Finished
<1> QED
  BY <1>1, <1>2, <1>3, <1>5, RunsHoldFrame

LEMMA LoadStateFacts ==
  ASSUME TypeInv, NEW s \in Syncs, LoadState(s)
  PROVE  /\ TypeInv' /\ OnlyRun(s)
         /\ pc'[s] \in {"wipe", "count"} /\ (pc'[s] = "count" => state # 0)
         /\ seen'[s] = state
<1> USE DEF TypeInv, TypeOK, LoadState, Goto, Active
<1>1. TypeOK'
  BY DEF Progress
<1>2. OnlyRun(s)
  BY DEF OnlyRun, Same
<1>3. pc'[s] \in {"wipe", "count"} /\ (pc'[s] = "count" => state # 0)
  OBVIOUS
<1>4. seen'[s] = state
  OBVIOUS
<1>5. RunHolds(s)
  BY DEF RunsHold
<1>6. RunHolds(s)'
  BY <1>3, <1>4, <1>5 DEF RunHolds, Indexing, Finished
<1> QED
  BY <1>1, <1>2, <1>3, <1>4, <1>6, RunsHoldFrame

LEMMA CountVectorsFacts ==
  ASSUME TypeInv, NEW s \in Syncs, CountVectors(s)
  PROVE  /\ TypeInv' /\ OnlyRun(s)
         /\ pc'[s] \in {"wipe", "diff", "done"}
         /\ pc'[s] \in {"diff", "done"} => index # {}
         /\ pc'[s] = "done" => seen[s] = tip[s]
<1> USE DEF TypeInv, TypeOK, CountVectors, AfterCount, Goto, Active
<1>1. TypeOK'
  BY DEF Progress, Finished
<1>2. OnlyRun(s)
  BY DEF OnlyRun, Same
<1>3. /\ pc'[s] \in {"wipe", "diff", "done"}
      /\ pc'[s] \in {"diff", "done"} => index # {}
      /\ pc'[s] = "done" => seen[s] = tip[s]
  OBVIOUS
<1>4. RunHolds(s)
  BY DEF RunsHold
<1>5. RunHolds(s)'
  BY <1>3, <1>4 DEF RunHolds, Indexing, Finished
<1> QED
  BY <1>1, <1>2, <1>3, <1>5, RunsHoldFrame

LEMMA DeletesDoneFacts ==
  ASSUME TypeInv, NEW s \in Syncs, DeletesDone(s)
  PROVE  /\ TypeInv' /\ OnlyRun(s)
         /\ pc'[s] = "files"
<1> USE DEF TypeInv, TypeOK, DeletesDone, Goto, Active
<1>1. TypeOK'
  BY DEF Progress
<1>2. OnlyRun(s)
  BY DEF OnlyRun, Same
<1>3. pc'[s] = "files"
  OBVIOUS
<1>4. RunHolds(s)
  BY DEF RunsHold
<1>5. RunHolds(s)'
  BY <1>3, <1>4 DEF RunHolds, Indexing, Finished
<1> QED
  BY <1>1, <1>2, <1>3, <1>5, RunsHoldFrame

\* The full index starts from nothing, with every file of the tip to index.
LEMMA DeleteRepoFacts ==
  ASSUME TypeInv, NEW s \in Syncs, DeleteRepo(s)
  PROVE  /\ TypeInv' /\ OnlyRun(s)
         /\ pc'[s] = "files" /\ mode'[s] = "full"
         /\ history[tip[s]] \in Trees
         /\ \A p \in Paths : p \in todo'[s] <=> history[tip[s]][p] # Absent
         /\ gone'[s] = {} /\ current'[s] = {}
<1> USE DEF TypeInv, TypeOK, DeleteRepo, Goto, Active
<1>0. RunHolds(s)
  BY DEF RunsHold
<1>1. RunHolds(s) /\ tip[s] \in Nat \ {0}
  BY <1>0 DEF RunHolds, Finished
<1>2. history[tip[s]] \in Trees
  BY <1>1, RunTrees
<1>3. /\ todo'[s] = Files(history[tip[s]]) /\ todo'[s] \subseteq Paths
      /\ \A p \in Paths : p \in todo'[s] <=> history[tip[s]][p] # Absent
  BY <1>2, TreeFacts
<1>4. TypeOK'
  <2>1. todo' \in [Syncs -> SUBSET Paths]
    BY <1>2, TreeFacts
  <2> QED
    BY <2>1 DEF Progress, Fresh
<1>5. OnlyRun(s)
  BY DEF OnlyRun, Same
<1>6. /\ pc'[s] = "files" /\ mode'[s] = "full"
      /\ gone'[s] = {} /\ current'[s] = {}
  BY <1>1 DEF RunHolds
<1>7. RunHolds(s)'
  BY <1>1, <1>3, <1>6 DEF RunHolds, Indexing, Finished
<1> QED
  BY <1>2, <1>3, <1>4, <1>5, <1>6, <1>7, RunsHoldFrame

\* The incremental index: what the tip lacks, and what it changed.
LEMMA DiffFacts ==
  ASSUME TypeInv, NEW s \in Syncs, Diff(s)
  PROVE  /\ TypeInv' /\ OnlyRun(s)
         /\ pc'[s] = "delete" /\ mode'[s] = "incremental"
         /\ history[tip[s]] \in Trees /\ history[seen[s]] \in Trees
         /\ \A p \in Paths :
              /\ p \in gone'[s] <=> /\ history[seen[s]][p] # Absent
                                   /\ history[tip[s]][p] = Absent
              /\ p \in todo'[s] <=> /\ history[tip[s]][p] # Absent
                                   /\ history[seen[s]][p] # history[tip[s]][p]
         /\ current'[s] = {}
<1> USE DEF TypeInv, TypeOK, Diff, Goto, Active
<1>0. RunHolds(s)
  BY DEF RunsHold
<1>1. RunHolds(s) /\ tip[s] \in Nat \ {0} /\ seen[s] \in Nat \ {0}
  BY <1>0 DEF RunHolds, Finished
<1>2. history[tip[s]] \in Trees /\ history[seen[s]] \in Trees
  BY <1>1, RunTrees
<1> DEFINE G == Files(history[seen[s]]) \ Files(history[tip[s]])
           C == ChangedPaths(history[seen[s]], history[tip[s]])
<1>3. /\ G \subseteq Paths /\ C \subseteq Paths
      /\ \A p \in Paths :
           /\ p \in G <=> history[seen[s]][p] # Absent /\ history[tip[s]][p] = Absent
           /\ p \in C <=> /\ history[tip[s]][p] # Absent
                         /\ history[seen[s]][p] # history[tip[s]][p]
  BY <1>2, TreeFacts
<1>4. gone' = [gone EXCEPT ![s] = G] /\ todo' = [todo EXCEPT ![s] = C]
  OBVIOUS
<1> HIDE DEF G, C
<1>5. TypeOK'
  BY <1>3, <1>4 DEF Progress
<1>6. OnlyRun(s)
  BY DEF OnlyRun, Same
<1>7. /\ pc'[s] = "delete" /\ mode'[s] = "incremental" /\ current'[s] = {}
      /\ gone'[s] = G /\ todo'[s] = C
  BY <1>1, <1>4 DEF RunHolds
<1>8. RunHolds(s)'
  BY <1>1, <1>3, <1>7 DEF RunHolds, Indexing, Finished
<1> QED
  BY <1>2, <1>3, <1>5, <1>6, <1>7, <1>8, RunsHoldFrame

\* The vectors of one path.
LEMMA WithoutPathFacts ==
  ASSUME TypeInv, NEW p \in Paths
  PROVE  /\ WithoutPath(p) \subseteq index
         /\ \A q \in Paths, b \in Blobs :
              <<q, b>> \in WithoutPath(p) <=> <<q, b>> \in index /\ q # p
  BY DEF WithoutPath

LEMMA DeletePathFacts ==
  ASSUME TypeInv, NEW s \in Syncs, NEW p \in Paths, DeletePath(s, p)
  PROVE  /\ TypeInv' /\ OnlyRun(s)
         /\ pc[s] = "delete" /\ pc' = pc /\ UNCHANGED <<mode, todo, current>>
         /\ gone'[s] = gone[s] \ {p}
<1> USE DEF TypeInv, TypeOK, DeletePath, Active
<1>1. TypeOK'
  BY WithoutPathFacts
<1>2. OnlyRun(s)
  BY DEF OnlyRun, Same
<1>3. gone'[s] = gone[s] \ {p}
  OBVIOUS
<1>4. RunHolds(s)
  BY DEF RunsHold
<1>5. RunHolds(s)'
  BY <1>3, <1>4 DEF RunHolds, Indexing, Finished
<1> QED
  BY <1>1, <1>2, <1>3, <1>5, RunsHoldFrame

LEMMA FetchedFacts ==
  ASSUME TypeInv, NEW s \in Syncs, NEW p \in Paths, Fetched(s, p)
  PROVE  /\ TypeInv' /\ OnlyRun(s)
         /\ pc'[s] = "upsert"
         /\ todo'[s] = todo[s] \ {p} /\ current'[s] = {p}
<1> USE DEF TypeInv, TypeOK, Fetched, Goto, Active
<1>1. TypeOK'
  BY WithoutPathFacts DEF Progress
<1>2. OnlyRun(s)
  BY DEF OnlyRun, Same
<1>3. pc'[s] = "upsert" /\ todo'[s] = todo[s] \ {p} /\ current'[s] = {p}
  OBVIOUS
<1>4. RunHolds(s)
  BY DEF RunsHold
<1>5. RunHolds(s)'
  BY <1>3, <1>4 DEF RunHolds, Indexing, Finished
<1> QED
  BY <1>1, <1>2, <1>3, <1>5, RunsHoldFrame

LEMMA FetchFailsFacts ==
  ASSUME TypeInv, NEW s \in Syncs, NEW p \in Paths, FetchFails(s, p)
  PROVE  /\ TypeInv' /\ OnlyRun(s)
         /\ todo'[s] = todo[s] \ {p}
<1> USE DEF TypeInv, TypeOK, FetchFails, Active
<1>1. TypeOK'
  OBVIOUS
<1>2. OnlyRun(s)
  BY DEF OnlyRun, Same
<1>3. todo'[s] = todo[s] \ {p}
  OBVIOUS
<1>4. RunHolds(s)
  BY DEF RunsHold
<1>5. RunHolds(s)'
  BY <1>3, <1>4 DEF RunHolds, Indexing, Finished
<1> QED
  BY <1>1, <1>2, <1>3, <1>5, RunsHoldFrame

\* The vectors of the file that was fetched are those of the tip.
LEMMA IndexFileTextFacts ==
  ASSUME TypeInv, NEW s \in Syncs, IndexFileText(s)
  PROVE  /\ TypeInv' /\ OnlyRun(s)
         /\ pc'[s] = "files" /\ current'[s] = {}
         /\ \A p \in current[s] : p \in Paths /\ history[tip[s]][p] \in Blobs
         /\ history[tip[s]] \in Trees
<1> USE DEF TypeInv, TypeOK, IndexFileText, Embedded, Goto, Active
<1>0. RunHolds(s)
  BY DEF RunsHold
<1>1. RunHolds(s) /\ tip[s] \in Nat \ {0}
  BY <1>0 DEF RunHolds, Finished
<1>2. history[tip[s]] \in Trees
  BY <1>1, RunTrees
<1>3. \A p \in current[s] : p \in Paths /\ history[tip[s]][p] \in Blobs
  BY <1>1, <1>2 DEF RunHolds, Indexing, Trees
<1>4. TypeOK'
  <2>1. {<<p, history[tip[s]][p]>> : p \in current[s]} \subseteq Paths \X Blobs
    BY <1>3
  <2>2. index' \subseteq Paths \X Blobs
    BY <2>1
  <2> QED
    BY <2>2 DEF Progress
<1>5. OnlyRun(s)
  BY DEF OnlyRun, Same
<1>6. pc'[s] = "files" /\ current'[s] = {}
  OBVIOUS
<1>7. RunHolds(s)'
  BY <1>1, <1>6 DEF RunHolds, Indexing, Finished
<1> QED
  BY <1>2, <1>3, <1>4, <1>5, <1>6, <1>7, RunsHoldFrame

LEMMA PersistStateFacts ==
  ASSUME TypeInv, NEW s \in Syncs, PersistState(s)
  PROVE  TypeInv' /\ OnlyRun(s) /\ pc'[s] = "done"
<1>1. End(s, "done") /\ UNCHANGED <<history, index, suspect>>
  BY DEF PersistState
<1>2. state' \in 0..Len(history)
  BY DEF PersistState, TypeInv, TypeOK, RunsHold, RunHolds
<1>3. TypeOK'
  BY <1>1, <1>2, EndFacts DEF TypeInv, TypeOK, Finished
<1> QED
  BY <1>1, <1>3, EndFacts, RunsHoldFrame DEF Finished, TypeInv

LEMMA CrashFacts ==
  ASSUME TypeInv, NEW s \in Syncs, Crash(s)
  PROVE  TypeInv' /\ OnlyRun(s) /\ pc'[s] = "idle"
<1>1. End(s, "idle") /\ UNCHANGED <<history, state, index>>
  BY DEF Crash
<1>2. suspect' \subseteq {"fault", "overlap"}
  BY DEF Crash, TypeInv, TypeOK
<1>3. TypeOK'
  BY <1>1, <1>2, EndFacts DEF TypeInv, TypeOK, Finished
<1> QED
  BY <1>1, <1>3, EndFacts, RunsHoldFrame DEF Finished, TypeInv

\* No step leaves the types.
LEMMA TypeStep == TypeInv /\ [Next]_vars => TypeInv'
<1> SUFFICES ASSUME TypeInv, [Next]_vars PROVE TypeInv'
  OBVIOUS
<1>1. ASSUME NEW s \in Syncs, SyncStep(s) PROVE TypeInv'
  BY <1>1, LoadStateFacts, CountVectorsFacts, DeleteRepoFacts, DiffFacts, DeletesDoneFacts,
     DeletePathFacts, FetchedFacts, FetchFailsFacts, IndexFileTextFacts, PersistStateFacts
  DEF SyncStep
<1>2. CASE LoseVectors
  BY <1>2 DEF LoseVectors, local, TypeInv, TypeOK, RunsHold, RunHolds, Active
<1>3. CASE UNCHANGED vars
  BY <1>3 DEF vars, TypeInv, TypeOK, RunsHold, RunHolds, Active
<1> QED
  BY <1>1, <1>2, <1>3, PushType, ReadTipFacts, CrashFacts DEF Next

\* Type correctness.
THEOREM TypeCorrect == Spec => []TypeOK
<1>1. TypeInv => TypeOK
  BY DEF TypeInv
<1> QED
  BY <1>1, TypeInit, TypeStep, PTL DEF Spec

-----------------------------------------------------------------------------
(* The invariant.                                                          *)

\* Since the last wipe no two runs overlapped: at most one is under way, and
\* the row it loaded is still the one that is stored.
NoOverlap ==
  "overlap" \notin suspect =>
    /\ \A s, t \in Syncs : Active(s) /\ Active(t) => s = t
    /\ \A s \in Syncs : Active(s) /\ pc[s] # "load" => seen[s] = state

OneContent == \A v, w \in index : v[1] = w[1] => v = w

\* The file a run is about to index has no vectors; a full index holds vectors
\* of the tip only, and none of the files it did not come to yet.
Ready(s) ==
  \A v \in index :
    /\ v[1] \notin current[s]
    /\ pc[s] \in {"files", "upsert"} /\ mode[s] = "full" =>
         v[1] \notin todo[s] /\ history[tip[s]][v[1]] = v[2]

Clean == "overlap" \notin suspect => OneContent /\ \A s \in Syncs : Ready(s)

\* Half way through a run the index holds the tip, except for the paths the run
\* still has to deal with: of these it holds what the stored commit had, unless
\* the index is built in full or the path is just being replaced.
HalfWay(s) ==
  \A p \in Paths, b \in Blobs :
    <<p, b>> \in index <=>
      \/ p \notin todo[s] \cup current[s] /\ history[tip[s]][p] = b
      \/ /\ mode[s] = "incremental"
         /\ p \in gone[s] \cup todo[s]
         /\ history[seen[s]][p] = b

\* Nothing went wrong since the last wipe: between runs, and while a run only
\* reads, the index holds the stored commit or nothing at all.
Align ==
  suspect = {} =>
    /\ (\A s \in Syncs : pc[s] \notin Indexing) /\ state # 0 /\ index # {}
         => index = IndexOf(history[state])
    /\ \A s \in Syncs : pc[s] = "diff" => index # {}
    /\ \A s \in Syncs : pc[s] \in Indexing => HalfWay(s)

RepoInv == TypeInv /\ NoOverlap /\ Clean /\ Align

LEMMA RepoInvInit == Init => RepoInv
<1> SUFFICES ASSUME Init PROVE RepoInv
  OBVIOUS
<1>1. TypeInv
  BY TypeInit
<1>2. ASSUME NEW s \in Syncs PROVE ~Active(s) /\ pc[s] = "idle"
  BY DEF Init, Active, Finished
<1>3. NoOverlap
  BY <1>2 DEF NoOverlap
<1>4. index = {} /\ state = 0
  BY DEF Init
<1>5. Clean
  BY <1>4 DEF Clean, OneContent, Ready
<1>6. Align
  BY <1>2, <1>4 DEF Align, Indexing
<1> QED
  BY <1>1, <1>3, <1>5, <1>6 DEF RepoInv

-----------------------------------------------------------------------------
(* One run is under way: what is left to show of a step of it.             *)

\* Any step of a run.
RunStep(s) ==
  (\E force \in ForceFull : ReadTip(s, force)) \/ SyncStep(s) \/ Crash(s)

LEMMA RunStepFacts ==
  ASSUME TypeInv, NEW s \in Syncs, RunStep(s)
  PROVE  TypeInv' /\ OnlyRun(s)
  BY ReadTipFacts, LoadStateFacts, CountVectorsFacts, DeleteRepoFacts, DiffFacts,
     DeletesDoneFacts, DeletePathFacts, FetchedFacts, FetchFailsFacts, IndexFileTextFacts,
     PersistStateFacts, CrashFacts
  DEF RunStep, SyncStep

\* When no overlap is recorded after a step of a run, no other run is active: if
\* one were, ReadTip and DeleteRepo would have recorded it, and the other steps
\* forget nothing.
LEMMA RunIsAlone ==
  ASSUME TypeInv, NoOverlap, NEW s \in Syncs, RunStep(s), "overlap" \notin suspect'
  PROVE  Alone(s)
<1>1. ASSUME NEW force \in ForceFull, ReadTip(s, force) PROVE Alone(s)
  BY <1>1 DEF ReadTip
<1>2. CASE DeleteRepo(s)
  BY <1>2 DEF DeleteRepo, Fresh
<1>3. ASSUME Active(s), "overlap" \notin suspect PROVE Alone(s)
  BY <1>3 DEF NoOverlap, Alone
<1>4. CASE LoadState(s) \/ CountVectors(s) \/ Diff(s) \/ DeletesDone(s) \/ PersistState(s)
  BY <1>3, <1>4 DEF LoadState, CountVectors, Diff, DeletesDone, PersistState, Active, Finished
<1>5. ASSUME NEW p \in Paths, DeletePath(s, p) \/ Fetched(s, p) \/ FetchFails(s, p)
      PROVE  Alone(s)
  BY <1>3, <1>5 DEF DeletePath, Fetched, FetchFails, Active, Finished
<1>6. CASE IndexFileText(s)
  BY <1>3, <1>6 DEF IndexFileText, Active, Finished
<1>7. CASE Crash(s)
  BY <1>3, <1>7 DEF Crash
<1> QED
  BY <1>1, <1>2, <1>4, <1>5, <1>6, <1>7 DEF RunStep, SyncStep

\* The other runs are not under way after the step either, and hold nothing.
LEMMA OthersAreOver ==
  ASSUME TypeInv, TypeInv', NEW s \in Syncs, OnlyRun(s), Alone(s), NEW t \in Syncs \ {s}
  PROVE  /\ ~Active(t) /\ ~Active(t)'
         /\ pc[t] \notin Indexing /\ pc'[t] \notin Indexing
         /\ pc'[t] # "diff" /\ current'[t] = {}
<1>1. ~Active(t) /\ pc'[t] = pc[t] /\ current'[t] = current[t]
  BY DEF OnlyRun, Same, Alone
<1>2. current[t] = {}
  BY <1>1 DEF TypeInv, RunsHold, RunHolds, Active, Finished
<1> QED
  BY <1>1, <1>2 DEF Active, Finished, Indexing

LEMMA NoOverlapOfRun ==
  ASSUME TypeInv, TypeInv', NEW s \in Syncs, OnlyRun(s), Alone(s),
         Active(s)' /\ pc'[s] # "load" => seen'[s] = state'
  PROVE  NoOverlap'
  BY OthersAreOver DEF NoOverlap

LEMMA CleanOfRun ==
  ASSUME TypeInv, TypeInv', NEW s \in Syncs, OnlyRun(s), Alone(s), OneContent', Ready(s)'
  PROVE  Clean'
<1> SUFFICES ASSUME NEW t \in Syncs \ {s} PROVE Ready(t)'
  BY DEF Clean
<1> QED
  BY OthersAreOver DEF Ready, Indexing

\* The part of Align about one run when the others are over.
AlignOf(s) ==
  /\ pc[s] \notin Indexing /\ state # 0 /\ index # {} => index = IndexOf(history[state])
  /\ pc[s] = "diff" => index # {}
  /\ pc[s] \in Indexing => HalfWay(s)

LEMMA AlignOfRun ==
  ASSUME TypeInv, TypeInv', NEW s \in Syncs, OnlyRun(s), Alone(s), AlignOf(s)'
  PROVE  Align'
  BY OthersAreOver DEF Align, AlignOf

LEMMA AlignBefore ==
  ASSUME TypeInv, TypeInv', Align, suspect = {}, NEW s \in Syncs, OnlyRun(s), Alone(s)
  PROVE  AlignOf(s)
  BY OthersAreOver DEF Align, AlignOf

-----------------------------------------------------------------------------
(* NoOverlap.                                                              *)

LEMMA NoOverlapStep ==
  ASSUME TypeInv, NoOverlap, NEW s \in Syncs, RunStep(s)
  PROVE  NoOverlap'
<1> SUFFICES ASSUME "overlap" \notin suspect' PROVE NoOverlap'
  BY DEF NoOverlap
<1>1. TypeInv' /\ OnlyRun(s) /\ Alone(s)
  BY RunStepFacts, RunIsAlone
<1> SUFFICES ASSUME Active(s)', pc'[s] # "load" PROVE seen'[s] = state'
  BY <1>1, NoOverlapOfRun
<1>t. TypeOK
  BY DEF TypeInv
<1>2. ASSUME NEW force \in ForceFull, ReadTip(s, force) PROVE FALSE
  BY <1>2, ReadTipFacts
<1>3. CASE LoadState(s)
  BY <1>3, LoadStateFacts DEF LoadState
<1>4. CASE DeleteRepo(s)
  BY <1>4 DEF DeleteRepo, Fresh
<1>5. ASSUME UNCHANGED <<seen, state>>, Active(s), pc[s] # "load", "overlap" \notin suspect
      PROVE  seen'[s] = state'
  BY <1>5 DEF NoOverlap
<1>6. CASE CountVectors(s) \/ Diff(s) \/ DeletesDone(s)
  BY <1>5, <1>6 DEF CountVectors, Diff, DeletesDone, Active, Finished
<1>7. ASSUME NEW p \in Paths, DeletePath(s, p) \/ Fetched(s, p) \/ FetchFails(s, p)
      PROVE  seen'[s] = state'
  BY <1>5, <1>7 DEF DeletePath, Fetched, FetchFails, Active, Finished
<1>8. CASE IndexFileText(s)
  BY <1>5, <1>8 DEF IndexFileText, Active, Finished
<1>9. ASSUME PersistState(s) \/ Crash(s) PROVE FALSE
  BY <1>9, PersistStateFacts, CrashFacts DEF Active, Finished
<1> QED
  BY <1>2, <1>3, <1>4, <1>6, <1>7, <1>8, <1>9 DEF RunStep, SyncStep

-----------------------------------------------------------------------------
(* Clean: no file has the vectors of two contents.                         *)

\* Taking vectors away, and moving on without a new path in hand, keeps it.
LEMMA CleanShrinks ==
  ASSUME OneContent, NEW s \in Syncs, Ready(s), index' \subseteq index,
         \A v \in index' : v[1] \notin current'[s],
         pc'[s] \in {"files", "upsert"} /\ mode'[s] = "full" =>
           /\ pc[s] \in {"files", "upsert"} /\ mode[s] = "full"
           /\ UNCHANGED <<history, tip[s]>> /\ todo'[s] \subseteq todo[s]
  PROVE  OneContent' /\ Ready(s)'
<1>1. OneContent'
  BY DEF OneContent
<1>2. Ready(s)'
  BY DEF Ready
<1> QED
  BY <1>1, <1>2

LEMMA CleanStep ==
  ASSUME TypeInv, NoOverlap, Clean, NEW s \in Syncs, RunStep(s)
  PROVE  Clean'
<1> SUFFICES ASSUME "overlap" \notin suspect' PROVE Clean'
  BY DEF Clean
<1>1. TypeInv' /\ OnlyRun(s) /\ Alone(s)
  BY RunStepFacts, RunIsAlone
<1> SUFFICES OneContent' /\ Ready(s)'
  BY <1>1, CleanOfRun
<1>t. TypeOK /\ RunHolds(s) /\ RunHolds(s)'
  BY <1>1 DEF TypeInv, RunsHold
<1>c. ASSUME "overlap" \notin suspect PROVE OneContent /\ Ready(s)
  BY <1>c DEF Clean
<1>2. ASSUME "overlap" \notin suspect, index' = index, current'[s] = {},
             pc'[s] \notin {"files", "upsert"} \/ mode'[s] = "incremental"
      PROVE  OneContent' /\ Ready(s)'
  BY <1>2, <1>c, CleanShrinks
<1>3. ASSUME NEW force \in ForceFull, ReadTip(s, force) PROVE OneContent' /\ Ready(s)'
  <2>1. pc'[s] = "load" /\ current'[s] = {}
    BY <1>3, <1>t, ReadTipFacts DEF RunHolds
  <2> QED
    BY <2>1, <1>2, <1>3 DEF ReadTip
<1>4. CASE LoadState(s)
  <2>1. pc'[s] \in {"wipe", "count"} /\ current'[s] = {}
    BY <1>4, <1>t, LoadStateFacts DEF RunHolds
  <2> QED
    BY <2>1, <1>2, <1>4 DEF LoadState
<1>5. CASE CountVectors(s)
  <2>1. pc'[s] \in {"wipe", "diff", "done"} /\ current'[s] = {}
    BY <1>5, <1>t, CountVectorsFacts DEF RunHolds
  <2> QED
    BY <2>1, <1>2, <1>5 DEF CountVectors
<1>6. CASE DeleteRepo(s)
  BY <1>6 DEF DeleteRepo, OneContent, Ready
<1>7. CASE Diff(s)
  <2>1. pc'[s] = "delete" /\ current'[s] = {}
    BY <1>7, DiffFacts
  <2> QED
    BY <2>1, <1>2, <1>7 DEF Diff
<1>8. CASE DeletesDone(s)
  <2>1. mode'[s] = "incremental" /\ current'[s] = {}
    BY <1>8, <1>t DEF DeletesDone, RunHolds
  <2> QED
    BY <2>1, <1>2, <1>8 DEF DeletesDone
<1>9. ASSUME NEW p \in Paths, DeletePath(s, p) PROVE OneContent' /\ Ready(s)'
  <2>1. /\ index' \subseteq index /\ current'[s] = {}
        /\ pc'[s] = "delete" /\ "overlap" \notin suspect
    BY <1>9, <1>t DEF DeletePath, WithoutPath, RunHolds
  <2> QED
    BY <2>1, <1>c, CleanShrinks
<1>10. ASSUME NEW p \in Paths, Fetched(s, p) PROVE OneContent' /\ Ready(s)'
  <2>1. /\ current'[s] = {p} /\ todo'[s] = todo[s] \ {p}
        /\ p \in todo[s] /\ pc[s] = "files"
        /\ UNCHANGED <<mode, history, tip>> /\ "overlap" \notin suspect
        /\ index' = IF mode[s] = "incremental" THEN WithoutPath(p) ELSE index
    BY <1>10, FetchedFacts DEF Fetched
  <2>2. mode[s] = "full" => \A v \in index : v[1] # p
    BY <2>1, <1>c DEF Ready
  <2>3. index' \subseteq index /\ \A v \in index' : v[1] # p
    BY <2>1, <2>2, <1>t DEF WithoutPath, TypeOK
  <2> QED
    BY <2>1, <2>3, <1>c, CleanShrinks
<1>11. ASSUME NEW p \in Paths, FetchFails(s, p) PROVE OneContent' /\ Ready(s)'
  <2>1. /\ current'[s] = {} /\ todo'[s] = todo[s] \ {p}
        /\ UNCHANGED <<mode, history, tip, pc, index>> /\ "overlap" \notin suspect
        /\ pc[s] = "files"
    BY <1>11, <1>t, FetchFailsFacts DEF FetchFails, RunHolds
  <2> QED
    BY <2>1, <1>c, CleanShrinks
<1>12. CASE IndexFileText(s)
  <2>1. /\ pc[s] = "upsert" /\ current'[s] = {} /\ "overlap" \notin suspect
        /\ UNCHANGED <<mode, history, tip, todo>>
        /\ \A p \in current[s] : p \in Paths /\ p \notin todo[s]
    BY <1>12, <1>t, IndexFileTextFacts DEF IndexFileText, RunHolds, Indexing
  <2>2. CASE index' = index
    BY <2>1, <2>2, <1>c, CleanShrinks
  <2>3. CASE index' = index \cup {<<p, history[tip[s]][p]>> : p \in current[s]}
    <3>1. ASSUME NEW v \in index'
          PROVE  \/ v \in index /\ v[1] \notin current[s]
                 \/ v[1] \in current[s] /\ v[2] = history[tip[s]][v[1]]
      BY <2>3, <1>c, <2>1 DEF Ready
    <3>2. ASSUME NEW v \in index', NEW w \in index', v[1] = w[1] PROVE v = w
      <4>1. CASE v \in index /\ w \in index
        BY <4>1, <3>2, <2>1, <1>c DEF OneContent
      <4>2. CASE v \notin index \/ w \notin index
        <5>1. /\ v[1] \in current[s] /\ v[2] = history[tip[s]][v[1]]
              /\ w[1] \in current[s] /\ w[2] = history[tip[s]][w[1]]
          BY <3>1, <3>2, <4>2
        <5>2. v \in Paths \X Blobs /\ w \in Paths \X Blobs
          BY <1>1 DEF TypeInv, TypeOK
        <5> QED
          BY <5>1, <5>2, <3>2
      <4> QED
        BY <4>1, <4>2
    <3>3. Ready(s)'
      <4> SUFFICES ASSUME NEW v \in index', mode[s] = "full"
                   PROVE  v[1] \notin todo[s] /\ history[tip[s]][v[1]] = v[2]
        BY <2>1 DEF Ready
      <4> QED
        BY <3>1, <2>1, <1>c DEF Ready
    <3> QED
      BY <3>2, <3>3 DEF OneContent
  <2> QED
    BY <1>12, <2>2, <2>3 DEF IndexFileText, Embedded
<1>13. CASE PersistState(s)
  <2>1. pc'[s] = "done" /\ current'[s] = {}
    BY <1>13, <1>t, PersistStateFacts DEF RunHolds
  <2> QED
    BY <2>1, <1>2, <1>13 DEF PersistState
<1>14. CASE Crash(s)
  <2>1. pc'[s] = "idle" /\ current'[s] = {}
    BY <1>14, <1>t, CrashFacts DEF RunHolds
  <2> QED
    BY <2>1, <1>2, <1>14 DEF Crash
<1> QED
  BY <1>3, <1>4, <1>5, <1>6, <1>7, <1>8, <1>9, <1>10, <1>11, <1>12, <1>13, <1>14
  DEF RunStep, SyncStep

-----------------------------------------------------------------------------
(* Align: what the index holds while nothing went wrong.                   *)

\* A run with nothing left to deal with left the vectors of its tip.
LEMMA NothingLeft ==
  ASSUME TypeInv, NEW s \in Syncs, pc[s] = "files", todo[s] = {}, HalfWay(s)
  PROVE  index = IndexOf(history[tip[s]])
<1>1. RunHolds(s)
  BY DEF TypeInv, RunsHold
<1>2. gone[s] = {} /\ current[s] = {} /\ tip[s] > 0
  BY <1>1 DEF RunHolds, Active, Finished
<1>3. history[tip[s]] \in Trees
  BY <1>2, RunTrees
<1>4. index \subseteq Paths \X Blobs /\ IndexOf(history[tip[s]]) \subseteq Paths \X Blobs
  BY <1>3, TreeFacts DEF TypeInv, TypeOK
<1>5. ASSUME NEW p \in Paths, NEW b \in Blobs
      PROVE  <<p, b>> \in index <=> <<p, b>> \in IndexOf(history[tip[s]])
  <2>1. <<p, b>> \in index <=> history[tip[s]][p] = b
    BY <1>2 DEF HalfWay
  <2> QED
    BY <2>1, <1>3, InIndexOf
<1> QED
  BY <1>4, <1>5, SameVectors

\* Between the reads of a run that compares commits, the index holds the commit
\* it loaded.
LEMMA LoadedIsIndexed ==
  ASSUME TypeInv, NoOverlap, NEW s \in Syncs, AlignOf(s), suspect = {},
         pc[s] \in {"count", "diff"}, index # {}
  PROVE  /\ seen[s] = state /\ seen[s] > 0 /\ history[seen[s]] \in Trees
         /\ index = IndexOf(history[seen[s]])
<1>1. RunHolds(s)
  BY DEF TypeInv, RunsHold
<1>2. seen[s] > 0 /\ seen[s] = state
  BY <1>1 DEF RunHolds, NoOverlap, Active, Finished
<1> QED
  BY <1>2, RunTrees DEF AlignOf, Indexing, TypeInv, TypeOK

LEMMA WipeAligns ==
  ASSUME TypeInv, NEW s \in Syncs, DeleteRepo(s)
  PROVE  AlignOf(s)'
<1>1. /\ pc'[s] = "files" /\ mode'[s] = "full" /\ gone'[s] = {} /\ current'[s] = {}
      /\ \A p \in Paths : p \in todo'[s] <=> history[tip[s]][p] # Absent
  BY DeleteRepoFacts
<1>2. index' = {} /\ UNCHANGED <<history, tip>>
  BY DEF DeleteRepo
<1>3. HalfWay(s)'
  BY <1>1, <1>2, IndexAssumption DEF HalfWay
<1> QED
  BY <1>1, <1>3 DEF AlignOf, Indexing

LEMMA DiffAligns ==
  ASSUME TypeInv, NoOverlap, NEW s \in Syncs, AlignOf(s), suspect = {}, Diff(s)
  PROVE  AlignOf(s)'
<1>1. /\ pc'[s] = "delete" /\ mode'[s] = "incremental" /\ current'[s] = {}
      /\ history[tip[s]] \in Trees
      /\ \A p \in Paths :
           /\ p \in gone'[s] <=> /\ history[seen[s]][p] # Absent
                                /\ history[tip[s]][p] = Absent
           /\ p \in todo'[s] <=> /\ history[tip[s]][p] # Absent
                                /\ history[seen[s]][p] # history[tip[s]][p]
  BY DiffFacts
<1>2. UNCHANGED <<history, tip, seen, index>> /\ pc[s] = "diff"
  BY DEF Diff
<1>3. history[seen[s]] \in Trees /\ index = IndexOf(history[seen[s]])
  BY <1>2, LoadedIsIndexed DEF AlignOf
<1>4. ASSUME NEW p \in Paths, NEW b \in Blobs
      PROVE  <<p, b>> \in index' <=>
               \/ p \notin todo'[s] \cup current'[s] /\ history'[tip'[s]][p] = b
               \/ /\ mode'[s] = "incremental"
                  /\ p \in gone'[s] \cup todo'[s]
                  /\ history'[seen'[s]][p] = b
  <2>1. <<p, b>> \in index <=> history[seen[s]][p] = b
    BY <1>3, InIndexOf
  <2>2. b # Absent
    BY IndexAssumption
  <2> QED
    BY <1>1, <1>2, <2>1, <2>2
<1>5. HalfWay(s)'
  BY <1>4 DEF HalfWay
<1> QED
  BY <1>1, <1>5 DEF AlignOf, Indexing

LEMMA DeletePathAligns ==
  ASSUME TypeInv, NEW s \in Syncs, AlignOf(s), NEW p \in Paths, DeletePath(s, p)
  PROVE  AlignOf(s)'
<1>1. /\ pc[s] = "delete" /\ pc' = pc
      /\ gone'[s] = gone[s] \ {p}
      /\ UNCHANGED <<history, mode, tip, seen, todo, current>>
      /\ index' = WithoutPath(p) /\ p \in gone[s]
  BY DeletePathFacts DEF DeletePath
<1>2. RunHolds(s) /\ HalfWay(s)
  BY <1>1 DEF TypeInv, RunsHold, AlignOf, Indexing
<1>3. history[tip[s]][p] = Absent /\ p \notin todo[s]
  BY <1>1, <1>2 DEF RunHolds, Indexing
<1>4. HalfWay(s)'
  <2> SUFFICES ASSUME NEW q \in Paths, NEW b \in Blobs
               PROVE  <<q, b>> \in index' <=>
                        \/ q \notin todo[s] \cup current[s] /\ history[tip[s]][q] = b
                        \/ /\ mode[s] = "incremental"
                           /\ q \in gone'[s] \cup todo[s]
                           /\ history[seen[s]][q] = b
    BY <1>1 DEF HalfWay
  <2>1. <<q, b>> \in index' <=> <<q, b>> \in index /\ q # p
    BY <1>1, WithoutPathFacts
  <2>2. b # Absent
    BY IndexAssumption
  <2> QED
    BY <1>1, <1>2, <1>3, <2>1, <2>2 DEF HalfWay
<1> QED
  BY <1>1, <1>4 DEF AlignOf, Indexing

LEMMA FetchedAligns ==
  ASSUME TypeInv, NEW s \in Syncs, AlignOf(s), NEW p \in Paths, Fetched(s, p)
  PROVE  AlignOf(s)'
<1>1. /\ pc[s] = "files" /\ pc'[s] = "upsert" /\ p \in todo[s]
      /\ todo'[s] = todo[s] \ {p} /\ current'[s] = {p}
      /\ UNCHANGED <<history, mode, tip, seen, gone>>
      /\ index' = IF mode[s] = "incremental" THEN WithoutPath(p) ELSE index
  BY FetchedFacts DEF Fetched
<1>2. RunHolds(s) /\ HalfWay(s)
  BY <1>1 DEF TypeInv, RunsHold, AlignOf, Indexing
<1>3. gone[s] = {} /\ current[s] = {}
  BY <1>1, <1>2 DEF RunHolds
<1>4. HalfWay(s)'
  <2> SUFFICES ASSUME NEW q \in Paths, NEW b \in Blobs
               PROVE  <<q, b>> \in index' <=>
                        \/ q \notin todo'[s] \cup current'[s] /\ history[tip[s]][q] = b
                        \/ /\ mode[s] = "incremental"
                           /\ q \in gone[s] \cup todo'[s]
                           /\ history[seen[s]][q] = b
    BY <1>1 DEF HalfWay
  <2>1. CASE mode[s] = "incremental"
    <3>1. <<q, b>> \in index' <=> <<q, b>> \in index /\ q # p
      BY <1>1, <2>1, WithoutPathFacts
    <3> QED
      BY <1>1, <1>2, <1>3, <2>1, <3>1 DEF HalfWay
  <2>2. CASE mode[s] # "incremental"
    BY <1>1, <1>2, <1>3, <2>2 DEF HalfWay
  <2> QED
    BY <2>1, <2>2
<1> QED
  BY <1>1, <1>4 DEF AlignOf, Indexing

LEMMA IndexFileTextAligns ==
  ASSUME TypeInv, NEW s \in Syncs, AlignOf(s), suspect' = {}, IndexFileText(s)
  PROVE  AlignOf(s)'
<1>1. /\ pc[s] = "upsert" /\ pc'[s] = "files" /\ current'[s] = {}
      /\ UNCHANGED <<history, mode, tip, seen, gone, todo>>
      /\ index' = index \cup {<<p, history[tip[s]][p]>> : p \in current[s]}
  BY IndexFileTextFacts DEF IndexFileText, Embedded
<1>2. RunHolds(s) /\ HalfWay(s)
  BY <1>1 DEF TypeInv, RunsHold, AlignOf, Indexing
<1>3. gone[s] = {} /\ todo[s] \cap current[s] = {}
  BY <1>1, <1>2 DEF RunHolds, Indexing
<1>4. HalfWay(s)'
  <2> SUFFICES ASSUME NEW q \in Paths, NEW b \in Blobs
               PROVE  <<q, b>> \in index' <=>
                        \/ q \notin todo[s] /\ history[tip[s]][q] = b
                        \/ /\ mode[s] = "incremental"
                           /\ q \in gone[s] \cup todo[s]
                           /\ history[seen[s]][q] = b
    BY <1>1 DEF HalfWay
  <2>1. <<q, b>> \in index' <=>
          \/ <<q, b>> \in index
          \/ q \in current[s] /\ history[tip[s]][q] = b
    BY <1>1
  <2> QED
    BY <1>2, <1>3, <2>1 DEF HalfWay
<1> QED
  BY <1>1, <1>4 DEF AlignOf, Indexing

LEMMA PersistStateAligns ==
  ASSUME TypeInv, NoOverlap, NEW s \in Syncs, AlignOf(s), suspect = {}, PersistState(s)
  PROVE  AlignOf(s)'
<1>1. /\ pc[s] = "files" /\ todo[s] = {} /\ pc'[s] = "done"
      /\ UNCHANGED <<history, index>>
      /\ state' = IF seen[s] = tip[s] THEN state ELSE tip[s]
  BY PersistStateFacts DEF PersistState
<1>2. index = IndexOf(history[tip[s]])
  BY <1>1, NothingLeft DEF AlignOf, Indexing
<1>3. seen[s] = state
  BY <1>1 DEF NoOverlap, Active, Finished
<1> QED
  BY <1>1, <1>2, <1>3 DEF AlignOf, Indexing

LEMMA AlignStep ==
  ASSUME TypeInv, NoOverlap, Align, NEW s \in Syncs, RunStep(s)
  PROVE  Align'
<1> SUFFICES ASSUME suspect' = {} PROVE Align'
  BY DEF Align
<1>1. TypeInv' /\ OnlyRun(s) /\ Alone(s)
  BY RunStepFacts, RunIsAlone
<1> SUFFICES AlignOf(s)'
  BY <1>1, AlignOfRun
<1>a. ASSUME suspect = {} PROVE AlignOf(s)
  BY <1>1, <1>a, AlignBefore
<1>2. ASSUME UNCHANGED <<history, state, index>>, suspect = {},
             pc[s] \notin Indexing, pc'[s] \notin Indexing,
             pc'[s] = "diff" => index # {}
      PROVE  AlignOf(s)'
  BY <1>2, <1>a DEF AlignOf
<1>3. ASSUME NEW force \in ForceFull, ReadTip(s, force) PROVE AlignOf(s)'
  <2>1. pc'[s] = "load" /\ pc[s] \in Finished
    BY <1>3, ReadTipFacts DEF ReadTip, Active
  <2>2. UNCHANGED <<history, state, index>> /\ suspect = {}
    BY <1>1, <1>3 DEF ReadTip
  <2> QED
    BY <1>2, <2>1, <2>2 DEF Indexing, Finished
<1>4. CASE LoadState(s)
  BY <1>2, <1>4, LoadStateFacts DEF LoadState, Indexing
<1>5. CASE CountVectors(s)
  BY <1>2, <1>5, CountVectorsFacts DEF CountVectors, Indexing
<1>6. CASE DeleteRepo(s)
  BY <1>6, WipeAligns
<1>7. CASE Diff(s)
  BY <1>7, <1>a, DiffAligns DEF Diff
<1>8. CASE DeletesDone(s)
  BY <1>8, <1>a, DeletesDoneFacts DEF DeletesDone, AlignOf, HalfWay, Indexing
<1>9. ASSUME NEW p \in Paths, DeletePath(s, p) PROVE AlignOf(s)'
  BY <1>9, <1>a, DeletePathAligns DEF DeletePath
<1>10. ASSUME NEW p \in Paths, Fetched(s, p) PROVE AlignOf(s)'
  BY <1>10, <1>a, FetchedAligns DEF Fetched
<1>11. ASSUME NEW p \in Paths, FetchFails(s, p) PROVE FALSE
  BY <1>11 DEF FetchFails
<1>12. CASE IndexFileText(s)
  BY <1>12, <1>a, IndexFileTextAligns DEF IndexFileText
<1>13. CASE PersistState(s)
  BY <1>13, <1>a, PersistStateAligns DEF PersistState
<1>14. ASSUME Crash(s) PROVE FALSE
  BY <1>14 DEF Crash
<1> QED
  BY <1>3, <1>4, <1>5, <1>6, <1>7, <1>8, <1>9, <1>10, <1>11, <1>12, <1>13, <1>14
  DEF RunStep, SyncStep

-----------------------------------------------------------------------------
(* The theorems.                                                           *)

\* A commit is pushed: no run notices before it reads the tip again.
LEMMA PushKeepsInv ==
  ASSUME RepoInv, NEW t \in Trees, Push(t)
  PROVE  RepoInv'
<1> USE DEF RepoInv
<1>1. TypeInv'
  BY PushType
<1>2. UNCHANGED <<state, index, pc, forced, mode, tip, seen, gone, todo, current, suspect>>
  BY DEF Push, local
<1>3. ASSUME NEW s \in Syncs
      PROVE  /\ pc[s] \in Indexing => history'[tip[s]] = history[tip[s]]
             /\ pc[s] \in Indexing /\ mode[s] = "incremental" =>
                  history'[seen[s]] = history[seen[s]]
  <2>1. RunHolds(s)
    BY DEF TypeInv, RunsHold
  <2>2. pc[s] \in Indexing => tip[s] > 0 /\ (mode[s] = "incremental" => seen[s] > 0)
    BY <2>1 DEF RunHolds, Active, Indexing, Finished
  <2> QED
    BY <2>2, PushFacts, RunTrees
<1>4. state # 0 => history'[state] = history[state]
  BY PushFacts, RunTrees DEF TypeInv, TypeOK
<1>5. NoOverlap'
  BY <1>2 DEF NoOverlap, Active
<1>6. Clean'
  <2> SUFFICES ASSUME "overlap" \notin suspect PROVE OneContent' /\ \A s \in Syncs : Ready(s)'
    BY <1>2 DEF Clean
  <2>1. OneContent'
    BY <1>2 DEF Clean, OneContent
  <2>2. ASSUME NEW s \in Syncs PROVE Ready(s)'
    <3>1. Ready(s)
      BY DEF Clean
    <3>2. pc[s] \in {"files", "upsert"} => history'[tip[s]] = history[tip[s]]
      BY <1>3 DEF Indexing
    <3> QED
      BY <1>2, <3>1, <3>2 DEF Ready
  <2> QED
    BY <2>1, <2>2
<1>7. Align'
  <2> SUFFICES ASSUME suspect = {} PROVE Align'
    BY <1>2 DEF Align
  <2>1. ASSUME NEW s \in Syncs, pc[s] \in Indexing PROVE HalfWay(s)'
    <3>1. HalfWay(s)
      BY <2>1 DEF Align
    <3>2. history'[tip[s]] = history[tip[s]]
      BY <1>3, <2>1
    <3>3. mode[s] = "incremental" => history'[seen[s]] = history[seen[s]]
      BY <1>3, <2>1
    <3> SUFFICES ASSUME NEW p \in Paths, NEW b \in Blobs
                 PROVE  (<<p, b>> \in index <=>
                           \/ p \notin todo[s] \cup current[s] /\ history[tip[s]][p] = b
                           \/ /\ mode[s] = "incremental"
                              /\ p \in gone[s] \cup todo[s]
                              /\ history[seen[s]][p] = b)'
      BY DEF HalfWay
    <3>4. <<p, b>> \in index <=>
            \/ p \notin todo[s] \cup current[s] /\ history[tip[s]][p] = b
            \/ /\ mode[s] = "incremental"
               /\ p \in gone[s] \cup todo[s]
               /\ history[seen[s]][p] = b
      BY <3>1 DEF HalfWay
    <3> QED
      BY <1>2, <3>2, <3>3, <3>4
  <2>2. \A s \in Syncs : pc[s] = "diff" => index # {}
    BY DEF Align
  <2>3. (\A s \in Syncs : pc[s] \notin Indexing) /\ state # 0 /\ index # {}
          => index = IndexOf(history'[state])
    BY <1>4 DEF Align
  <2>4. (\A s \in Syncs : pc[s] \notin Indexing) /\ state # 0 /\ index # {}
          => index = IndexOf(history[state])'
    BY <1>2, <2>3 DEF IndexOf, Files
  <2> QED
    BY <1>2, <2>1, <2>2, <2>4 DEF Align
<1> QED
  BY <1>1, <1>5, <1>6, <1>7

\* Every step keeps the invariant.
LEMMA RepoInvStep == RepoInv /\ [Next]_vars => RepoInv'
<1> SUFFICES ASSUME RepoInv, [Next]_vars PROVE RepoInv'
  OBVIOUS
<1>1. ASSUME NEW s \in Syncs, RunStep(s) PROVE RepoInv'
  BY <1>1, RunStepFacts, NoOverlapStep, CleanStep, AlignStep DEF RepoInv
<1>2. CASE LoseVectors
  <2>1. TypeInv'
    BY <1>2, TypeStep DEF RepoInv, Next
  <2>2. /\ UNCHANGED <<history, state, pc, mode, tip, seen, gone, todo, current, suspect>>
        /\ index' = {} /\ \A s \in Syncs : pc[s] \in Finished
    BY <1>2 DEF LoseVectors, local, Active
  <2>3. NoOverlap' /\ Clean' /\ Align'
    BY <2>2 DEF RepoInv, NoOverlap, Active, Clean, OneContent, Ready, Align, Indexing, Finished
  <2> QED
    BY <2>1, <2>3 DEF RepoInv
<1>3. CASE UNCHANGED vars
  <2>1. TypeInv'
    BY <1>3, TypeStep DEF RepoInv
  <2>2. NoOverlap' /\ Clean'
    BY <1>3 DEF RepoInv, vars, NoOverlap, Active, Clean, OneContent, Ready
  <2>3. Align'
    BY <1>3 DEF RepoInv, vars, Align, HalfWay
  <2> QED
    BY <2>1, <2>2, <2>3 DEF RepoInv
<1> QED
  BY <1>1, <1>2, <1>3, PushKeepsInv DEF Next, RunStep

\* The invariant, for any number of callers, paths, blobs and commits.
THEOREM RepoInvariant == Spec => []RepoInv
  BY RepoInvInit, RepoInvStep, PTL DEF Spec

\* While no run is under way the stored commit is the one whose files the index
\* holds, chunk for chunk, unless all vectors were lost, or since the vectors were
\* last wiped a file or a chunk was skipped, a run died or runs overlapped
\* (repo_index_state.py:8).
THEOREM StoredCommit == Spec => []StoredCommitIsIndexed
<1>1. RepoInv => StoredCommitIsIndexed
  BY DEF RepoInv, Align, StoredCommitIsIndexed, Active, Indexing, Finished
<1> QED
  BY <1>1, RepoInvariant, PTL

\* However fetches, embeddings and whole runs fail, a file never has the vectors
\* of two contents as long as runs do not overlap (indexer.py:263-264).
THEOREM OneVersion == Spec => []OneVersionPerPath
<1>1. RepoInv => OneVersionPerPath
  BY DEF RepoInv, Clean, OneContent, OneVersionPerPath
<1> QED
  BY <1>1, RepoInvariant, PTL

\* Only these steps end a run with success.
LEMMA WhoSucceeds ==
  ASSUME TypeInv, [Next]_vars, NEW s \in Syncs, Active(s), pc'[s] = "done"
  PROVE  CountVectors(s) \/ PersistState(s)
<1>1. pc'[s] # pc[s]
  BY DEF Active, Finished
<1>2. ASSUME NEW t \in Syncs, RunStep(t) PROVE t = s
  BY <1>1, <1>2, RunStepFacts DEF OnlyRun, Same
<1>3. RunStep(s)
  BY <1>1, <1>2 DEF Next, RunStep, Push, LoseVectors, vars, local
<1>4. ~\E force \in ForceFull : ReadTip(s, force)
  BY ReadTipFacts
<1>5. ~LoadState(s) /\ ~DeleteRepo(s) /\ ~Diff(s) /\ ~DeletesDone(s) /\ ~IndexFileText(s)
  BY LoadStateFacts, DeleteRepoFacts, DiffFacts, DeletesDoneFacts, IndexFileTextFacts
<1>6. ASSUME NEW p \in Paths PROVE ~DeletePath(s, p) /\ ~Fetched(s, p) /\ ~FetchFails(s, p)
  BY <1>1, FetchedFacts DEF DeletePath, FetchFails
<1>7. ~Crash(s)
  BY CrashFacts
<1> QED
  BY <1>3, <1>4, <1>5, <1>6, <1>7 DEF RunStep, SyncStep

\* A run that succeeds leaves exactly the vectors of the tip it read, whether it
\* indexed in full, by the difference or not at all, unless since the vectors were
\* last wiped a file or a chunk was skipped, in this run or an earlier one, a run
\* died or runs overlapped (indexer.py:93-156, 304-328).
THEOREM EverySyncAligns == Spec => SyncAligns
<1>1. ASSUME RepoInv, [Next]_vars, NEW s \in Syncs, Active(s), pc'[s] = "done", suspect = {}
      PROVE  index' = IndexOf(history[tip[s]])
  <2> USE <1>1 DEF RepoInv
  <2>1. CountVectors(s) \/ PersistState(s)
    BY WhoSucceeds
  <2>2. TypeInv' /\ OnlyRun(s) /\ Alone(s)
    <3>1. RunStep(s) /\ suspect' = suspect
      BY <2>1 DEF RunStep, SyncStep, CountVectors, PersistState
    <3> QED
      BY <3>1, RunStepFacts, RunIsAlone
  <2>3. AlignOf(s)
    BY <2>2, AlignBefore
  <2>4. CASE CountVectors(s)
    <3>1. index # {} /\ seen[s] = tip[s] /\ index' = index /\ pc[s] = "count"
      BY <2>4, CountVectorsFacts DEF CountVectors
    <3> QED
      BY <3>1, <2>3, LoadedIsIndexed
  <2>5. CASE PersistState(s)
    BY <2>3, <2>5, NothingLeft DEF PersistState, AlignOf, Indexing
  <2> QED
    BY <2>1, <2>4, <2>5
<1>2. RepoInv /\ [Next]_vars =>
        [\A s \in Syncs : Succeeds(s) /\ suspect = {} => index' = IndexOf(history[tip[s]])]_vars
  BY <1>1 DEF Succeeds
<1> QED
  BY <1>2, RepoInvariant, PTL DEF Spec, SyncAligns

\* A full index leaves no vector that is not of the tip it read, whatever earlier
\* runs left behind and whichever files or chunks are skipped, as long as runs do not
\* overlap (indexer.py:177-203).
THEOREM EveryFullIndexIsClean == Spec => FullIndexIsClean
<1>1. ASSUME RepoInv, [Next]_vars, NEW s \in Syncs, pc[s] = "files", pc'[s] = "done",
             mode[s] = "full", "overlap" \notin suspect
      PROVE  index' \subseteq IndexOf(history[tip[s]])
  <2> USE <1>1 DEF RepoInv
  <2>1. PersistState(s)
    BY WhoSucceeds DEF Active, Finished, CountVectors
  <2>2. index' = index /\ index \subseteq Paths \X Blobs
    BY <2>1 DEF PersistState, TypeInv, TypeOK
  <2>3. history[tip[s]] \in Trees
    BY RunTrees DEF TypeInv, RunsHold, RunHolds, Active, Finished
  <2>4. \A v \in index : history[tip[s]][v[1]] = v[2]
    BY DEF Clean, Ready
  <2>5. ASSUME NEW p \in Paths, NEW b \in Blobs, <<p, b>> \in index
        PROVE  <<p, b>> \in IndexOf(history[tip[s]])
    BY <2>3, <2>4, <2>5, InIndexOf
  <2> QED
    BY <2>2, <2>5
<1>2. RepoInv /\ [Next]_vars =>
        [\A s \in Syncs :
           pc[s] = "files" /\ pc'[s] = "done" /\ mode[s] = "full" /\ "overlap" \notin suspect
             => index' \subseteq IndexOf(history[tip[s]])]_vars
  BY <1>1
<1> QED
  BY <1>2, RepoInvariant, PTL DEF Spec, FullIndexIsClean
=============================================================================
