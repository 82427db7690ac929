----------------------------- MODULE RepoIndex -----------------------------
(***************************************************************************)
(* The vector index of one repository and the runs of RepoIndexer that     *)
(* align it with the tip of the default branch.  Workers and the API call  *)
(* sync_repo without a lock; each request to GitHub, Qdrant or Postgres is *)
(* a step.  A file has a chunk at least; its chunks are not told apart: a  *)
(* pair of the index stands for vectors of that text, one of its chunks or *)
(* all, and a file that was not embedded to its last chunk is "suspect".   *)
(***************************************************************************)
EXTENDS Naturals, Sequences

CONSTANTS
  Syncs,       \* callers of sync_repo, each calls it again and again
  Paths,       \* paths with an indexed extension
  Blobs,       \* blob SHAs
  Absent,      \* the path is not in the tree
  MaxCommits,  \* bound on the commits pushed
  ForceFull,   \* values of force_full, also TRUE for a changed embedding model
  Reverts,     \* a commit may bring back what a path held, or lacked, before
  Faults       \* what may go wrong (FaultKinds)

\* fetch: a blob cannot be fetched.  embed: a chunk of a file is not embedded.
\* crash: a run ends at any request.  wipe: the vectors are lost while no run
\* is under way.
FaultKinds == {"fetch", "embed", "crash", "wipe"}

ASSUME IndexAssumption ==
  /\ Absent \notin Blobs
  /\ MaxCommits \in Nat
  /\ ForceFull \subseteq BOOLEAN
  /\ Reverts \in BOOLEAN
  /\ Faults \subseteq FaultKinds

VARIABLES
  history,  \* the commits of the default branch, each a path -> blob map
  state,    \* repo_index_state.commit_sha, 0 when there is no row
  index,    \* <<path, blob>> of the texts that have vectors
  pc,       \* run -> progress
  forced,   \* run -> force_full, until it is looked at
  mode,     \* run -> "full" or "incremental"
  tip,      \* run -> the commit it read as the tip
  seen,     \* run -> the state it loaded
  gone,     \* run -> paths whose vectors it still deletes
  todo,     \* run -> paths it still has to fetch and index
  current,  \* run -> the path it fetched and did not index yet
  suspect   \* history variable: what happened since the vectors were last
            \* wiped: "fault", a file or a chunk was skipped or a run died;
            \* "overlap"

local == <<pc, forced, mode, tip, seen, gone, todo, current>>
vars  == <<history, state, index, pc, forced, mode, tip, seen, gone, todo, current,
           suspect>>

Trees == [Paths -> Blobs \cup {Absent}]
Files(tree) == {p \in Paths : tree[p] # Absent}
IndexOf(tree) == {<<p, tree[p]>> : p \in Files(tree)}

Finished == {"idle", "done"}
Progress == Finished \cup {"load", "count", "wipe", "diff", "delete", "files", "upsert"}

TypeOK ==
  /\ history \in Seq(Trees)
  /\ state \in 0..Len(history)
  /\ index \subseteq Paths \X Blobs
  /\ pc \in [Syncs -> Progress]
  /\ forced \in [Syncs -> BOOLEAN]
  /\ mode \in [Syncs -> {"full", "incremental"}]
  /\ tip \in [Syncs -> Nat]
  /\ seen \in [Syncs -> Nat]
  /\ gone \in [Syncs -> SUBSET Paths]
  /\ todo \in [Syncs -> SUBSET Paths]
  /\ current \in [Syncs -> SUBSET Paths]
  /\ suspect \subseteq {"fault", "overlap"}

Init ==
  /\ history \in {<<t>> : t \in Trees}
  /\ state = 0
  /\ index = {}
  /\ pc = [s \in Syncs |-> "idle"]
  /\ forced = [s \in Syncs |-> FALSE]
  /\ mode = [s \in Syncs |-> "full"]
  /\ tip = [s \in Syncs |-> 0]
  /\ seen = [s \in Syncs |-> 0]
  /\ gone = [s \in Syncs |-> {}]
  /\ todo = [s \in Syncs |-> {}]
  /\ current = [s \in Syncs |-> {}]
  /\ suspect = {}

Active(s) == pc[s] \notin Finished

Alone(s) == \A t \in Syncs \ {s} : ~Active(t)

Goto(s, place) == pc' = [pc EXCEPT ![s] = place]

-----------------------------------------------------------------------------
(* The repository.                                                         *)

Push(tree) ==
  /\ Len(history) < MaxCommits
  /\ tree # history[Len(history)]
  /\ Reverts \/ \A p \in Paths :
                  \/ tree[p] = history[Len(history)][p]
                  \/ \A i \in DOMAIN history : history[i][p] # tree[p]
  /\ history' = Append(history, tree)
  /\ UNCHANGED <<state, index, local, suspect>>

-----------------------------------------------------------------------------
(* sync_repo: what is read, and what is decided from it.                   *)

ReadTip(s, force) ==
  /\ ~Active(s)
  /\ Goto(s, "load")
  /\ forced' = [forced EXCEPT ![s] = force]
  /\ tip' = [tip EXCEPT ![s] = Len(history)]
  /\ suspect' = IF Alone(s) THEN suspect ELSE suspect \cup {"overlap"}
  /\ UNCHANGED <<history, state, index, mode, seen, gone, todo, current>>

\* A changed embedding model matters only when there is a row; without one the
\* index is built in full anyway.
LoadState(s) ==
  /\ pc[s] = "load"
  /\ seen' = [seen EXCEPT ![s] = state]
  /\ Goto(s, IF forced[s] \/ state = 0 THEN "wipe" ELSE "count")
  /\ forced' = [forced EXCEPT ![s] = FALSE]
  /\ UNCHANGED <<history, state, index, mode, tip, gone, todo, current, suspect>>

\* Mutant: an index that lost its vectors is not rebuilt.
AfterCountNoHeal(vectors, stored, latest) ==
  IF stored = latest THEN "done" ELSE "diff"

AfterCount(vectors, stored, latest) ==
  IF vectors = {} THEN "wipe"
  ELSE IF stored = latest THEN "done" ELSE "diff"

CountVectors(s) ==
  /\ pc[s] = "count"
  /\ Goto(s, AfterCount(index, seen[s], tip[s]))
  /\ UNCHANGED <<history, state, index, forced, mode, tip, seen, gone, todo, current,
                 suspect>>

-----------------------------------------------------------------------------
(* The full and the incremental index.                                     *)

\* Nothing that went wrong before is left once the vectors are wiped, unless
\* another run is under way or stored a commit since this one loaded the row.
Fresh(s) == Alone(s) /\ seen[s] = state

\* Mutant: the full index is written over the old vectors.
DeleteRepoNothing(s) ==
  /\ pc[s] = "wipe"
  /\ Goto(s, "files")
  /\ mode' = [mode EXCEPT ![s] = "full"]
  /\ todo' = [todo EXCEPT ![s] = Files(history[tip[s]])]
  /\ suspect' = IF Fresh(s) THEN {} ELSE {"overlap"}
  /\ UNCHANGED <<history, state, index, forced, tip, seen, gone, current>>

\* list_tree_blobs, then delete_repo.
DeleteRepo(s) ==
  /\ pc[s] = "wipe"
  /\ Goto(s, "files")
  /\ index' = {}
  /\ mode' = [mode EXCEPT ![s] = "full"]
  /\ todo' = [todo EXCEPT ![s] = Files(history[tip[s]])]
  /\ suspect' = IF Fresh(s) THEN {} ELSE {"overlap"}
  /\ UNCHANGED <<history, state, forced, tip, seen, gone, current>>

ChangedPaths(old, new) == {p \in Files(new) : old[p] # new[p]}

Diff(s) ==
  /\ pc[s] = "diff"
  /\ Goto(s, "delete")
  /\ mode' = [mode EXCEPT ![s] = "incremental"]
  /\ gone' = [gone EXCEPT ![s] = Files(history[seen[s]]) \ Files(history[tip[s]])]
  /\ todo' = [todo EXCEPT ![s] = ChangedPaths(history[seen[s]], history[tip[s]])]
  /\ UNCHANGED <<history, state, index, forced, tip, seen, current, suspect>>

WithoutPath(p) == {v \in index : v[1] # p}

DeletePath(s, p) ==
  /\ pc[s] = "delete"
  /\ p \in gone[s]
  /\ index' = WithoutPath(p)
  /\ gone' = [gone EXCEPT ![s] = @ \ {p}]
  /\ UNCHANGED <<history, state, pc, forced, mode, tip, seen, todo, current, suspect>>

DeletesDone(s) ==
  /\ pc[s] = "delete"
  /\ gone[s] = {}
  /\ Goto(s, "files")
  /\ UNCHANGED <<history, state, index, forced, mode, tip, seen, gone, todo, current,
                 suspect>>

\* Mutant: the old vectors of a changed file stay.
FetchedKeepsOld(s, p) ==
  /\ pc[s] = "files"
  /\ p \in todo[s]
  /\ Goto(s, "upsert")
  /\ current' = [current EXCEPT ![s] = {p}]
  /\ todo' = [todo EXCEPT ![s] = @ \ {p}]
  /\ UNCHANGED <<history, state, index, forced, mode, tip, seen, gone, suspect>>

\* Blobs are fetched by a pool and handled as they arrive.  The incremental
\* index drops the old vectors of the path before it embeds the new text.
Fetched(s, p) ==
  /\ pc[s] = "files"
  /\ p \in todo[s]
  /\ Goto(s, "upsert")
  /\ current' = [current EXCEPT ![s] = {p}]
  /\ todo' = [todo EXCEPT ![s] = @ \ {p}]
  /\ index' = IF mode[s] = "incremental" THEN WithoutPath(p) ELSE index
  /\ UNCHANGED <<history, state, forced, mode, tip, seen, gone, suspect>>

\* The error is logged and the file skipped.
FetchFails(s, p) ==
  /\ "fetch" \in Faults
  /\ pc[s] = "files"
  /\ p \in todo[s]
  /\ todo' = [todo EXCEPT ![s] = @ \ {p}]
  /\ suspect' = suspect \cup {"fault"}
  /\ UNCHANGED <<history, state, index, pc, forced, mode, tip, seen, gone, current>>

\* The vectors of the file at hand, of some or of all of its chunks.
Embedded(s) == {<<p, history[tip[s]][p]>> : p \in current[s]}

\* A chunk that cannot be embedded is logged and skipped; the vectors of the
\* others, if there are any, are stored.
IndexFileText(s) ==
  /\ pc[s] = "upsert"
  /\ Goto(s, "files")
  /\ current' = [current EXCEPT ![s] = {}]
  /\ \/ index' = index \cup Embedded(s) /\ UNCHANGED suspect
     \/ /\ "embed" \in Faults
        /\ index' \in {index, index \cup Embedded(s)}
        /\ suspect' = suspect \cup {"fault"}
  /\ UNCHANGED <<history, state, forced, mode, tip, seen, gone, todo>>

\* A call is over: what it held in memory is gone.
End(s, place) ==
  /\ Goto(s, place)
  /\ forced' = [forced EXCEPT ![s] = FALSE]
  /\ mode' = [mode EXCEPT ![s] = "full"]
  /\ tip' = [tip EXCEPT ![s] = 0]
  /\ seen' = [seen EXCEPT ![s] = 0]
  /\ gone' = [gone EXCEPT ![s] = {}]
  /\ todo' = [todo EXCEPT ![s] = {}]
  /\ current' = [current EXCEPT ![s] = {}]

\* Mutants: the tip is read again when it is stored; the next commit is stored.
PersistStateLatest(s) ==
  /\ pc[s] = "files"
  /\ todo[s] = {}
  /\ End(s, "done")
  /\ state' = Len(history)
  /\ UNCHANGED <<history, index, suspect>>

PersistStateNext(s) ==
  /\ pc[s] = "files"
  /\ todo[s] = {}
  /\ End(s, "done")
  /\ state' = tip[s] + 1
  /\ UNCHANGED <<history, index, suspect>>

\* The session still holds the row it loaded: a commit that equals the loaded
\* one is not written.
PersistState(s) ==
  /\ pc[s] = "files"
  /\ todo[s] = {}
  /\ End(s, "done")
  /\ state' = IF seen[s] = tip[s] THEN state ELSE tip[s]
  /\ UNCHANGED <<history, index, suspect>>

Crash(s) ==
  /\ "crash" \in Faults
  /\ Active(s)
  /\ End(s, "idle")
  /\ suspect' = suspect \cup {"fault"}
  /\ UNCHANGED <<history, state, index>>

LoseVectors ==
  /\ "wipe" \in Faults
  /\ \A s \in Syncs : ~Active(s)
  /\ index # {}
  /\ index' = {}
  /\ UNCHANGED <<history, state, local, suspect>>

-----------------------------------------------------------------------------

SyncStep(s) ==
  \/ LoadState(s) \/ CountVectors(s) \/ DeleteRepo(s) \/ Diff(s) \/ DeletesDone(s)
  \/ \E p \in Paths : DeletePath(s, p) \/ Fetched(s, p) \/ FetchFails(s, p)
  \/ IndexFileText(s) \/ PersistState(s)

Next ==
  \/ \E tree \in Trees : Push(tree)
  \/ \E s \in Syncs : \/ \E force \in ForceFull : ReadTip(s, force)
                      \/ SyncStep(s) \/ Crash(s)
  \/ LoseVectors

Spec == Init /\ [][Next]_vars

-----------------------------------------------------------------------------
(* Properties.                                                             *)

\* A run that reports success, whether it indexed or skipped.
Succeeds(s) == Active(s) /\ pc'[s] = "done"

\* As long as no file and no chunk was skipped, no run died and no two runs
\* overlapped since the vectors were last wiped, a run that succeeds leaves
\* exactly the vectors of the tip it read, whether it indexed in full, by the
\* difference to the stored commit, or not at all; and a full index by one run
\* restores this whatever went wrong, and whoever interfered, before it
\* (indexer.py:93-156).
SyncAligns ==
  [][\A s \in Syncs : Succeeds(s) /\ suspect = {} => index' = IndexOf(history[tip[s]])]_vars

\* Under the same condition (a run that skips what it cannot fetch or embed stores
\* its commit too) the stored commit is the one whose files the index
\* holds while no run is under way, unless all vectors were lost
\* (repo_index_state.py:8).
StoredCommitIsIndexed ==
  (\A s \in Syncs : ~Active(s)) /\ suspect = {} /\ state # 0 /\ index # {}
    => index = IndexOf(history[state])

\* Even after fetches, embeddings of a file or of single chunks, or whole runs
\* failed, a file never has the vectors of two contents, not even while it is replaced, as long as runs do
\* not overlap (delete_file before upsert_chunks, indexer.py:263-264).
OneVersionPerPath ==
  "overlap" \notin suspect => \A v, w \in index : v[1] = w[1] => v = w

\* A full index rids the index of whatever earlier runs left behind, even when
\* files or chunks are skipped, as long as runs do not overlap (indexer.py:177-203).
FullIndexIsClean ==
  [][\A s \in Syncs :
       pc[s] = "files" /\ pc'[s] = "done" /\ mode[s] = "full" /\ "overlap" \notin suspect
         => index' \subseteq IndexOf(history[tip[s]])]_vars
=============================================================================
