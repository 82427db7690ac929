---------------------------- MODULE Publication ----------------------------
(***************************************************************************)
(* What a run reads of the repository and what it gives back: the cache of *)
(* repository files, the files fetched one by one, the branch, the commit  *)
(* and the pull request (services/github_service.py, called by the nodes   *)
(* read_code, write_code, fix and create_pr).  Others push to the default  *)
(* branch meanwhile.  A text is known by the commit it was read at: the    *)
(* branch only grows, so a later commit holds everything an earlier one    *)
(* does.  Runs are jobs of one task: only they can share a branch name.    *)
(***************************************************************************)
EXTENDS Integers

CONSTANTS
  Runs,       \* jobs of the task
  Paths,      \* files of the repository
  Branches,   \* names agent/fix-task-<id>-r<fixes>-<second>
  MaxPushes,  \* bound on the commits pushed by others
  NoRun,      \* no run: the commit is the default branch's
  NoEntry     \* the cache has no such key

NotRead == -1

Texts == [Paths -> NotRead..MaxPushes]

ASSUME PublicationAssumption ==
  /\ MaxPushes \in Nat
  /\ NoRun \notin Runs
  /\ NoEntry \notin Texts

VARIABLES
  head,    \* number of commits on the default branch after the first
  cache,   \* commit -> texts stored under it in Redis
  pc,      \* run -> progress
  tip,     \* run -> the commit whose key it looks up
  files,   \* run -> path -> commit the text was read at (repo_files)
  base,    \* run -> the commit it builds on
  branch,  \* run -> its branch name
  refs,    \* branch name -> the commit it points to
  prs      \* open pull requests

github == <<head, refs, prs>>
reading == <<tip, files>>
vars == <<head, cache, pc, tip, files, base, branch, refs, prs>>

\* A commit of a branch: a run's patch on a commit of the default branch, or
\* that commit itself.
Commit(b, r) == [base |-> b, by |-> r]
NoRef == Commit(-1, NoRun)

Fetching   == {"looking", "listing", "storing", "working"}
Publishing == {"naming", "editing", "opening"}

TypeOK ==
  /\ head \in 0..MaxPushes
  /\ cache \in [0..MaxPushes -> Texts \cup {NoEntry}]
  /\ pc \in [Runs -> {"idle", "done", "failed"} \cup Fetching \cup Publishing]
  /\ tip \in [Runs -> 0..MaxPushes]
  /\ files \in [Runs -> Texts]
  /\ base \in [Runs -> 0..MaxPushes]
  /\ branch \in [Runs -> Branches]
  /\ refs \in [Branches -> [base : NotRead..MaxPushes, by : Runs \cup {NoRun}]]
  /\ prs \subseteq [run : Runs, branch : Branches]

Unread == [p \in Paths |-> NotRead]

Init ==
  /\ head = 0
  /\ cache = [c \in 0..MaxPushes |-> NoEntry]
  /\ pc = [r \in Runs |-> "idle"]
  /\ tip = [r \in Runs |-> 0]
  /\ files = [r \in Runs |-> Unread]
  /\ base = [r \in Runs |-> 0]
  /\ branch \in [Runs -> Branches]
  /\ refs = [b \in Branches |-> NoRef]
  /\ prs = {}

Goto(r, place) == pc' = [pc EXCEPT ![r] = place]

Push ==
  /\ head < MaxPushes
  /\ head' = head + 1
  /\ UNCHANGED <<cache, pc, reading, base, branch, refs, prs>>

-----------------------------------------------------------------------------
(* Reading.                                                                *)

ReadTip(r) ==
  /\ pc[r] = "idle"
  /\ Goto(r, "looking")
  /\ tip' = [tip EXCEPT ![r] = head]
  /\ UNCHANGED <<github, cache, files, base, branch>>

\* Mutant: the key has no commit, so any entry is a hit.
LookUpAny(r) ==
  /\ pc[r] = "looking"
  /\ \/ \E c \in DOMAIN cache :
          /\ cache[c] # NoEntry
          /\ Goto(r, "working")
          /\ files' = [files EXCEPT ![r] = cache[c]]
     \/ cache[tip[r]] = NoEntry /\ Goto(r, "listing") /\ UNCHANGED files
  /\ UNCHANGED <<github, cache, tip, base, branch>>

\* Mutant: a miss is not told from a hit.
LookUpRaw(r) ==
  /\ pc[r] = "looking"
  /\ Goto(r, "working")
  /\ files' = [files EXCEPT ![r] = cache[tip[r]]]
  /\ UNCHANGED <<github, cache, tip, base, branch>>

LookUp(r) ==
  /\ pc[r] = "looking"
  /\ IF cache[tip[r]] # NoEntry
     THEN Goto(r, "working") /\ files' = [files EXCEPT ![r] = cache[tip[r]]]
     ELSE Goto(r, "listing") /\ UNCHANGED files
  /\ UNCHANGED <<github, cache, tip, base, branch>>

\* get_repo_files names no commit: each request is answered from the branch as
\* it is at that moment.
ReadFile(r, p) ==
  /\ pc[r] = "listing"
  /\ files[r][p] = NotRead
  /\ files' = [files EXCEPT ![r][p] = head]
  /\ UNCHANGED <<github, cache, pc, tip, base, branch>>

\* A file that cannot be read, or has no indexed extension, is left out.
ListingEnds(r) ==
  /\ pc[r] = "listing"
  /\ Goto(r, "storing")
  /\ UNCHANGED <<github, cache, reading, base, branch>>

StoreFiles(r) ==
  /\ pc[r] = "storing"
  /\ Goto(r, "working")
  /\ cache' = [cache EXCEPT ![tip[r]] = files[r]]
  /\ UNCHANGED <<github, reading, base, branch>>

Expire(c) ==
  /\ cache[c] # NoEntry
  /\ cache' = [cache EXCEPT ![c] = NoEntry]
  /\ UNCHANGED <<github, pc, reading, base, branch>>

\* get_file_contents and merge_repo_files, for a target, a file the hits name or
\* one that an agent asks for; a file GitHub refuses stays unread.
Fetch(r, p) ==
  /\ pc[r] = "working"
  /\ files[r][p] = NotRead
  /\ files' = [files EXCEPT ![r][p] = head]
  /\ UNCHANGED <<github, cache, pc, tip, base, branch>>

-----------------------------------------------------------------------------
(* Publishing.                                                             *)

\* Mutant: the commit is built on the tip the run started from.
ReadBaseOld(r) ==
  /\ pc[r] = "working"
  /\ Goto(r, "naming")
  /\ base' = [base EXCEPT ![r] = tip[r]]
  /\ UNCHANGED <<github, cache, reading, branch>>

ReadBase(r) ==
  /\ pc[r] = "working"
  /\ Goto(r, "naming")
  /\ base' = [base EXCEPT ![r] = head]
  /\ UNCHANGED <<github, cache, reading, branch>>

\* A name that is taken is answered with 422, which is ignored.
CreateRef(r) ==
  /\ pc[r] = "naming"
  /\ Goto(r, "editing")
  /\ refs' = IF refs[branch[r]] = NoRef
               THEN [refs EXCEPT ![branch[r]] = Commit(base[r], NoRun)]
               ELSE refs
  /\ UNCHANGED <<head, prs, cache, reading, base, branch>>

\* Mutant: the branch is moved with force.
EditRefForced(r) ==
  /\ pc[r] = "editing"
  /\ Goto(r, "opening")
  /\ refs' = [refs EXCEPT ![branch[r]] = Commit(base[r], r)]
  /\ UNCHANGED <<head, prs, cache, reading, base, branch>>

\* GitHub moves a branch forward only: the commit must descend from its head.
EditRef(r) ==
  /\ pc[r] = "editing"
  /\ LET at == refs[branch[r]]
     IN  IF at.by = NoRun /\ at.base <= base[r]
         THEN /\ Goto(r, "opening")
              /\ refs' = [refs EXCEPT ![branch[r]] = Commit(base[r], r)]
         ELSE Goto(r, "failed") /\ UNCHANGED refs
  /\ UNCHANGED <<head, prs, cache, reading, base, branch>>

\* GitHub refuses a second pull request for a branch.  The reply may be lost.
OpenPullRequest(r) ==
  /\ pc[r] = "opening"
  /\ IF \E pr \in prs : pr.branch = branch[r]
     THEN Goto(r, "failed") /\ UNCHANGED prs
     ELSE /\ prs' = prs \cup {[run |-> r, branch |-> branch[r]]}
          /\ Goto(r, "done") \/ Goto(r, "failed")
  /\ UNCHANGED <<head, refs, cache, reading, base, branch>>

\* Any request may fail and the process may die; nothing is taken back.
Fail(r) ==
  /\ pc[r] \in Fetching \cup Publishing
  /\ Goto(r, "failed")
  /\ UNCHANGED <<github, cache, reading, base, branch>>

Next ==
  \/ Push
  \/ \E c \in 0..MaxPushes : Expire(c)
  \/ \E r \in Runs :
       \/ ReadTip(r) \/ LookUp(r) \/ ListingEnds(r) \/ StoreFiles(r)
       \/ \E p \in Paths : ReadFile(r, p) \/ Fetch(r, p)
       \/ ReadBase(r) \/ CreateRef(r) \/ EditRef(r) \/ OpenPullRequest(r) \/ Fail(r)

Spec == Init /\ [][Next]_vars

(***************************************************************************)
(* Properties.                                                             *)
(***************************************************************************)

Published(r) == \E pr \in prs : pr.run = r

\* Every text that a run works with, also one that another run left in the
\* cache, was on the branch at some moment between the commit the run took for
\* the tip (github_service.py:194) and the commit its pull request is built on
\* (line 233): a pull request reverts no push made before the run looked, and
\* passes off no push as its own.
MadeFromWindow ==
  \A r \in Runs : \A p \in Paths : files[r][p] # NotRead =>
    /\ tip[r] <= files[r][p]
    /\ pc[r] \in Publishing \/ Published(r) => files[r][p] <= base[r]

\* The branch of an open pull request holds the patch of the run that opened it
\* and nothing else, also when runs of a task publish in the same second and
\* get the same name (nodes.py:473, github_service.py:239).
OwnPatch ==
  \A pr \in prs : refs[pr.branch] = Commit(base[pr.run], pr.run)
=============================================================================
