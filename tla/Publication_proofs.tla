-------------------------- MODULE Publication_proofs --------------------------
(***************************************************************************)
(* Proofs about Publication for any number of runs, paths, branch names    *)
(* and pushes.  Window bounds what the cache and the runs hold by the      *)
(* commits they were read under; Tenure says that a branch, once a run has *)
(* moved it, stays that run's.                                             *)
(***************************************************************************)
EXTENDS Publication, TLAPS

\* A text under a key was read after the key's commit became the tip.
CacheWindow ==
  \A c \in DOMAIN cache : cache[c] # NoEntry =>
    \A p \in Paths : cache[c][p] # NotRead => c <= cache[c][p] /\ cache[c][p] <= head

\* A run holds nothing before it has looked into the cache, and then what was
\* read between its tip, or that of another run with the same tip, and now.
RunWindow ==
  \A r \in Runs :
    /\ tip[r] <= head
    /\ base[r] <= head
    /\ pc[r] \in {"idle", "looking"} => files[r] = Unread
    /\ \A p \in Paths :
         files[r][p] # NotRead => tip[r] <= files[r][p] /\ files[r][p] <= head

\* The base is chosen after everything was read.
BaseIsLast ==
  \A r \in Runs : pc[r] \in Publishing \/ Published(r) =>
    \A p \in Paths : files[r][p] <= base[r]

\* A run whose pull request is open does nothing more.
PublishedIsOver == \A r \in Runs : Published(r) => pc[r] \in {"done", "failed"}

Window == CacheWindow /\ RunWindow /\ BaseIsLast /\ PublishedIsOver

\* A branch moved by a run is its branch, and it has moved it after it named
\* its base.
Tenure ==
  \A b \in Branches : refs[b].by # NoRun =>
    /\ refs[b].by \in Runs
    /\ refs[b] = Commit(base[refs[b].by], refs[b].by)
    /\ pc[refs[b].by] \in {"opening", "done", "failed"}

\* A run opens a pull request for a branch that it has moved.
OpensOwn ==
  \A r \in Runs : pc[r] = "opening" => refs[branch[r]] = Commit(base[r], r)

\* The actions of one run.
RunStep(r) ==
  \/ ReadTip(r) \/ LookUp(r) \/ ListingEnds(r) \/ StoreFiles(r)
  \/ \E p \in Paths : ReadFile(r, p) \/ Fetch(r, p)
  \/ ReadBase(r) \/ CreateRef(r) \/ EditRef(r) \/ OpenPullRequest(r) \/ Fail(r)

-----------------------------------------------------------------------------
(* Types.                                                                  *)

LEMMA TypeInit == Init => TypeOK
BY PublicationAssumption
DEF Init, TypeOK, Texts, Unread, NoRef, Commit, NotRead, Fetching, Publishing

\* Every step keeps the types.
LEMMA TypeStep == TypeOK /\ [Next]_vars => TypeOK'
<1> SUFFICES ASSUME TypeOK, [Next]_vars PROVE TypeOK'
  OBVIOUS
<1> USE PublicationAssumption DEF TypeOK, Goto, github, reading, Fetching, Publishing
<1>1. CASE Push
  BY <1>1 DEF Push
<1>2. ASSUME NEW c \in 0..MaxPushes, Expire(c) PROVE TypeOK'
  BY <1>2 DEF Expire
<1>3. ASSUME NEW r \in Runs, RunStep(r) PROVE TypeOK'
  <2>1. CASE ReadTip(r)
    BY <2>1 DEF ReadTip
  <2>2. CASE LookUp(r)
    BY <2>2 DEF LookUp
  <2>3. CASE ListingEnds(r)
    BY <2>3 DEF ListingEnds
  <2>4. CASE StoreFiles(r)
    BY <2>4 DEF StoreFiles
  <2>5. ASSUME NEW p \in Paths, ReadFile(r, p) \/ Fetch(r, p) PROVE TypeOK'
    <3>1. files' = [files EXCEPT ![r] = [files[r] EXCEPT ![p] = head]]
      BY <2>5 DEF ReadFile, Fetch
    <3>2. [files[r] EXCEPT ![p] = head] \in Texts
      BY DEF Texts, NotRead
    <3> QED BY <2>5, <3>1, <3>2 DEF ReadFile, Fetch
  <2>6. CASE ReadBase(r)
    BY <2>6 DEF ReadBase
  <2>7. CASE CreateRef(r)
    <3>1. Commit(base[r], NoRun) \in [base : NotRead..MaxPushes, by : Runs \cup {NoRun}]
      BY DEF Commit, NotRead
    <3> QED BY <2>7, <3>1 DEF CreateRef
  <2>8. CASE EditRef(r)
    <3>1. Commit(base[r], r) \in [base : NotRead..MaxPushes, by : Runs \cup {NoRun}]
      BY DEF Commit, NotRead
    <3>2. \/ Goto(r, "opening") /\ refs' = [refs EXCEPT ![branch[r]] = Commit(base[r], r)]
          \/ Goto(r, "failed") /\ refs' = refs
      BY <2>8 DEF EditRef
    <3>3. UNCHANGED <<head, prs, cache, tip, files, base, branch>>
      BY <2>8 DEF EditRef
    <3>4. refs' \in [Branches -> [base : NotRead..MaxPushes, by : Runs \cup {NoRun}]]
      BY <3>1, <3>2
    <3>5. pc' \in [Runs -> {"idle", "done", "failed"} \cup Fetching \cup Publishing]
      BY <3>2
    <3> QED BY <3>3, <3>4, <3>5
  <2>9. CASE OpenPullRequest(r)
    <3>1. [run |-> r, branch |-> branch[r]] \in [run : Runs, branch : Branches]
      OBVIOUS
    <3>2. prs' = prs \/ prs' = prs \cup {[run |-> r, branch |-> branch[r]]}
      BY <2>9 DEF OpenPullRequest
    <3>3. prs' \subseteq [run : Runs, branch : Branches]
      BY <3>1, <3>2
    <3>4. Goto(r, "done") \/ Goto(r, "failed")
      BY <2>9 DEF OpenPullRequest
    <3>5. UNCHANGED <<head, refs, cache, tip, files, base, branch>>
      BY <2>9 DEF OpenPullRequest
    <3> QED BY <3>3, <3>4, <3>5
  <2>10. CASE Fail(r)
    BY <2>10 DEF Fail
  <2> QED BY <1>3, <2>1, <2>2, <2>3, <2>4, <2>5, <2>6, <2>7, <2>8, <2>9, <2>10 DEF RunStep
<1>4. CASE UNCHANGED vars
  BY <1>4 DEF vars
<1> QED BY <1>1, <1>2, <1>3, <1>4 DEF Next, RunStep

\* Every variable of Publication keeps its type, so that no entry of the cache
\* is ever taken for what it is not.
THEOREM TypeCorrect == Spec => []TypeOK
<1>1. QED BY TypeInit, TypeStep, PTL DEF Spec

-----------------------------------------------------------------------------
(* What was read when.                                                     *)

LEMMA WindowInit == Init => Window
BY PublicationAssumption
DEF Init, Window, CacheWindow, RunWindow, BaseIsLast, PublishedIsOver, Published,
    Unread, NotRead, Publishing

\* The branch only grows, and a run only stores what it read under its tip.
LEMMA CacheStep ==
  ASSUME TypeOK, Window, [Next]_vars PROVE CacheWindow'
<1> USE PublicationAssumption DEF TypeOK, Window, CacheWindow, github
<1>1. CASE Push
  BY <1>1 DEF Push, Texts, NotRead
<1>2. ASSUME NEW c \in 0..MaxPushes, Expire(c) PROVE CacheWindow'
  BY <1>2 DEF Expire
<1>3. ASSUME NEW r \in Runs, StoreFiles(r) PROVE CacheWindow'
  <2>1. head' = head /\ cache' = [cache EXCEPT ![tip[r]] = files[r]]
    BY <1>3 DEF StoreFiles
  <2>2. \A p \in Paths :
          files[r][p] # NotRead => tip[r] <= files[r][p] /\ files[r][p] <= head
    BY DEF RunWindow
  <2> QED BY <2>1, <2>2
<1>4. ASSUME NEW r \in Runs, RunStep(r), ~StoreFiles(r) PROVE CacheWindow'
  <2>1. UNCHANGED <<head, cache>>
    BY <1>4
    DEF RunStep, ReadTip, LookUp, ListingEnds, ReadFile, Fetch, ReadBase, CreateRef,
        EditRef, OpenPullRequest, Fail
  <2> QED BY <2>1
<1>5. CASE UNCHANGED vars
  BY <1>5 DEF vars
<1> QED BY <1>1, <1>2, <1>3, <1>4, <1>5 DEF Next, RunStep

\* A run takes a text from the cache entry of its tip or from the branch as it
\* is.
LEMMA RunWindowStep ==
  ASSUME TypeOK, Window, [Next]_vars PROVE RunWindow'
<1> USE PublicationAssumption DEF TypeOK, Window, RunWindow, github, reading, Goto
<1>1. CASE Push
  BY <1>1 DEF Push, Texts, NotRead
<1>2. ASSUME NEW c \in 0..MaxPushes, Expire(c) PROVE RunWindow'
  BY <1>2 DEF Expire
<1>3. ASSUME NEW r \in Runs, RunStep(r) PROVE RunWindow'
  <2>1. CASE ReadTip(r)
    BY <2>1 DEF ReadTip, Unread
  <2>2. CASE LookUp(r)
    <3>1. CASE cache[tip[r]] = NoEntry
      BY <2>2, <3>1 DEF LookUp
    <3>2. CASE cache[tip[r]] # NoEntry
      <4>1. \A p \in Paths : cache[tip[r]][p] # NotRead
              => tip[r] <= cache[tip[r]][p] /\ cache[tip[r]][p] <= head
        BY <3>2 DEF CacheWindow
      <4> QED BY <2>2, <3>2, <4>1 DEF LookUp
    <3> QED BY <3>1, <3>2
  <2>3. CASE ListingEnds(r)
    BY <2>3 DEF ListingEnds
  <2>4. CASE StoreFiles(r)
    BY <2>4 DEF StoreFiles
  <2>5. ASSUME NEW p \in Paths, ReadFile(r, p) \/ Fetch(r, p) PROVE RunWindow'
    <3>1. pc[r] \notin {"idle", "looking"} /\ UNCHANGED <<head, pc, tip, base>>
      BY <2>5 DEF ReadFile, Fetch
    <3>2. files' = [files EXCEPT ![r] = [files[r] EXCEPT ![p] = head]]
      BY <2>5 DEF ReadFile, Fetch
    <3>3. \A q \in Runs : q # r => files'[q] = files[q]
      BY <3>2
    <3>4. \A t \in Paths : files'[r][t] = IF t = p THEN head ELSE files[r][t]
      BY <3>2 DEF Texts
    <3>5. tip[r] <= head /\ tip[r] \in Int /\ head \in Int
      OBVIOUS
    <3>6. \A t \in Paths :
            files[r][t] # NotRead => tip[r] <= files[r][t] /\ files[r][t] <= head
      OBVIOUS
    <3>7. \A t \in Paths :
            files'[r][t] # NotRead => tip[r] <= files'[r][t] /\ files'[r][t] <= head
      <4> TAKE t \in Paths
      <4>1. CASE t = p
        <5>1. files'[r][t] = head
          BY <3>4, <4>1
        <5> QED BY <3>5, <5>1
      <4>2. CASE t # p
        <5>1. files'[r][t] = files[r][t]
          BY <3>4, <4>2
        <5> QED BY <3>6, <5>1
      <4> QED BY <4>1, <4>2
    <3> QED BY <3>1, <3>3, <3>7
  <2>6. CASE ReadBase(r)
    BY <2>6 DEF ReadBase
  <2>7. CASE CreateRef(r)
    BY <2>7 DEF CreateRef
  <2>8. CASE EditRef(r)
    BY <2>8 DEF EditRef
  <2>9. CASE OpenPullRequest(r)
    BY <2>9 DEF OpenPullRequest
  <2>10. CASE Fail(r)
    BY <2>10 DEF Fail
  <2> QED BY <1>3, <2>1, <2>2, <2>3, <2>4, <2>5, <2>6, <2>7, <2>8, <2>9, <2>10 DEF RunStep
<1>4. CASE UNCHANGED vars
  BY <1>4 DEF vars
<1> QED BY <1>1, <1>2, <1>3, <1>4 DEF Next, RunStep

\* Nothing is read once the base is chosen.
LEMMA BaseStep ==
  ASSUME TypeOK, Window, [Next]_vars PROVE BaseIsLast' /\ PublishedIsOver'
<1> USE PublicationAssumption
    DEF TypeOK, Window, BaseIsLast, PublishedIsOver, Published, Publishing, github, reading,
        Goto
<1>1. CASE Push
  BY <1>1 DEF Push
<1>2. ASSUME NEW c \in 0..MaxPushes, Expire(c) PROVE BaseIsLast' /\ PublishedIsOver'
  BY <1>2 DEF Expire
<1>3. ASSUME NEW r \in Runs, RunStep(r) PROVE BaseIsLast' /\ PublishedIsOver'
  <2>1. CASE ReadTip(r)
    BY <2>1 DEF ReadTip
  <2>2. CASE LookUp(r)
    BY <2>2 DEF LookUp
  <2>3. CASE ListingEnds(r)
    BY <2>3 DEF ListingEnds
  <2>4. CASE StoreFiles(r)
    BY <2>4 DEF StoreFiles
  <2>5. ASSUME NEW p \in Paths, ReadFile(r, p) \/ Fetch(r, p)
        PROVE BaseIsLast' /\ PublishedIsOver'
    <3>1. pc[r] \in {"listing", "working"} /\ UNCHANGED <<pc, prs, base>>
      BY <2>5 DEF ReadFile, Fetch
    <3>2. \A q \in Runs : q # r => files'[q] = files[q]
      BY <2>5 DEF ReadFile, Fetch
    <3> QED BY <3>1, <3>2
  <2>6. CASE ReadBase(r)
    <3>1. pc' = [pc EXCEPT ![r] = "naming"] /\ base' = [base EXCEPT ![r] = head]
          /\ pc[r] = "working" /\ UNCHANGED <<files, prs>>
      BY <2>6 DEF ReadBase
    <3>2. \A p \in Paths : files[r][p] <= head
      BY DEF RunWindow, Texts, NotRead
    <3> QED BY <3>1, <3>2
  <2>7. CASE CreateRef(r)
    BY <2>7 DEF CreateRef
  <2>8. CASE EditRef(r)
    <3>1. pc[r] = "editing" /\ UNCHANGED <<files, prs, base>>
          /\ (pc' = [pc EXCEPT ![r] = "opening"] \/ pc' = [pc EXCEPT ![r] = "failed"])
      BY <2>8 DEF EditRef
    <3> QED BY <3>1
  <2>9. CASE OpenPullRequest(r)
    <3>1. pc[r] = "opening" /\ UNCHANGED <<files, base>>
          /\ (pc' = [pc EXCEPT ![r] = "done"] \/ pc' = [pc EXCEPT ![r] = "failed"])
      BY <2>9 DEF OpenPullRequest
    <3>2. prs' = prs \/ prs' = prs \cup {[run |-> r, branch |-> branch[r]]}
      BY <2>9 DEF OpenPullRequest
    <3>3. \A q \in Runs : Published(q)' => Published(q) \/ q = r
      BY <3>2
    <3> QED BY <3>1, <3>3
  <2>10. CASE Fail(r)
    BY <2>10 DEF Fail
  <2> QED BY <1>3, <2>1, <2>2, <2>3, <2>4, <2>5, <2>6, <2>7, <2>8, <2>9, <2>10 DEF RunStep
<1>4. CASE UNCHANGED vars
  BY <1>4 DEF vars
<1> QED BY <1>1, <1>2, <1>3, <1>4 DEF Next, RunStep

\* The texts a run works with are not older than the commit it looked up, and
\* those of a patch that is published not newer than the commit it is built on,
\* for any number of runs that share the cache and any number of pushes.
THEOREM WindowKept == Spec => []MadeFromWindow
<1>1. TypeOK /\ Window => MadeFromWindow
  BY DEF Window, MadeFromWindow, RunWindow, BaseIsLast
<1>2. TypeOK /\ Window /\ [Next]_vars => Window'
  BY CacheStep, RunWindowStep, BaseStep DEF Window
<1> QED BY <1>1, <1>2, TypeInit, TypeStep, WindowInit, PTL DEF Spec

-----------------------------------------------------------------------------
(* What a branch holds.                                                    *)

Owned == Tenure /\ OpensOwn /\ OwnPatch

LEMMA OwnedInit == Init => Owned
BY DEF Init, Owned, Tenure, OpensOwn, OwnPatch, NoRef, Commit

\* A step moves a branch, or the base of a run, only when no run has moved the
\* branch and the run has moved none.
LEMMA Untouched ==
  ASSUME TypeOK, Owned, NEW b \in Branches, refs[b].by # NoRun,
         refs' = refs \/ \E d \in Branches : /\ refs[d].by = NoRun
                                            /\ \E c : refs' = [refs EXCEPT ![d] = c],
         base' = base \/ \E r \in Runs : /\ pc[r] = "working"
                                        /\ \E n : base' = [base EXCEPT ![r] = n]
  PROVE  refs'[b] = refs[b] /\ base'[refs[b].by] = base[refs[b].by]
<1>1. refs'[b] = refs[b]
  BY DEF TypeOK
<1>2. refs[b].by \in Runs /\ pc[refs[b].by] # "working"
  BY DEF Owned, Tenure
<1>3. base'[refs[b].by] = base[refs[b].by]
  BY <1>2 DEF TypeOK
<1> QED BY <1>1, <1>3

\* GitHub moves a branch forward only: the first run that moves it keeps it,
\* and whoever shares its name fails before it opens a pull request.
LEMMA OwnedStep ==
  ASSUME TypeOK, Owned, [Next]_vars PROVE Owned'
<1> USE PublicationAssumption DEF TypeOK, github, reading, Goto
<1> DEFINE Kept == UNCHANGED <<refs, base, branch, prs>>
<1>1. ASSUME Kept,
             \A q \in Runs : /\ pc[q] \in {"opening", "done", "failed"}
                                  => pc'[q] \in {"opening", "done", "failed"}
                             /\ pc'[q] = "opening" => pc[q] = "opening"
      PROVE  Owned'
  BY <1>1 DEF Owned, Tenure, OpensOwn, OwnPatch, Commit
<1>2. CASE Push
  BY <1>1, <1>2 DEF Push
<1>3. ASSUME NEW c \in 0..MaxPushes, Expire(c) PROVE Owned'
  BY <1>1, <1>3 DEF Expire
<1>4. ASSUME NEW r \in Runs, RunStep(r) PROVE Owned'
  <2>1. CASE ReadTip(r)
    BY <1>1, <2>1 DEF ReadTip
  <2>2. CASE LookUp(r)
    BY <1>1, <2>2 DEF LookUp
  <2>3. CASE ListingEnds(r)
    BY <1>1, <2>3 DEF ListingEnds
  <2>4. CASE StoreFiles(r)
    BY <1>1, <2>4 DEF StoreFiles
  <2>5. ASSUME NEW p \in Paths, ReadFile(r, p) \/ Fetch(r, p) PROVE Owned'
    BY <1>1, <2>5 DEF ReadFile, Fetch
  <2>6. CASE ReadBase(r)
    <3>1. /\ pc[r] = "working" /\ pc' = [pc EXCEPT ![r] = "naming"]
          /\ base' = [base EXCEPT ![r] = head] /\ UNCHANGED <<refs, branch, prs>>
      BY <2>6 DEF ReadBase
    <3>2. \A b \in Branches : refs[b].by # NoRun => base'[refs[b].by] = base[refs[b].by]
      BY <3>1, Untouched
    <3>3. Tenure'
      BY <3>1, <3>2 DEF Owned, Tenure, Commit
    <3>4. OpensOwn'
      BY <3>1 DEF Owned, OpensOwn, Commit
    <3>5. OwnPatch'
      <4> SUFFICES ASSUME NEW pr \in prs
                   PROVE  refs[pr.branch] = Commit(base'[pr.run], pr.run)
        BY <3>1 DEF OwnPatch, Commit
      <4>1. refs[pr.branch] = Commit(base[pr.run], pr.run)
        BY DEF Owned, OwnPatch
      <4>2. pr.run \in Runs /\ pr.branch \in Branches /\ refs[pr.branch].by = pr.run
        BY <4>1 DEF Commit
      <4>3. base'[pr.run] = base[pr.run]
        <5>1. refs[pr.branch].by # NoRun
          BY <4>2
        <5>2. base'[refs[pr.branch].by] = base[refs[pr.branch].by]
          BY <3>2, <4>2, <5>1
        <5> QED BY <4>2, <5>2
      <4> QED BY <4>1, <4>3
    <3> QED BY <3>3, <3>4, <3>5 DEF Owned
  <2>7. ASSUME NEW c, refs[branch[r]].by = NoRun, c.by = NoRun,
               refs' = [refs EXCEPT ![branch[r]] = c] \/ refs' = refs,
               pc' = [pc EXCEPT ![r] = "editing"], pc[r] = "naming",
               UNCHANGED <<base, branch, prs>>
        PROVE  Owned'
    <3>1. \A b \in Branches : refs[b].by # NoRun => refs'[b] = refs[b]
      BY <2>7, Untouched
    <3>2. \A b \in Branches : refs'[b].by # NoRun => refs'[b] = refs[b]
      BY <2>7, <3>1
    <3>3. Tenure'
      BY <2>7, <3>2 DEF Owned, Tenure, Commit
    <3>4. OpensOwn'
      BY <2>7, <3>1 DEF Owned, OpensOwn, Commit
    <3>5. OwnPatch'
      BY <2>7, <3>1 DEF Owned, OwnPatch, Commit
    <3> QED BY <3>3, <3>4, <3>5 DEF Owned
  <2>8. CASE CreateRef(r)
    <3>1. CASE refs[branch[r]] = NoRef
      <4> DEFINE new == Commit(base[r], NoRun)
      <4>1. refs[branch[r]].by = NoRun /\ new.by = NoRun
        BY <3>1 DEF NoRef, Commit
      <4>2. /\ refs' = [refs EXCEPT ![branch[r]] = new]
            /\ pc' = [pc EXCEPT ![r] = "editing"] /\ pc[r] = "naming"
            /\ UNCHANGED <<base, branch, prs>>
        BY <2>8, <3>1 DEF CreateRef
      <4> HIDE DEF new
      <4> QED BY <2>7, <4>1, <4>2
    <3>2. CASE refs[branch[r]] # NoRef
      BY <1>1, <2>8, <3>2 DEF CreateRef
    <3> QED BY <3>1, <3>2
  <2>9. CASE EditRef(r)
    <3>1. CASE Goto(r, "failed") /\ UNCHANGED refs
      BY <1>1, <2>9, <3>1 DEF EditRef
    <3>2. CASE /\ refs[branch[r]].by = NoRun
               /\ Goto(r, "opening")
               /\ refs' = [refs EXCEPT ![branch[r]] = Commit(base[r], r)]
      <4>1. pc' = [pc EXCEPT ![r] = "opening"] /\ UNCHANGED <<base, branch, prs>>
        BY <2>9, <3>2 DEF EditRef
      <4>2. \A b \in Branches : refs[b].by # NoRun => refs'[b] = refs[b]
        BY <3>2, <4>1, Untouched
      <4>3. refs'[branch[r]] = Commit(base[r], r)
        BY <3>2
      <4>4. \A b \in Branches : b # branch[r] => refs'[b] = refs[b]
        BY <3>2
      <4>5. Tenure'
        <5> SUFFICES ASSUME NEW b \in Branches, refs'[b].by # NoRun
                     PROVE  /\ refs'[b].by \in Runs
                            /\ refs'[b] = Commit(base[refs'[b].by], refs'[b].by)
                            /\ pc'[refs'[b].by] \in {"opening", "done", "failed"}
          BY <4>1 DEF Tenure, Commit
        <5>1. CASE b = branch[r]
          <6>1. refs'[b].by = r
            BY <4>3, <5>1 DEF Commit
          <6>2. pc'[r] = "opening"
            BY <4>1
          <6> QED BY <4>3, <5>1, <6>1, <6>2
        <5>2. CASE b # branch[r]
          <6>1. refs'[b] = refs[b]
            BY <4>4, <5>2
          <6>2. /\ refs[b].by \in Runs
                /\ refs[b] = Commit(base[refs[b].by], refs[b].by)
                /\ pc[refs[b].by] \in {"opening", "done", "failed"}
            BY <6>1 DEF Owned, Tenure
          <6>3. pc'[refs[b].by] \in {"opening", "done", "failed"}
            BY <4>1, <6>2
          <6> QED BY <6>1, <6>2, <6>3
        <5> QED BY <5>1, <5>2
      <4>6. OpensOwn'
        BY <4>1, <4>2, <4>3 DEF Owned, OpensOwn, Commit
      <4>7. OwnPatch'
        BY <4>1, <4>2 DEF Owned, OwnPatch, Commit
      <4> QED BY <4>5, <4>6, <4>7 DEF Owned
    <3> QED BY <2>9, <3>1, <3>2 DEF EditRef
  <2>10. CASE OpenPullRequest(r)
    <3>1. /\ pc[r] = "opening" /\ UNCHANGED <<refs, base, branch>>
          /\ (pc' = [pc EXCEPT ![r] = "done"] \/ pc' = [pc EXCEPT ![r] = "failed"])
      BY <2>10 DEF OpenPullRequest
    <3>2. prs' = prs \/ prs' = prs \cup {[run |-> r, branch |-> branch[r]]}
      BY <2>10 DEF OpenPullRequest
    <3>3. Tenure' /\ OpensOwn'
      BY <3>1 DEF Owned, Tenure, OpensOwn, Commit
    <3>4. OwnPatch'
      BY <3>1, <3>2 DEF Owned, OpensOwn, OwnPatch, Commit
    <3> QED BY <3>3, <3>4 DEF Owned
  <2>11. CASE Fail(r)
    <3>1. UNCHANGED <<refs, base, branch, prs>> /\ pc' = [pc EXCEPT ![r] = "failed"]
      BY <2>11 DEF Fail
    <3> QED BY <1>1, <3>1
  <2> QED BY <1>4, <2>1, <2>2, <2>3, <2>4, <2>5, <2>6, <2>8, <2>9, <2>10, <2>11 DEF RunStep
<1>5. CASE UNCHANGED vars
  BY <1>1, <1>5 DEF vars
<1> QED BY <1>2, <1>3, <1>4, <1>5 DEF Next, RunStep

\* The branch of an open pull request holds the patch of the run that opened
\* it, however many runs take the same branch name.
THEOREM BranchIsOwn == Spec => []OwnPatch
<1>1. TypeOK /\ Owned /\ [Next]_vars => Owned'
  BY OwnedStep
<1> QED BY <1>1, TypeInit, TypeStep, OwnedInit, PTL DEF Spec, Owned
=============================================================================
