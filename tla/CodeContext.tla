----------------------------- MODULE CodeContext -----------------------------
(***************************************************************************)
(* From the plan to the prompts of the code writer, for one task: the      *)
(* searches of the plan's queries in the index, the ranking of the hits,   *)
(* the choice of the files to modify, the files read from GitHub, and for  *)
(* each batch of the writer the files it is shown within a token budget.   *)
(* The planner names any paths, the index answers with any hits.           *)
(***************************************************************************)
EXTENDS Integers, FiniteSets, FiniteSetsExt, SequencesExt

CONSTANTS
  Paths,
  Server,       \* paths that plan_scope.is_backend_path takes for server side
  Indexed,      \* paths with an extension of settings.INDEX_FILE_EXTENSIONS
  Entry,        \* paths that retrieval.entrypoint_priority rates above zero
  Clean,        \* path -> the path without leading dots and slashes
  Imports,      \* path -> paths that its import statements may mean
  Tokens,       \* path -> estimated tokens of the file, 0 when it is blank
  Chunks,       \* names of the chunks of a file
  TopScore,     \* a similarity of 1.0; similarities are numbers up to it
  Boost,        \* settings.ENTRYPOINT_SCORE_BOOST
  MaxQueries,   \* settings.CONTEXT_SEARCH_MAX_QUERIES
  PerQuery,     \* settings.CONTEXT_SEARCH_TOP_K_PER_QUERY
  TopK,         \* settings.CONTEXT_SEARCH_TOP_K
  MaxInject,    \* settings.ENTRYPOINT_MAX_INJECT
  VectorTop,    \* settings.CONTEXT_VECTOR_FETCH_TOP_FILES
  MaxTargets,   \* settings.CONTEXT_TARGET_MAX_FILES
  MaxTokens,    \* settings.MAX_CONTEXT_TOKENS
  BatchSize,    \* settings.CODE_WRITER_MAX_FILES_PER_CALL
  MaxNamed,     \* bound: the planner names that many paths at most
  Stale         \* the index was not synchronised (nodes.py:138-156)

ASSUME PathsAssumption ==
  /\ IsFiniteSet(Paths)
  /\ Server \subseteq Paths /\ Indexed \subseteq Paths /\ Entry \subseteq Paths
  /\ Clean \in [Paths -> Paths] /\ \A p \in Paths : Clean[Clean[p]] = Clean[p]
  /\ Imports \in [Paths -> SUBSET Paths] /\ Tokens \in [Paths -> Nat]

ASSUME SettingsAssumption ==
  /\ {TopScore, Boost, TopK, MaxInject, VectorTop, MaxTokens} \subseteq Nat
  /\ {MaxQueries, PerQuery, MaxTargets, BatchSize, MaxNamed} \subseteq Nat \ {0}
  /\ Stale \in BOOLEAN
  /\ "none" \notin Chunks

VARIABLES
  pc,        \* step of read_code and write_code
  repo,      \* paths on the default branch
  scope,     \* resolve_scope
  named,     \* the paths the planner wrote, in its order
  queries,   \* searches done
  hits,      \* hits of the search: path, chunk and score
  best,      \* history variable: path -> its best similarity in any answer
  targets,   \* plan.files_to_modify
  fetch,     \* plan.files_to_fetch
  read,      \* paths of the files at hand with their text: listed, then fetched
  missed,    \* history variable: paths of the repository GitHub did not hand out
  queue,     \* batches the writer has not sent
  sent,      \* paths of the batches that were answered, in order
  prompt     \* last call of the writer: its batch and the files shown, in order

found == <<queries, hits, best>>
chosen == <<targets, fetch>>
given == <<repo, scope, named>>
vars == <<pc, given, found, chosen, read, missed, queue, sent, prompt>>

Hits == [path : Indexed, chunk : Chunks \cup {"none"}, score : 0..(TopScore + 2 * Boost)]
NoPrompt == [batch |-> <<>>, shown |-> <<>>]

TypeOK ==
  /\ pc \in {"search", "assign", "fetch", "write", "done", "raised"}
  /\ repo \subseteq Paths
  /\ scope \in {"frontend", "backend", "fullstack"}
  /\ named \in BoundedSeq(Paths, MaxNamed)
  /\ queries \in 0..MaxQueries
  /\ best \in [Indexed -> -1..TopScore]
  /\ hits \in Seq(Hits) /\ Len(hits) <= MaxQueries * PerQuery + MaxInject
  /\ targets \in Seq(Paths) /\ Len(targets) <= MaxTargets
  /\ fetch \in Seq(Paths) /\ Len(fetch) <= MaxTargets + VectorTop
  /\ read \subseteq repo /\ missed \subseteq repo \ read
  /\ ToSet(sent) \subseteq ToSet(targets)
  /\ \A i \in DOMAIN queue : queue[i] # <<>> /\ Len(queue[i]) <= BatchSize
  /\ ToSet(prompt.batch) \subseteq ToSet(targets)

\* The planner agent resolved the scope; what it named is collected below.
Init ==
  /\ pc = "search"
  /\ repo \in SUBSET Paths
  /\ scope \in {"frontend", "backend", "fullstack"}
  /\ named \in BoundedSeq(Paths, MaxNamed) \ {<<>>}
  /\ queries = 0
  /\ hits = <<>>
  /\ best = [p \in Indexed |-> -1]
  /\ targets = <<>>
  /\ fetch = <<>>
  /\ read = {}
  /\ missed = {}
  /\ queue = <<>>
  /\ sent = <<>>
  /\ prompt = NoPrompt

-----------------------------------------------------------------------------
(* Lists.  A selection of a list is given by the positions it keeps.       *)

\* The elements at positions S, ordered by the relation R on the positions.
Ordered(list, S, R) ==
  [k \in 1..Cardinality(S) |->
     list[CHOOSE i \in S : Cardinality({j \in S : <<j, i>> \in R}) = k - 1]]
At(list, S) == Ordered(list, S, {e \in S \X S : e[1] < e[2]})
Unique(list) == At(list, {i \in DOMAIN list : \A j \in 1..(i - 1) : list[j] # list[i]})
Without(list, other) == At(list, {i \in DOMAIN list : ~Contains(other, list[i])})
Take(list, n) == IF Len(list) <= n THEN list ELSE SubSeq(list, 1, n)
Cleaned(list) == [i \in DOMAIN list |-> Clean[list[i]]]
Weight(list) == FoldLeft(LAMBDA sum, p : sum + Tokens[p], 0, list)

\* path_allowed_for_scope: the client side is whatever is not server side.
Allowed(p) ==
  CASE scope = "fullstack" -> TRUE
    [] scope = "backend"   -> p \in Server
    [] scope = "frontend"  -> p \notin Server
InScope(list) == At(list, {i \in DOMAIN list : Allowed(list[i])})

-----------------------------------------------------------------------------
(* Retrieval.                                                              *)

\* Mutant: the first score of a chunk is kept.
MergeFirst(list, hit) ==
  IF \E i \in DOMAIN list : list[i].path = hit.path /\ list[i].chunk = hit.chunk
  THEN list ELSE Append(list, hit)

\* Of two hits of one chunk the better score is kept, at the place of the first.
Merge(list, hit) ==
  LET old == {i \in DOMAIN list : list[i].path = hit.path /\ list[i].chunk = hit.chunk}
  IN  IF old = {} THEN Append(list, hit)
      ELSE [i \in DOMAIN list |->
              IF i \in old /\ list[i].score < hit.score THEN hit ELSE list[i]]

\* One query; the answer is ordered by score.
Search(answer) ==
  /\ pc = "search"
  /\ queries < MaxQueries
  /\ queries' = queries + 1
  /\ \A i, j \in DOMAIN answer : i < j => answer[i].score >= answer[j].score
  /\ \A i \in DOMAIN answer : Stale \/ answer[i].path \in repo
  /\ hits' = FoldLeft(Merge, hits, answer)
  /\ best' = [p \in Indexed |->
               Max({best[p]} \cup {h.score : h \in {a \in ToSet(answer) : a.path = p}})]
  /\ UNCHANGED <<pc, given, chosen, read, missed, queue, sent, prompt>>

\* sorted(..., reverse=True) is stable.
ByScore(list) ==
  Ordered(list, DOMAIN list,
    {e \in (DOMAIN list) \X (DOMAIN list) :
       \/ list[e[1]].score > list[e[2]].score
       \/ list[e[1]].score = list[e[2]].score /\ e[1] < e[2]})

Boosted(list) ==
  [i \in DOMAIN list |-> IF list[i].path \in Entry
                         THEN [list[i] EXCEPT !.score = @ + Boost] ELSE list[i]]

\* Entry points among the files at hand; their order is a heuristic.
EntryPoints(listed) == {p \in listed \cap Entry : scope = "frontend" => Allowed(p)}

Injected(entries, list) ==
  LET absent == Without(entries, [i \in DOMAIN list |-> list[i].path])
  IN  [i \in DOMAIN absent |->
         [path |-> absent[i], chunk |-> "none", score |-> TopScore + Boost]] \o list

\* The listing has the indexed files of the branch but those whose text GitHub
\* did not hand out (github_service.py:140-146).
Rank(listed, order) ==
  /\ pc = "search"
  /\ queries > 0
  /\ listed \subseteq repo \cap Indexed
  /\ pc' = "assign"
  /\ read' = listed
  /\ LET kept == At(hits, {i \in DOMAIN hits : Allowed(hits[i].path)})
     IN  hits' = Take(ByScore(Boosted(Injected(Take(order, MaxInject), kept))), TopK)
  /\ UNCHANGED <<given, queries, best, chosen, missed, queue, sent, prompt>>

-----------------------------------------------------------------------------
(* The files to modify and to fetch.                                       *)

Collected == Unique(Cleaned(named))

\* Listed paths are trusted when none is in scope, and filtered again: the
\* filter of add_modify and add_fetch takes the trust back.
PlannerPaths == IF InScope(Collected) = <<>> THEN Collected ELSE InScope(Collected)

VectorPaths ==
  Take(Unique(InScope([i \in DOMAIN hits |-> Clean[hits[i].path]])), VectorTop)

Kept(list) == InScope(list)

\* Mutants: hits come before the plan; one file too many.
TargetPathsHitsFirst == Take(Unique(Kept(VectorPaths \o PlannerPaths)), MaxTargets)
TargetPathsOneMore == Take(Unique(Kept(PlannerPaths \o VectorPaths)), MaxTargets + 1)
TargetPaths == Take(Unique(Kept(PlannerPaths \o VectorPaths)), MaxTargets)

AssignTargets ==
  /\ pc = "assign"
  /\ IF Kept(PlannerPaths) = <<>>
     THEN pc' = "raised" /\ UNCHANGED chosen
     ELSE /\ pc' = "fetch"
          /\ targets' = TargetPaths
          /\ fetch' = Unique(Kept(TargetPaths \o VectorPaths))
  /\ UNCHANGED <<given, found, read, missed, queue, sent, prompt>>

\* Mutant: only the listed files count as the repository.
ToFetchNothing == {}
ToFetch == ToSet(fetch) \ read

\* What the listing lacks is fetched one by one, which GitHub may refuse; a
\* target without a text becomes an empty file to be created.
ReadFiles(fetched) ==
  /\ pc = "fetch"
  /\ fetched \subseteq ToFetch \cap repo
  /\ pc' = "write"
  /\ read' = read \cup fetched
  /\ missed' = (ToFetch \cap repo) \ fetched
  /\ queue' = [n \in 1..((Len(targets) + BatchSize - 1) \div BatchSize) |->
                 Take(SubSeq(targets, (n - 1) * BatchSize + 1, Len(targets)), BatchSize)]
  /\ hits' = <<>> /\ best' = [p \in Indexed |-> -1]
  /\ UNCHANGED <<given, queries, chosen, sent, prompt>>

-----------------------------------------------------------------------------
(* The prompts of the writer.                                              *)

Files == read \cup ToSet(targets)

\* resolve_dependencies: three levels, the targets being the first.
Imported(S) == UNION {Imports[p] \cap Files : p \in S \cap read}
Dependencies(batch) ==
  LET first == ToSet(batch)
      second == Imported(first) \ first
  IN  second \cup (Imported(second) \ first)

\* Mutant: the budget is not charged for the files to modify.
CapBesides(list, batch) ==
  LET rest == Without(list, batch)
      fits == {k \in 0..Len(rest) : k = 0 \/ Weight(Take(rest, k)) <= MaxTokens}
  IN  batch \o Take(rest, CHOOSE k \in fits : \A n \in fits : n <= k)

\* cap_context: the files to modify in full, then others while the budget lasts.
CapContext(list, batch) ==
  LET rest == Without(list, batch)
      fits == {k \in 0..Len(rest) :
                 k = 0 \/ Weight(batch) + Weight(Take(rest, k)) <= MaxTokens}
  IN  batch \o Take(rest, CHOOSE k \in fits : \A n \in fits : n <= k)

\* build_context for a batch: its files, what they import in any order, and
\* the other files fetched, without blank ones.
BuildContext(batch, imported) ==
  LET list == imported \o fetch
      more == At(list, {i \in DOMAIN list : list[i] \in read /\ Tokens[list[i]] > 0})
  IN  CapContext(Unique(batch \o more), batch)

Call(imported) ==
  /\ pc = "write"
  /\ queue # <<>>
  /\ prompt' = [batch |-> Head(queue), shown |-> BuildContext(Head(queue), imported)]

WriteBatch(imported) ==
  /\ Call(imported)
  /\ queue' = Tail(queue)
  /\ sent' = sent \o Head(queue)
  /\ pc' = IF Tail(queue) = <<>> THEN "done" ELSE "write"
  /\ UNCHANGED <<given, found, chosen, read, missed>>

\* Mutant: the batches after the one that is split are dropped.
SplitAlone == [i \in DOMAIN Head(queue) |-> <<Head(queue)[i]>>]
Split == [i \in DOMAIN Head(queue) |-> <<Head(queue)[i]>>] \o Tail(queue)

\* A cut off answer: a batch of several files is sent again file by file.
Truncated(imported) ==
  /\ Call(imported)
  /\ IF Len(Head(queue)) = 1
     THEN pc' = "raised" /\ UNCHANGED queue
     ELSE UNCHANGED pc /\ queue' = Split
  /\ UNCHANGED <<given, found, chosen, read, missed, sent>>

Next ==
  \/ \E answer \in BoundedSeq([path : Indexed, chunk : Chunks, score : 0..TopScore], PerQuery) :
       Search(answer)
  \/ \E listed \in SUBSET (repo \cap Indexed) :
       \E order \in SetToSeqs(EntryPoints(listed)) : Rank(listed, order)
  \/ AssignTargets
  \/ \E fetched \in SUBSET Paths : ReadFiles(fetched)
  \/ queue # <<>> /\ \E imported \in SetToSeqs(Dependencies(Head(queue))) :
                       WriteBatch(imported) \/ Truncated(imported)

Spec == Init /\ [][Next]_vars

-----------------------------------------------------------------------------
(* Properties.                                                             *)

\* Whatever the order of the queries and their answers, a path that was found
\* with a better similarity, boost included, is not cut off or ranked behind one
\* found with a worse ("keep the best score for each (path, chunk) pair",
\* retrieval.py:75).  A hit that was put among them for an entry point has a score
\* that nothing found (line 180) and is not compared, also when the entry point
\* was found and the scope filtered its own hits.
Rating(p) == best[p] + (IF p \in Entry THEN Boost ELSE 0)
BestFirst ==
  pc = "assign" => \A i \in DOMAIN hits : \A p \in Indexed :
    best[p] >= 0 /\ Allowed(p) /\ hits[i].chunk # "none" /\ Rating(p) > Rating(hits[i].path)
      => \E k \in 1..(i - 1) : hits[k].path = p

\* A hit, or an entry point that was put among the hits, becomes a file to
\* modify only when every path of the plan that the scope allows is one
\* ("Planner paths come first", code_context_service.py:105).
PlannerFirst ==
  \A i \in DOMAIN targets :
    \/ Contains(Collected, targets[i])
    \/ \A p \in ToSet(InScope(Collected)) : Contains(targets, p)

\* The writer is told to create a file only when the repository has none at
\* that path, be its extension indexed or not, unless GitHub did not hand it out.
CreatesOnlyAbsent ==
  pc \in {"write", "done"} =>
    \A p \in ToSet(targets) \cap repo : p \in read \cup missed

\* Each file of a call is shown in full, whatever the budget and whatever it
\* imports, before all others ("always kept in full",
\* code_context_service.py:38); others are shown only while everything, the files
\* to modify included, stays within the budget ("Trim context to token budget",
\* line 37).
PromptHolds ==
  /\ IsPrefix(prompt.batch, prompt.shown)
  /\ prompt.shown = prompt.batch \/ Weight(prompt.shown) <= MaxTokens

\* Every target is answered in one call, once and in the order of the plan,
\* also when answers are cut off in the middle.
NothingLeftOut ==
  pc \in {"write", "done"} => sent \o FlattenSeq(queue) = targets
=============================================================================
