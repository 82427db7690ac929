# GithubIssueResolver in TLA+

A specification of the backend of GithubIssueResolver: the program that takes a
GitHub issue, lets a graph of LLM agents write a patch for it, validates the
patch and opens a pull request. The modules are translated from
`src/backend/app/`; paths below are relative to it unless they start with `src/`.

Contents: [the system](#the-system), [the modules](#the-modules),
[the runs](#the-runs), [the proofs](#the-proofs), [findings](#findings),
[abstractions](#abstractions), [not modelled](#what-is-not-modelled),
[plan](#plan).

## The system

Four kinds of process share one Postgres database, one Redis and one Qdrant
collection: API processes (FastAPI), Celery workers, the broker (Redis), and an
optional sandbox service. Nothing but single SQL commits and single Redis
commands is atomic; no handler takes a lock.

| part | state it keeps | operations | talks to |
|---|---|---|---|
| task row and its writers (`models/task.py`, `repositories/task_repo.py`, `api/v1/endpoints/workflow.py`, `services/workflow_cancel_service.py`, `tasks/*.py`) | `tasks`: status, celery_task_id, result_pr_url | submit, cancel, retry, the retry job, the workflow job | broker, worker control channel, agent graph |
| agent graph (`domain/graph/`, `domain/state/`) | one `WorkflowStateSchema` per run, in memory | the nodes plan, read_code, write_code, execute, fix, create_pr, dlq; the routing after execute | task row, GitHub, index, LLM, sandbox |
| agents and patch filters (`domain/agents/`) | the run's `generated_code`, `plan`, `repo_files` | write a batch, fix, filter changes, ask for more files | LLM, code context |
| webhook (`api/v1/endpoints/webhooks.py`) | a Redis key per delivery id | receive a delivery | task row, broker |
| repository indexer (`indexing/`) | `repo_index_state`, the vectors in Qdrant | `sync_repo`: full, incremental or skip | GitHub, embedding API |
| code context and retrieval (`services/code_context_service.py`, `services/plan_scope.py`, `services/retrieval.py`) | the targets and context of a run | choose targets, expand the allowlist, rank hits | index, GitHub |
| GitHub service (`services/github_service.py`) | a Redis cache of repository files | read files, commit, open pull requests | GitHub |
| model calls (`services/llm_service.py`) | a Redis cache of the planner's answers, the finish reason of the last call in a context variable | ask, parse, repair | providers, every agent |
| chunker (`indexing/chunker.py`) | none | cut a file into chunks | indexer |
| sandbox (`infrastructure/`) | the `/tmp` of each container | `run_tests` | Docker |
| sign-in and provider keys (`api/v1/endpoints/auth.py`, `services/auth_service.py`, `services/provider_key_service.py`) | user rows with encrypted token and keys, OAuth state in Redis, context variables and an embedding client per worker process | sign in, log out, store keys, load them for a job | GitHub, task row, every provider call |
| rate limit (`core/rate_limit.py`) | counters in Redis | count a request | every endpoint |
| logs, steps, dead letters (`repositories/`, `db/`) | append-only rows, monthly partitions | append, list | every job |
| frontend (`src/frontend/`) | the task page: the status it shows, a timer while that is an active one | poll a task, press cancel, retry or refresh | API |

How they meet: the API creates a row, sends a Celery message, and stores its id,
in three steps. A worker takes the message (acknowledging it at once), writes the
row, and walks the graph; every node writes the row again and looks for a
cancellation. Cancel and retry write the same row from other processes; cancel
also broadcasts a revocation to the workers. The node read_code calls
`sync_repo`, so workers of two tasks of one repository index it together, as does
the indexing endpoint.

What is hard, and what makes each part correct:

* **The task row has five kinds of writer and no transaction spans a check and
  the write it guards.** A success must name a pull request that exists and was
  validated; a job publishes or dead-letters and not both; one retry gives one
  pull request; nobody is left without a worker; the row comes to rest on a result.
* **Failures end in one of three exception handlers**, two of which write the row
  again. A job must keep its contract through all of them.
* **The fix loop** must end, and its result must be what was validated.
* **The index** must hold exactly the commit that the row stores, through
  skipped files and chunks, dying runs, and commits that bring content back.
* **Deliveries** of the webhook are repeated and concurrent: one task each.
* **The patch** must stay within the plan and must not replace a file nobody read.
* **The context** is the best of several searches, bounded four times over (hits,
  files, batches, tokens). No bound may lose a path of the plan, show a file to be
  modified in part, or drop a batch.
* **The pull request** is built from files read one by one, some from a cache that
  other runs fill, while others push. Nothing that was pushed before the run looked may
  be undone, and its branch must hold its own patch, although runs of a task may choose
  the same branch name.
* **The page of a task** asks only while it shows an active status and does not number
  its requests: it must end up showing what the row says.
* **Small services with shared state**: the limiter must not let more requests through
  than its limit, nor lock a client out; a call to the model must not blame a cut-off of
  another call; every line of a file must be indexed whatever the sizes configured.
* **Credentials** of all users pass through the same worker processes, while their
  owners sign out or replace them: a job must call with what was loaded for it.

`PROJECT.json` lists the places where these bite, line by line, as `hazards`.

## The modules

| module | what it models |
|---|---|
| `AgentRun` | abstract: what one run promises (validate, repair at most `MaxRetries` times, publish once, write one dead letter, or two when a query fails after the first) |
| `TaskLifecycle` | one task row with its submit, cancel, retry handlers, messages, revocations, workers and jobs; implements `AgentRun` for every job |
| `TaskLifecycle_proofs` | theorems about `TaskLifecycle` |
| `RepoIndex`, `RepoIndex_proofs` | the vectors of one repository and the runs of `sync_repo`; theorems |
| `WebhookDelivery`, `WebhookDelivery_proofs` | the issues webhook and its delivery record; theorems |
| `PatchSet` | the data the graph hands on: files read, allowlist, generated code, validation, commit |
| `PatchSet_proofs` | theorems about `PatchSet` |
| `CodeContext`, `CodeContext_proofs` | from the plan to the prompts of the writer: searches, ranking, targets, files read, batches; theorems |
| `Credentials`, `Credentials_proofs` | tokens and provider keys: sign-in, sign-out, key updates, the jobs of all users in one process; theorems |
| `Publication` | the file cache, the reads of a run, the default branch that others push to, the run's branch, commit and pull request |
| `Publication_proofs` | theorems about `Publication` |
| `TaskPage` | the page of one task in the browser: timer, overlapping requests, buttons |
| `RateLimit` | the counter of one client and endpoint under concurrent requests |
| `LlmCall` | a call to the model: cached answer, parsing, repair, finish reason |
| `Chunker` | how a file is cut into chunks |
| `Sandbox` | the validation of a patch: client, runner, containers |
| `MC*` | the modules as TLC instances: symmetry, small values; `MCServices` holds four modules |
| `Services_proofs` | theorems about the four modules of `MCServices` |

### TaskLifecycle

`status`, `celeryTaskId`, `resultPrUrl` are the columns of the row; a pull
request URL is the job that opened it. `submit`, `cancel`, `retry` are the
progress of the handlers; `cancelJob` is the message id a cancel handler read
before it acts (`workflow_cancel_service.py:18-24`); `retryJob` is what the retry
job sent. `pc[j]` is where the message or worker of job `j` is: outside the graph
a place per commit or check of `run_workflow_task`, inside it the five stations of
a node (enter, check, work, the open pull request not yet recorded, exception).
`node`, `fixes`, `passed`, `failed` are the fields of `WorkflowStateSchema` that
decide something. `prs` and `dlq` are GitHub and the dead letter table.

A dead letter is committed by `dlq_repo.create` (`dlq_repo.py:19`), read back, and
followed by one more commit of the job (`workflow_tasks.py:89`, 105). `WriteDlq` goes to
a place of its own (`lettered`, `rescued`), and `LastCommit` ends the job from there, as
it does after the last log entry of a success. A query that fails at `lettered` is caught
by the handler, which writes a second letter; hence `MaxLetters`, which is 2 with the
fault `db` and 1 without.

Every repository method commits, so each is an action. Celery is external:
messages are acknowledged when taken (the default, `core/celery_app.py` does not
set `task_acks_late`), so a killed worker loses its job; `revoke(terminate=True)`
is a broadcast that each worker handles later: it kills a process that runs the
job, and is otherwise kept in memory to drop the message; a restart forgets it.

Faults are a constant, so that a property names the ones it survives: `kill`,
`keys`, `db`, `net`, `broker`. A cancellation, a retry, a failing agent and
removed keys are not faults and always possible.

### RepoIndex

`history` is the default branch, each commit a map from paths to blobs. `index`
is a set of (path, blob) pairs: the vectors of one file version are one element,
since a file's chunks are deleted and upserted together. Chunks that cannot be embedded
are skipped one by one (`indexer.py:304-316`), so a pair stands for all chunks of the
text or for some of them, and `IndexFileText` has three outcomes: all chunks, some, none.
The last two set `suspect`, the run goes on and stores its commit. Each run of `sync_repo`
has what it read (`tip`, `seen`) and what is left to do (`gone`, `todo`). Each
request to GitHub, Qdrant or Postgres is an action, so runs interleave and die
between any two. `suspect` is a history variable: what happened since the vectors were
last wiped by a run that was alone, a fault (a file or a chunk was skipped, a run died)
or an overlap of two runs.

### WebhookDelivery

Each post is a handler with the steps record, verify, create, send, link. The
Redis key is set before the body is read and expires; `expired` remembers which.
A post without the header carries no id and always counts as new.

### PatchSet

A text stands for all contents with the same meaningful lines, as
`minimal_patch.py` compares them; `Blank` has none, and a file to be created has
`Blank` as its original. The agents' answers are any map from paths to texts.
`allowed` is `plan.files_to_modify`, `files` is `repo_files`, `generated` is
`generated_code`. `write_again` and `fix_again` are the second and last call of an
agent after its request for extra files has grown the allowlist. `missed` and
`validated` are history variables. `_run_code_writer_with_expand` has a second
branch for plans without `_targets_from_plan_hints`; `assign_target_files` always
sets it, so the branch is dead and not modelled.

### CodeContext

One run of the nodes read_code and write_code, with its data: `Search` is one query
of `search_plan_context` and the merge of its answer, `Rank` the listing of the
repository (the indexed files of the branch, but those whose text GitHub did not hand
out, `github_service.py:140-146`), the filter by scope, the injected entry points and
the boost, `AssignTargets` is `assign_target_files`,
`ReadFiles` is `build_repo_files_from_scope` with `merge_fetched_paths_into_repo`,
`WriteBatch` and `Truncated` are one call of the writer with `build_context` and
`cap_context`. `named` holds the paths as the planner wrote them, `Clean` is the
strip of leading dots and slashes that the code applies to all. `best` and `missed`
are history variables: the best similarity a path ever had, and the files GitHub
refused. `queue`, `sent` and `prompt` are the batches to come, the answered ones,
and what the last call was shown. `PatchSet` starts from `targets` and `read` of
this module and takes any answer; this module ends where the answers begin. The two
are not composed: `PatchSet` allows any targets and any files read.

A list that the code filters, sorts or dedups is written as the elements at some of its
positions, in the order of a relation between positions (`Ordered`, `At`, `Unique`,
`Without`): Python's stable sort is `ByScore`, which orders positions by score and then
by place. This is what the proofs about the lists speak of.

The list of snippets that read_code builds from the hits is only logged: the writer
builds its own context for each batch, and so does the model.

### Credentials

`users` holds the three encrypted columns of each row, as numbers that grow with every
new value. `request[c].seen` is the row object that a request loaded when it was
authenticated: SQLAlchemy answers the later queries of the session with it, and writes
only the columns whose value differs from the loaded one. This is what makes
`ClearAccessToken` and `SetProviderKeys` partial writes over a row that another browser
may have changed. A worker's session holds no such object between its three queries
(nothing refers to it), so `Load` reads the row three times.

`ctx` are the context variables of a process, entered before and left after the graph
whatever happens in it; `embedder` is the module-global client of the searches, which
nothing resets. `job` is a message or a worker; its name is used again once it is
over, so that one name stands for the sequence of a process's jobs, of any user or of
none (webhook, API key). `admitted` remembers which of the values the submission found
the user has neither replaced nor removed, `dead` what a sign-out found, `used` the
credential of each call of the running job.

What an authenticated request will
do is chosen after it loaded the row. An empty key is refused with 400
(`auth.py:83-86`), so keys are replaced and never removed, except by a sign-out.
OAuth is on and the embedding provider is Jina. `SyncRepo` needs the server's token:
`RepoIndexer(db)` does not pass the user's on.

### Publication

A text is known by the number of the commit at which it was read: the default branch
only grows (`Push`), so commit *n* holds everything commit *n-1* does. `ReadTip`,
`LookUp`, `ReadFile`, `ListingEnds` and `StoreFiles` are the requests of
`get_repo_files_cached`: the key has the commit, the listing reads the branch, one file
at a time, and what it read is stored under the key although pushes came in between.
`Fetch` is `get_file_contents` for a single file. `ReadBase`, `CreateRef`, `EditRef` and
`OpenPullRequest` are the four requests of the commit and the pull request. A ref that
exists is answered with 422, which the code takes for success (`github_service.py:239`);
moving a ref without force is refused by GitHub unless the commit descends from it.
The branch name ends in the second of publishing, so each run's name is any of
`Branches`. `Fail` is a failing request at any place or a dead worker; the run is over,
what it stored and created stays.

### TaskPage

`task`, `jobs`, `late` and `retrying` are `TaskLifecycle` reduced to what the page can
see: any job may write "running" at any time, a result may be followed by a late "failed",
a job may die or be revoked without a word, a cancellation is written some time after the
status was looked at, and a retry is accepted first and resets the row later, if at all. `flight` holds the refreshes under way, each
unanswered or carrying the status it was answered with; `Show` takes them in any order,
`RefreshFails` drops one. `Poll` is the timer of the effect at `TaskDetail.jsx:71`,
present only while the page shows an active status. The replies to cancel and retry may
be lost, in which case the page does not refresh. `revived` and `slept` are history
variables: the row has left a final status; the page once showed a final status with no
request under way although the row was, or was going to be, something else.

### RateLimit, LlmCall, Chunker

`RateLimit` has one step per Redis command of a request (INCR, EXPIRE, then the
decision), a key that expires, and handlers that crash. `counted` remembers in which
life of the key a request was counted.

`LlmCall` describes an answer by what the parser makes of it (`Kinds`) and by its finish
reason. `Take` is the return of `call_llm_messages`, which leaves the reason in a
context variable of the process, where the repair of a later answer overwrites it. The
planner's calls read and fill the cache; its entry is stored before it is parsed.

`Chunker` takes a file as a sequence of top-level pieces with heights in lines, or as one
piece where syntax does not count. `NextPiece` is one turn of the loop over spans,
`Window` one turn of `_chunk_by_lines`. `skipped` is a history variable with the lines of
nodes of other types, which no chunk of such a file holds.

### Sandbox

One validation at a time per worker: the client's choice of runner, the checks of
`validate_code`, the scan and the choice of language in `run_tests`, then for each file
two containers, one that writes the file to `/tmp` and one that compiles it. `tmp` is the
`/tmp` of the container that is running: new when it starts, gone when it is removed.
Shell scripts are scanned like Python and JavaScript but never compiled; configuration
files are neither.
`disturbed` remembers validations in which Docker, the network or a time limit failed.

## The runs

TLC, complete state spaces. A run marked *violation* shows a disagreement between
the code and a statement of the repository (see [findings](#findings)).

| run | instance | checks |
|---|---|---|
| `TaskFaults` | 2 jobs, 1 cancel, 1 retry, `MaxRetries` 1, faults keys, db, net | `TypeOK`, `SuccessIsValidated`, `RunContract` (refinement of `AgentRun` by every job) |
| `TaskCancel` | the same with faults kill, keys, broker | `OnePullRequest`, `PublishedXorDeadLettered` |
| `TaskLive` | 2 jobs, 1 retry, no cancel, no fault, fairness | `NoOrphan`, `JobEnds`, `Settles` |
| `TaskCancelLost` | 1 job, 1 cancel | violation of `CancelSticks` |
| `IndexFaults` | 2 callers, 2 paths, 2 blobs, 3 commits, forced or not, all faults | `TypeOK`, `StoredCommitIsIndexed`, `OneVersionPerPath`, `SyncAligns`, `FullIndexIsClean` |
| `WebhookFaults` | 2 deliveries, 3 posts, all faults, fairness | `TypeOK`, `OneTaskPerDelivery`, `AnsweredIsHandled` |
| `PatchRun` | a Python file, a script, another file, 3 texts, `MaxTargets` 2, `MaxExtra` 1, `MaxAllowed` 2, `MaxRetries` 1 | `TypeOK`, `CommittedWasValidated`, `AllowlistHolds`, `ReplacesOnlyWhatItRead` |
| `ContextRun` | 5 paths, 2 chunks, 3 queries, 2 named paths, `TopScore` 2, `TopK` 2, `MaxTargets` 3, `BatchSize` 2, `MaxTokens` 2, any index, a repository with the entry point and the workflow | `TypeOK`, `BestFirst`, `PlannerFirst`, `CreatesOnlyAbsent`, `PromptHolds`, `NothingLeftOut` |
| `KeysRun` | 2 users, 2 browsers, 1 process, server has a token and a model key, stored values and one new token or pair of keys | `TypeOK`, `CallsUseOwnKeys`, `FallbackAfterRemoval`, `LogoutIsFinal` |
| `PublishRun` | 2 runs, 2 paths, 2 branch names, 3 pushes | `TypeOK`, `MadeFromWindow`, `OwnPatch` |
| `ServicesRun` | page: 2 refreshes at once, 2 jobs; limiter: 4 requests, limit 2; model: 3 calls in one process, 2 of them cached; chunker: files of 1 or 2 pieces of up to 4 lines, window sizes -1 to 3, overlaps -1 to 4 | `TypeOK`, `PageCatchesUp`, `AtMostLimit`, `LetInAgain`, `TruncatedIsTrue`, `EveryLineIndexed` |
| `SandboxBlind` | 1 validation, patches from 6 files | violation of `ValidPasses` |

What the properties say:

* `SuccessIsValidated`: the row may be written by an old job, a new job, a cancel
  and a retry in any order; if it says success, its pull request exists and passed
  validation.
* `RunContract`: every step of the system is, for every job, a step of `AgentRun`
  or none. It would break if a job published without validation, published twice,
  fixed once too often, or wrote more dead letters than `MaxLetters`. With `db` that is
  two, as the code may really do; with the other faults one.
* `OnePullRequest`: a task retried once has one pull request at most, although the
  failed job may still be running while the retry starts (the dlq node writes
  "failed" before the job has ended). It holds without `net` and `db` only: a lost
  reply to the request that opens the pull request leaves one on GitHub and a
  failed task, and the retry opens a second.
* `PublishedXorDeadLettered`: a job that ran to its end has its pull request or exactly
  one dead letter, not both and not neither. It does not hold with
  `db`: a failing log entry after the success write makes the handler mark the task
  failed and write a dead letter for a published pull request
  (`workflow_tasks.py:87`).
* `NoOrphan`, `Settles`, `JobEnds`: the row never says queued or running while
  nobody works on it; once it says queued it comes to rest on success or on failed; the
  fix loop is finite. `Settles` does not say which: the late "failed" of the first job
  (`workflow_tasks.py:80`) may replace the success of the retry's job, and the row then
  rests on failed although the pull request exists. With
  cancellations `Settles` is false by what `TaskCancelLost` shows.
* `SyncAligns`, `StoredCommitIsIndexed`: exact as long as no file and no chunk was
  skipped, no run died and no runs overlapped since the last full index by a single run;
  such a full index, if it skips nothing itself, repairs everything. The condition is
  needed: a run that skips stores its commit all the same, and two overlapping runs can
  store one commit over the vectors of another. What the two properties are about is the
  rest: the difference between the commits, what was deleted and is indexed next, pushes
  during a run, commits that bring content back, and vectors that were lost while the row
  stayed.
* `OneVersionPerPath`, `FullIndexIsClean`: under every fault, until runs overlap.
* `OneTaskPerDelivery`, `AnsweredIsHandled`: SET NX lets exactly one of the
  concurrent posts through within the life of the key.
* `CommittedWasValidated`, `AllowlistHolds`, `ReplacesOnlyWhatItRead`: for every
  sequence of agent answers. `AllowlistHolds` states the exception at the cap: a
  fix may change any file that was read once the list is full
  (`nodes.py:422-426`).

* `BestFirst`: merging, boost, stable sort and cut lose no path for one with a
  worse rating, whatever the order of the queries. The hits that were injected for entry
  points are exempt: they carry a made-up score. That includes an entry point which the
  searches did find, with snippets that the filter of its scope dropped before it was
  injected again, and which now precedes better hits; similarities 0 and 1 are not enough
  to see this, 2 is.
* `PlannerFirst`: hits fill up what the plan leaves free. That nothing outside the scope
  is fetched or modified is not stated: it would repeat the filter of `add_modify`, and a
  comment of the code wants it otherwise (`code_context_service.py:114`, see the
  [findings](#findings)).
* `CreatesOnlyAbsent`: a target the repository holds is shown with its text, also
  when its extension is not indexed and it comes from GitHub one by one.
* `PromptHolds`, `NothingLeftOut`: every file of a batch is shown in full, other files
  only while the budget lasts, and a split loses no file.

* `CallsUseOwnKeys`: nothing of an earlier job of the process, or of the run before a
  retry, reaches a call of the model, the index or GitHub. The searches are exempt, see
  the [findings](#findings).
* `FallbackAfterRemoval`: the three queries, the context and the fallback together never
  bill the server for a job whose user still has the values submitted with it.
* `LogoutIsFinal`: a key update that began before the sign-out in another browser does
  not bring the cleared values back, because it writes its own columns only.
* `MadeFromWindow`: whichever run filled the cache, and however many pushes came between
  the requests, a run never works with a text older than the commit it took for the tip,
  and never publishes one newer than the commit it builds on. A push between these two
  commits may well be reverted by the patch (see the [findings](#findings)).
* `OwnPatch`: two runs with one branch name cannot both open a pull request, and none is
  opened that shows the other's patch, because the branch is moved without force.
* `PageCatchesUp`: failing, overtaken and lost answers leave the page on a wrong status
  only after the row has left a final status and the page was asleep at some time; the
  property fails without this exception, by what the retry finding below says.
* `AtMostLimit`, `LetInAgain`: INCR alone orders the requests; only a crash exactly
  between INCR and EXPIRE locks a client out for good (`Orphaned`).
* `TruncatedIsTrue`: although the finish reason is read from a variable that outlives the
  call, no batch is split for a cut-off that happened to another call. Cut-offs that go
  unnoticed are in the findings.
* `EveryLineIndexed`: for zero and negative sizes and overlaps beyond the window too.

`ServicesRun` checks four modules that share no state. A behaviour moves one of them,
chosen in its first state, while the others stand still in one initial state: an
interleaving of two would show nothing that each does not show alone, and the states add
up and do not multiply.

Bounds and why they suffice. Two jobs are the job and its retry; jobs only meet in
the row, and a third would repeat what the second does to the first. One
cancellation meets every place of both jobs. `MaxRetries` 1 has a first, a
repaired and a last execution, and each decision of the routing. Two paths and two
blobs make add, change, remove and revert in one commit; three commits are needed
for "indexed, changed, brought back"; two callers overlap in every order, and either
may be alone again. Three posts make two of one delivery race
while another is in flight, or three of one. Three paths in `PatchRun`
are one of each kind the sandbox tells apart, and `MaxAllowed` 2 is reached by one
extra file. The five paths of `ContextRun` are a server file, an entry point that
imports it, a file whose extension is not indexed, and a path with a leading dot
beside the path it is cleaned to, which the repository lacks (`SmallInit` of
`MCCodeContext`: the entry point and the workflow exist, the other two may, and the
listing and the index may lack or, for the index, still have any of them). Three queries of one hit exceed `TopK` 2, so hits
are cut; two named paths and two hits exceed `MaxTargets` 3; three targets make a
full batch that can be split and one that cannot; `MaxTokens` 2 is less than the
weight of a batch; three similarities (`TopScore` 2) let a hit be between two others. In `KeysRun` a second user's job follows in the same process, two
browsers of one user race, and one new value (`MaxMinted` 2) tells what was loaded from
what replaced it; a sign-in and new keys after one sign-out would need a third.
In `PublishRun` two runs meet in the cache and in a branch
name; three pushes fall before the first read, between two reads, and between the reads
and the base, and two paths make a listing that spans a push. In `ServicesRun` two
refreshes overtake each other and two jobs are the failed one and its retry; of four
requests two are over the limit, or two are counted in one life of the key and two in
the next; a call with the cache filled by another, and one without the cache, follow each
other in one process; a piece of four lines exceeds every window, so that it is cut, with
every overlap from none to more than the window. `SandboxBlind` needs one file.
`MaxCommits` and `MaxPushes` bound `Push`, `MaxJobs` the retries; all other variables are bounded by the constants. `CHECK_DEADLOCK FALSE` is set where the system stops for good: every
message handled, every request answered, the patch published.

Fairness. `TaskLive`: a request that began is carried on and a worker that holds a
job works (`WF` on each handler and job). Nobody has to press a button, no broadcast
has to arrive, no fault has to happen. The run has no fault; Celery delivers a
message to a living worker, which is what `WF` of `Receive` says. Weak fairness
suffices because a job's next step stays enabled until it is taken.
`WebhookFaults`: a received request is handled (`WF` of its handler); a failing step
is an end of its own that the sender sees. `ServicesRun`, for the page: jobs end, and
accepted retries reset the row or are lost (`WF`), the timer ticks (`WF` of `Poll`), and a request
that is asked again and again is at some time answered and shown (`SF`: any single one
may fail). For the limiter: time passes (`WF` of `ExpireKey`) and a handler that does not
crash goes on (`WF`); a crash stays possible at each of its steps.

## The proofs

`tlapm` proves every safety property of the passing runs, action properties and the
refinement of `AgentRun` included, for all values of the constants. The assumptions are
those named `...Assumption` in the modules: they say what kind of value a setting is
(a positive limit, a finite set of requests, faults out of the list of faults), and
nothing about the numbers of jobs, callers, posts, users, paths or files. The two theorems
with an assumption of their own are marked. A property whose invariant is only inductive
together with the types of the variables rests on `TypeCorrect` of its module.

| module | theorem | statement |
|---|---|---|
| `TaskLifecycle_proofs` | `TypeCorrect` | `Spec => []TypeOK` |
| | `SuccessValidated` | `Spec => []SuccessIsValidated` |
| | `RunsImplementAgentRun` | `Spec => RunContract` |
| | `NobodyAbandons` | without cancellations and faults, `Spec => []NoOrphan` |
| | `DoneHasOneOutcome` | without `db` and `net`, `Spec => []PublishedXorDeadLettered` |
| | `RetryOpensNoSecond` | without `db` and `net` and with one retry, `Spec => []OnePullRequest` |
| `PatchSet_proofs` | `TypeCorrect` | `Spec => []TypeOK` |
| | `CommitsWereValidated` | `Spec => []CommittedWasValidated` |
| | `AllowlistKept` | `Spec => []AllowlistHolds` |
| | `NothingReplacedUnread` | `Spec => []ReplacesOnlyWhatItRead` |
| `CodeContext_proofs` | `TypeCorrect` | `Spec => []TypeOK` |
| | `BestComeFirst` | `Spec => []BestFirst` |
| | `PlanComesFirst` | `Spec => []PlannerFirst` |
| | `NothingIsOverwritten` | `Spec => []CreatesOnlyAbsent` |
| | `PromptsFit` | `Spec => []PromptHolds` |
| | `EveryTargetIsSent` | `Spec => []NothingLeftOut` |
| `RepoIndex_proofs` | `TypeCorrect` | `Spec => []TypeOK` |
| | `StoredCommit` | `Spec => []StoredCommitIsIndexed` |
| | `OneVersion` | `Spec => []OneVersionPerPath` |
| | `EverySyncAligns` | `Spec => SyncAligns` |
| | `EveryFullIndexIsClean` | `Spec => FullIndexIsClean` |
| `Credentials_proofs` | `TypeCorrect` | `Spec => []TypeOK` |
| | `CallsAreOwn` | `Spec => []CallsUseOwnKeys` |
| | `FallbackOnlyAfterRemoval` | `Spec => []FallbackAfterRemoval` |
| | `LogoutFinal` | `Spec => []LogoutIsFinal` |
| `Publication_proofs` | `TypeCorrect` | `Spec => []TypeOK` |
| | `WindowKept` | `Spec => []MadeFromWindow` |
| | `BranchIsOwn` | `Spec => []OwnPatch` |
| `WebhookDelivery_proofs` | `TypeCorrect` | `Spec => []TypeOK` |
| | `OneTaskForEachDelivery` | `Spec => []OneTaskPerDelivery` |
| `Services_proofs` | `TypeCorrect` | `Spec => []TypeOK`, of all four parts |
| | `LimitKept` | `LimitSpec => []AtMostLimit` |
| | `TruncatedWasCutOff` | `LlmSpec => []TruncatedIsTrue` |
| | `EveryLineKept` | `ChunkSpec => []EveryLineIndexed` |
| | `ChunksAreShort` | `ChunkSpec => []ChunksFit`, which no run checks |

### TaskLifecycle

`SuccessIsValidated` is not inductive: the final write of a job that lost a race
must still find its pull request. `IInv` adds, per job (`JobInv`), what its place
implies: before the pull request nothing is published, failed or dead-lettered;
`create_pr` is only reached with `passed`; `fix` only below `MaxRetries`; after it
the pull request exists. `RowInv` adds that only existing pull requests are
recorded, and that the two writes of a success come in order. `RunStep` then maps
each of the forty actions to a step of `AgentRun` or a stutter under the refinement mapping
`Phase`. For the dead letters `JobInv` counts them by place: none before `WriteDlq`, one
at `lettered`, and fewer than `MaxLetters` in the handler until it writes its own. `NoOrphan` needs the separate invariant of `Writers`: whoever has written
queued or running is still there, or has been replaced by somebody who is.

`DoneHasOneOutcome` strengthens the property to the whole way out (`Outcome`): a job that
is on one of the paths that lead to a dead letter has no pull request and as many
letters as its place says. Here the faults
matter. A lost reply of GitHub raises with the pull request open, and a failing database
raises behind the success write, so both are excluded, as in the run; killed processes,
missing keys and a broker that refuses are not.

`RetryOpensNoSecond` has to relate the job of the submission to the job of the retry, which meet only in the
row. A retry is accepted when the row says "failed", and the dlq node writes that while
its job goes on. `RetryInv` says that the row says "failed" only when some job is `Lost`,
which means that it has no pull request and is past the place where it could open one, and
that a retry was accepted only after the submitted job was. `RowSaysFailed` goes through
all writers of the row to show it. With one retry two jobs exist at most, the first of
them lost once there is a second.

### RepoIndex

`Align` says what the index holds in the middle of a run, which none of the properties
does. `HalfWay`: for each path the run has dealt with, the blob of its tip; for each one it
has not, the blob of the stored commit when it indexes incrementally and none when it
indexes everything; and nothing for the file that is being replaced. Between runs this
leaves exactly the stored commit. It
holds while nothing went wrong since the last wipe, so `NoOverlap` is needed beside it: as
long as no overlap is recorded, one run at most is under way (`RunIsAlone`), and the
row it loaded is still the stored one, although the vectors are counted and the
difference is fetched two steps later. `Clean` needs less: it survives skipped files and
chunks and dying runs, since what a run deletes and upserts of a path is always its one version.
`EverySyncAligns` and `EveryFullIndexIsClean` follow for the step with which a run ends.

### WebhookDelivery

`OneLetThrough` strengthens the property from tasks to handlers: of two posts with one id
only one went past SET NX, also while neither has a task, unless the key expired in
between. `IdsAreRecorded` is the reason: no failing step takes the record back. That is
what makes a redelivery after a failure useless (see the [findings](#findings)), and what
makes the theorem true.

### Credentials

`CallsUseOwnKeys` speaks of the calls of a job and depends on the process. `Contexts`: the
context variables of a process are empty before the graph of the job it runs, and inside
the graph are exactly the values which that job loaded; `Workers`: no two processes run the
same job. `JobHolds` carries `FallbackAfterRemoval`: what the user had when the job was
submitted and has not touched since is still in the row, and has been loaded as soon as the
place of the job is behind the query for it (`LoadedBy`). For `LogoutIsFinal`, `Numbers` and `Pending` say that the token
which a sign-in has exchanged and not yet written is new, so that no sign-out can have
cleared it; all other writes write columns the request was given values for.

### CodeContext

`TypeCorrect` is here the sum of the invariants. `Found`: while it searches, `best` of a
path is the score of one of its hits and none of its hits has a better one (`Rated`).
`Chosen`: the targets are among the files to fetch. `Reading` is
`CreatesOnlyAbsent` with the bounds of `read` and `missed`, and nothing missed before the
files are read. `Writing`: the batches
answered, one after the other, followed by those to come are the targets.

Most of the module is about lists, and each lemma is stated once for all of them:
`OrderedFacts` (the elements at some positions, in the order of a relation, each
position once), `AtFacts`, `UniqueFacts` (of equal elements the first), `ByScoreFacts`
(the stable sort), `FoldExists` and `MergeTurns` (a fold is a row of turns, which is how
an invariant of the loop over the answers of the index is carried through it),
`WeightFacts` and `FlattenFacts` (the sum and the concatenation that a fold makes),
`CutsFacts` (a list cut into batches is the list). `FoldLeft` and `FlattenSeq` are
recursive functions of the community modules. That they have a value for every list is
induction over its length, made without an operator parameter: among the lengths for which
there is none there would be a least (`LeastNatural`, from the library's theorem about
well-founded orders), which is neither zero nor one more than a length that has one.

Preparing the proof of `BestComeFirst` showed that `BestFirst`, as it was first stated, is
false for more than two similarities: an entry point whose snippets were dropped by the
filter of the scope is injected again, with a made-up score, and then precedes better hits.
TLC confirmed it with `TopScore` 2, the property now exempts injected hits by what they
are, and `ContextRun` has the larger `TopScore`.

### PatchSet

`AllowlistHolds` and `CommittedWasValidated` are not inductive alone. `Stage` says
what the next node implies about the patch: nothing is generated before
`write_code`, a fix is only reached while fixes are left, `create_pr` is only
reached with what was validated, nothing is published before it. `ReadOrNew` says
that every path an agent may write holds the repository's text, is new, or could not
be read; `ReplacesOnlyWhatItRead` follows from it and `AllowlistHolds`. The lemma
`GrownList` carries the cap: a list that is cut at `MaxAllowed` and still grew was
not full before, and one that did not reach the cap holds every extra path.

### Publication

`MadeFromWindow` speaks of the runs and depends on the cache: `CacheWindow` says that
what is stored under a commit was read after that commit was the tip, and `RunWindow`
that a run holds nothing until it has looked into the cache, so that what it stores is
its own. `BaseIsLast` needs that nothing is read once the base is chosen and that a run
with an open pull request is over. For `OwnPatch`, `Tenure` says that a branch which a
run has moved is at that run's base, and that the run is past the point where it could
choose another; the lemma `Untouched` says that no step moves such a branch.

### RateLimit, LlmCall, TaskPage, Chunker

`LimitKept`: the requests of one window have different counts (`CountsDiffer`), those
that pass have counts up to the limit, and the pigeonhole theorem for finite sets gives
the bound. `TruncatedWasCutOff` needs `HasAnswer`: a call that stores, parses or repairs
has an answer of its own, so that what it takes for the reason is the reason of this
answer or of its repair. Of `TaskPage`, the types are proved, for which the jobs that
still run have to be among those started (`JobsCounted`). `EveryLineKept` and
`ChunksAreShort` rest on the lemma `SizesFit`: whatever the settings, a stride is at
least one line and at most a window.

### Only model-checked

* Liveness: `JobEnds`, `Settles`, `AnsweredIsHandled`, `PageCatchesUp`, `LetInAgain`. Their
  proofs need fairness and ENABLED, which the installed prover does not handle.
* The violations: `CancelSticks` and `ValidPasses` are false, and TLC has the
  counterexample. `Sandbox` has no theorem for that reason.
* That the constants of `CodeContext` (which paths are server side, what a file weighs,
  what it imports) are what the text heuristics of the code compute is neither proved nor
  checked: they are any, and the theorems hold for all of them.


## Findings

| run | the code | the statement |
|---|---|---|
| `TaskCancelLost` | every node writes "running" before it looks for "cancelled" (`nodes.py:68-71`), so a cancellation between two nodes is lost | "Cancel a queued or running workflow." `workflow.py:119` |
| `SandboxBlind` | a file is written to `/tmp` in one container and compiled in another (`docker_executor.py:92-95`); `/tmp` is a tmpfs of each container (line 32), so every check fails and no patch passes unless tests are skipped | "Validate generated code via syntax checks only (py_compile / node --check)." `docker_executor.py:141` |

More were met while modelling and have no run:

* After a run that died, the incremental diff starts from a commit the index does not
  hold (`indexer.py:238`), against "the commit the vector index was last aligned to"
  (line 30); a revert of the commit hides the difference. `SyncAligns` excludes it by
  `suspect`.
* The embedding client of the searches is made once per process and keeps its key
  (`qdrant_search_service.py:27-31`), so later jobs search with the first user's key,
  against "Per-request Groq/Jina API keys (OAuth users) with env fallback."
  (`user_provider_keys.py:1`); `CallsUseOwnKeys` excludes the searches.
* Leading dots are stripped from paths (`plan_scope.py:143`, `security.py:115`), so
  `github/ci.yml` is written for `.github/ci.yml`, against "Planner files_to_modify plus
  any paths mentioned in change descriptions." (`plan_scope.py:138`); `Clean` models it.
* A commit is built on the branch as it is at publishing time, with whole files as they
  were read (`github_service.py:233`): what others pushed to these files in between is
  reverted by the pull request.
* `TruncatedLLMResponseError` is "Raised when the provider stops due to output token limit
  (truncated JSON)." (`llm_service.py:25`). An answer cut off before its last bracket is
  a plain error, and for one that is repaired the error depends on how the repair ended:
  the batch is then not split. `Parse` and `Repair` model it.
* An answer is cached before it is parsed (`llm_service.py:150`): for a day, a retry of
  the task gets the same unusable plan. `StoreAnswer` models it.
* The page stops asking when it shows a final status (`TaskDetail.jsx:71`). The refresh
  after an accepted retry may be answered before the retry job resets the row, and then
  "failed" stays on the page until somebody presses refresh. This is the exception in
  `PageCatchesUp`.
* A Python file that has functions, classes or imports is indexed without its other
  top-level statements (`chunker.py:42-55`); the decorators of a function are not in its
  chunk. This is `skipped` in `EveryLineIndexed`.
* No lock between reading the tip and storing it (`indexer.py:110`): overlapping runs
  leave vectors of one commit under another, against "source of truth" (line 33);
  `IndexFaults` shows what survives.
* The answer of a fix replaces the whole generated code (`fix_agent.py:98`): files it
  does not repeat leave the patch, which may then pass; the prompt asks to "keep
  unrelated code unchanged" (line 16). `Fixed` models it.
* `read_code` makes its indexer without the user's token (`nodes.py:123`), so indexing
  needs the server's `GITHUB_TOKEN`, against "Uses the submitting user's GitHub token
  when github_user_id is set." (`workflow_tasks.py:40`); `SyncRepo` models it.
* A job that the server's keys complete goes on after a sign-out with the server's token
  and keys; one that was loaded before it keeps the values that were cleared.
* Credentials that cannot be loaded end a job before its `try`
  (`workflow_tasks.py:50`), so no dead letter is written, against "All failure paths
  write to DLQ." (line 39); `LoadKeys` models it.
* The retry endpoint checks the status, the retry job writes it later unchecked
  (`retry_tasks.py:23`), so two clicks restart a task that has succeeded, against
  "Only failed tasks can be retried." (`workflow.py:111`).
* The webhook records the delivery id first and keeps it when a later step fails
  (`webhooks.py:49`), so the redelivery is dropped, against "False if duplicate
  (already processed)" (`github_service.py:263`).
* A blob that cannot be fetched, or a chunk that cannot be embedded, is skipped and the
  commit stored all the same (`indexer.py:262`, 309-316), against "last successfully
  indexed commit" (`repo_index_state.py:8`); `FetchFails` and `IndexFileText` model it
  and set `suspect`.
* A query that fails after `dlq_repo.create` has committed (`dlq_repo.py:20`,
  `workflow_tasks.py:89`) makes the handler write a second dead letter for the same run
  (line 104). `RunContract` bounds the letters at two for that.
* "Trust explicit planner paths when scope heuristics over-filter"
  (`code_context_service.py:114`) does not happen: the paths that are trusted there are
  filtered again by `add_modify` (line 122), no file is left to modify, and the run ends
  in the `ValueError` of line 137. `PlannerPaths`, `Kept` and the
  end `raised` of `AssignTargets` model it.
* A stale hit of a file that is gone becomes an empty file to create.
* An injected entry point has the boost in its score already and gets it again; it
  can become a file to modify without having been found.
* An answer for one batch may write a target of another batch, which it was not
  shown (`code_writer.py:74-77` compares with all targets).

## Abstractions

* One task: rows share nothing but the workers. One repository: an index entry
  names its repository in every filter.
* `current_step`, `error_message` and log entries are display only and left out,
  except that writing them may fail (`db`). `tasks.retry_count` is written by the
  retry job and read by no step.
* `update_status` reads the row and writes it back in one repository call; no other
  column than those it sets is written, so it is one step.
* A node's work (models, GitHub, index) is one step that succeeds or raises; what
  it produces is in `PatchSet`, where the row and the other jobs do not matter.
* Node transitions hand on the whole state; an exception makes `run_workflow` return
  the initial state marked failed, so a pull request opened before it is not
  recorded. This is `NodeFailed`, after which nothing of the state is read.
* The parsing of model answers, path sanitising and the code scan are part of
  `Raise`. The batches of the writer are one answer: nothing reads the partial
  result.
* `CodeContext`: which paths are server side, entry points, imports, and the token
  estimate are string heuristics and become constants; the order in which entry
  points and imports come is any. Paths that differ in case only are one to the
  code's duplicate check; no two paths of the model do. The second fetch of files
  that an agent asks for is in `PatchSet`.
* `PatchSet` is one run of the graph against one commit of the repository. A directory at
  a path of the plan is no file, as `github_service.py:92` skips it; what a commit at
  that path does to the files below it is not followed.
* `PatchSet` and `TaskLifecycle` leave the verdict of the sandbox open, so that what they
  show holds with a sandbox that works and with the one that `Sandbox` describes.
* `Publication`: the default branch is not rewound, its name does not change, and files
  are not deleted; what a commit contains beside the run's files is its base. The runs
  are those of one task; runs of other tasks share the cache in the same way, and their
  branch names differ.
* `TaskPage`: one page; other browsers act on the row as the model's jobs and retry do.
  The three requests of a refresh are one, answered at one moment.
* `Chunker`: a blank file has no chunks and is left out. Lines are those of `splitlines`;
  a form feed inside a string, which Python's parser does not take for a line end, is not
  modelled. Pieces follow each other without sharing lines.
* `LlmCall`: one set of messages, so one key of the cache; calls of one process follow
  each other.
* `RateLimit`: one client and one endpoint, since each pair has a key of its own.

## What is not modelled

The text of prompts and the requests of the model and embedding clients (their batching,
the fallback from one Gemini model to another, the creation of the collection), the text
heuristics (what a path or a chunk looks like in `retrieval.py`, `plan_scope.py`,
`repo_tree.py`), cryptography, CSRF and the format of cookies, settings, the log
partitions, the read-only endpoints, and the pages of the frontend other than the task
page: pure input and output, string heuristics, or DDL that runs once at start. The OAuth
state is read and deleted in two requests; GitHub exchanges a code once, so nothing that
this code promises could break, and it is left out.

## Plan

In order:

1. That `TaskLifecycle` implements the part of `TaskPage` that stands for the row and its
   jobs (`task`, `jobs`, `late`, `retrying`), which is now a reduction by hand: an abstract
   row specification, shown by a refinement mapping to be implemented by `TaskLifecycle` and
   to be what `TaskPage` runs against, checked by TLC first.
2. That a behaviour of `CodeContext` ends in an initial state of `PatchSet`: `targets`,
   `read` and `missed` of the one meet the assumptions of the other.
3. The safety part of `PageCatchesUp`: while the page shows a wrong status, a request is
   under way or the timer is set, or the page was asleep.
4. `SyncAligns` for callers that overlap but index the same commit.
