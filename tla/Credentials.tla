----------------------------- MODULE Credentials -----------------------------
(***************************************************************************)
(* Whose GitHub token and provider keys the jobs work with: the row of     *)
(* each user, written by sign-ins, sign-outs and key updates in several    *)
(* browsers, and worker processes that load it for a job, put it into      *)
(* context variables, and serve the jobs of all users one after another.   *)
(* OAuth is on.                                                            *)
(***************************************************************************)
EXTENDS Integers, FiniteSets

CONSTANTS
  Users, NoUser,  \* NoUser: the API key or the webhook submitted the task
  Clients,        \* browsers, used by anybody
  Jobs, NoJob, Procs,
  Configured,     \* credentials in settings: some of "token", "groq", "jina"
  MaxMinted       \* bound on the number of a token or key, 1 for the stored ones

Fields == {"token", "groq", "jina"}
ProviderKeys == {"groq", "jina"}

ASSUME UsersAssumption == NoUser \notin Users
ASSUME JobsAssumption == NoJob \notin Jobs
ASSUME SettingsAssumption == Configured \subseteq Fields /\ MaxMinted \in Nat \ {0}

VARIABLES
  users,      \* rows of github_users: field -> number of the value, 0 if empty
  minted,     \* number of the last token or keys made
  revoked,    \* tokens GitHub no longer accepts
  cookie,     \* client -> user of its session cookie
  request,    \* client -> its request, the user and the row as loaded for it
  job,        \* message or worker of a task; the names are used again
  holds,      \* process -> the job it runs
  ctx,        \* process -> context variables of the running job
  embedder,   \* process -> key of the module's embedding client
  used,       \* history: credentials of the last calls of each running job
  admitted,   \* history: job -> its user, and the values that user had at
              \* the submission and has not replaced or removed since
  dead        \* history: values a finished sign-out found in the row

account == <<users, minted, revoked>>
work == <<job, holds, ctx, embedder, used>>
history == <<admitted, dead>>
vars == <<account, cookie, request, work, history>>

\* A credential is an owner and a number; the server's is <<NoUser, 1>>.
Server == <<NoUser, 1>>
Nothing == <<NoUser, 0>>
Credentials == (Users \X (1..MaxMinted)) \cup {Server, Nothing}
Row == [Fields -> 0..MaxMinted]
EmptyRow == [f \in Fields |-> 0]
FullRow == [f \in Fields |-> 1]
NoContext == [f \in Fields |-> Nothing]
Calls == {"model", "index", "search", "github"}
Values(u, row) == {<<u, f, row[f]>> : f \in {g \in Fields : row[g] # 0}}

Idle == [step |-> "idle", user |-> NoUser, seen |-> EmptyRow]
NewJob == [pc |-> "new", user |-> NoUser, loaded |-> EmptyRow]
NoCalls == [k \in Calls |-> Nothing]
Unknown == [user |-> NoUser, kept |-> {}]
Loading == {"token", "groq", "jina"}
InGraph == {"assert", "plan", "index", "search", "write", "publish", "over"}

TypeOK ==
  /\ users \in [Users -> Row]
  /\ minted \in 1..MaxMinted
  /\ revoked \subseteq Users \X (1..MaxMinted)
  /\ cookie \in [Clients -> Users \cup {NoUser}]
  /\ request \in [Clients -> [step : {"idle", "upsert", "authenticated", "clear"},
                              user : Users \cup {NoUser}, seen : Row]]
  /\ job \in [Jobs -> [pc : {"new", "queued", "begin", "failed"} \cup Loading \cup InGraph,
                       user : Users \cup {NoUser}, loaded : Row]]
  /\ holds \in [Procs -> Jobs \cup {NoJob}]
  /\ ctx \in [Procs -> [Fields -> Credentials]]
  /\ embedder \in [Procs -> Credentials]
  /\ used \in [Jobs -> [Calls -> Credentials]]
  /\ admitted \in [Jobs -> [user : Users \cup {NoUser}, kept : SUBSET Fields]]
  /\ dead \subseteq Users \X Fields \X (1..MaxMinted)
  /\ \A p \in Procs : holds[p] = NoJob => ctx[p] = NoContext

\* Some users signed in and stored their keys before, some sessions still run,
\* also of users who signed out in another browser.
Init ==
  /\ users \in [Users -> {EmptyRow, FullRow}]
  /\ minted = 1
  /\ revoked = {}
  /\ cookie \in [Clients -> Users \cup {NoUser}]
  /\ request = [c \in Clients |-> Idle]
  /\ job = [j \in Jobs |-> NewJob]
  /\ holds = [p \in Procs |-> NoJob]
  /\ ctx = [p \in Procs |-> NoContext]
  /\ embedder = [p \in Procs |-> Nothing]
  /\ used = [j \in Jobs |-> NoCalls]
  /\ admitted = [j \in Jobs |-> Unknown]
  /\ dead = {}

-----------------------------------------------------------------------------
(* Requests of the browsers.  A request keeps the row it loaded when it    *)
(* was authenticated: the session answers later queries with that object.  *)

Goto(c, step) == request' = [request EXCEPT ![c].step = step]
EndRequest(c) == request' = [request EXCEPT ![c] = Idle]
Authenticate(c) ==
  /\ request[c].step = "idle"
  /\ cookie[c] # NoUser
  /\ request' = [request EXCEPT ![c] =
                   [step |-> "authenticated", user |-> cookie[c], seen |-> users[cookie[c]]]]
  /\ UNCHANGED <<account, cookie, work, history>>

\* A write of the row.
Same(row, other) == {f \in Fields : row[f] # 0 /\ row[f] = other[f]}
Write(u, row) ==
  /\ users' = [users EXCEPT ![u] = row]
  /\ admitted' = [j \in Jobs |->
       IF admitted[j].user = u
       THEN [admitted[j] EXCEPT !.kept = @ \cap Same(users[u], row)] ELSE admitted[j]]

\* The callback of a sign-in gets a token of whoever is signed in at GitHub.
Exchange(c, u) ==
  /\ request[c].step = "idle"
  /\ minted < MaxMinted
  /\ minted' = minted + 1
  /\ request' = [request EXCEPT ![c] = [step |-> "upsert", user |-> u,
                   seen |-> [EmptyRow EXCEPT !.token = minted + 1]]]
  /\ UNCHANGED <<users, revoked, cookie, work, history>>

UpsertOauthUser(c) ==
  LET u == request[c].user
  IN  /\ request[c].step = "upsert"
      /\ Write(u, [users[u] EXCEPT !.token = request[c].seen.token])
      /\ cookie' = [cookie EXCEPT ![c] = u]
      /\ EndRequest(c)
      /\ UNCHANGED <<minted, revoked, work, dead>>

\* logout. Best effort: the answer of GitHub is not looked at.
RevokeGithubToken(c) ==
  /\ request[c].step = "authenticated"
  /\ \/ UNCHANGED revoked
     \/ revoked' = revoked \cup ({<<request[c].user, request[c].seen.token>>} \ (Users \X {0}))
  /\ Goto(c, "clear")
  /\ UNCHANGED <<users, minted, cookie, work, history>>

\* A column is written when its value differs from the one that was loaded.
Cleared(row, seen) == [f \in Fields |-> IF seen[f] # 0 THEN 0 ELSE row[f]]

ClearAccessToken(c) ==
  LET u == request[c].user
  IN  /\ request[c].step = "clear"
      /\ Write(u, Cleared(users[u], request[c].seen))
      /\ dead' = dead \cup Values(u, request[c].seen)
      /\ cookie' = [cookie EXCEPT ![c] = NoUser]
      /\ EndRequest(c)
      /\ UNCHANGED <<minted, revoked, work>>

\* Mutant: every column is written, as it was loaded.
WithKeysWhole(row, seen, fresh, n) == [f \in Fields |-> IF f \in fresh THEN n ELSE seen[f]]

\* Only the columns of the keys given are written.
WithKeys(row, seen, fresh, n) == [f \in Fields |-> IF f \in fresh THEN n ELSE row[f]]

\* Keys given in one request have one number.  An empty key is refused: this
\* request replaces keys and never removes one.
SetProviderKeys(c, fresh) ==
  LET u == request[c].user
      n == minted + 1
  IN  /\ request[c].step = "authenticated"
      /\ n <= MaxMinted
      /\ minted' = n
      /\ Write(u, WithKeys(users[u], request[c].seen, fresh, n))
      /\ EndRequest(c)
      /\ UNCHANGED <<revoked, cookie, work, dead>>

\* A refusal, an error or the death of the API process; the session's end.
RequestFails(c) ==
  /\ request[c].step # "idle"
  /\ EndRequest(c)
  /\ UNCHANGED <<account, cookie, work, history>>
SessionExpires(c) ==
  /\ cookie[c] # NoUser
  /\ cookie' = [cookie EXCEPT ![c] = NoUser]
  /\ UNCHANGED <<account, request, work, history>>

\* user_must_supply_provider_keys and assert_provider_keys_for_user.
KeysMissing(row) ==
  /\ ~(ProviderKeys \subseteq Configured)
  /\ \E f \in ProviderKeys \ Configured : row[f] = 0

\* A name is free when its task is over, or failed and not retried.
Admit(j, u, kept) ==
  /\ job[j].pc \in {"new", "failed"}
  /\ job' = [job EXCEPT ![j] = [NewJob EXCEPT !.pc = "queued", !.user = u]]
  /\ admitted' = [admitted EXCEPT ![j] = [user |-> u, kept |-> kept]]
  /\ UNCHANGED <<account, cookie, holds, ctx, embedder, used, dead>>

CreateTask(c, j) ==
  LET u == request[c].user
      seen == request[c].seen
  IN  /\ request[c].step = "authenticated"
      /\ seen.token # 0
      /\ <<u, seen.token>> \notin revoked
      /\ ~KeysMissing(seen)
      /\ Admit(j, u, Same(seen, users[u]))
      /\ EndRequest(c)

\* The webhook, or a submission with the API key.
CreateTaskWithoutUser(j) ==
  /\ Admit(j, NoUser, {})
  /\ UNCHANGED request

-----------------------------------------------------------------------------
(* Worker processes.                                                       *)

Resolve(p, f) ==
  IF ctx[p][f] # Nothing THEN ctx[p][f]
  ELSE IF f \in Configured THEN Server ELSE Nothing

Step(j, from, to) == job[j].pc = from /\ job' = [job EXCEPT ![j].pc = to]
Uses(j, call, credential) == used' = [used EXCEPT ![j][call] = credential]

\* The user of the task's row goes with the new message.
RetryFailedTask(j) ==
  /\ job[j].pc = "failed"
  /\ job' = [job EXCEPT ![j] = [NewJob EXCEPT !.pc = "queued", !.user = job[j].user]]
  /\ UNCHANGED <<account, cookie, request, holds, ctx, embedder, used, history>>

Receive(p, j) ==
  /\ holds[p] = NoJob
  /\ Step(j, "queued", IF job[j].user = NoUser THEN "begin" ELSE "token")
  /\ holds' = [holds EXCEPT ![p] = j]
  /\ UNCHANGED <<account, cookie, request, ctx, embedder, used, history>>

\* Mutant: one of the two keys is forgotten.
AfterLoadForgets(f) == CASE f = "token" -> "jina" [] f = "groq" -> "jina" [] f = "jina" -> "begin"

\* Three queries, each of which sees what is committed by then.
AfterLoad(f) == CASE f = "token" -> "groq" [] f = "groq" -> "jina" [] f = "jina" -> "begin"
Load(j, f) ==
  /\ job[j].pc = f
  /\ job' = [job EXCEPT ![j].pc = AfterLoad(f), ![j].loaded[f] = users[job[j].user][f]]
  /\ UNCHANGED <<account, cookie, request, holds, ctx, embedder, used, history>>

EnterContext(p, j) ==
  /\ Step(j, "begin", "assert")
  /\ ctx' = [ctx EXCEPT ![p] = [f \in Fields |->
               IF job[j].loaded[f] = 0 THEN Nothing ELSE <<job[j].user, job[j].loaded[f]>>]]
  /\ UNCHANGED <<account, cookie, request, holds, embedder, used, history>>

AssertKeys(p, j) ==
  /\ \A f \in ProviderKeys : Resolve(p, f) # Nothing
  /\ Step(j, "assert", "plan")
  /\ UNCHANGED <<account, cookie, request, holds, ctx, embedder, used, history>>

\* A GitHub or model call works with a credential only; others may fail too.
Plan(p, j) ==
  /\ Step(j, "plan", "index")
  /\ Resolve(p, "token") \notin revoked \cup {Nothing}
  /\ used' = [used EXCEPT ![j].github = Resolve(p, "token"), ![j].model = Resolve(p, "groq")]
  /\ UNCHANGED <<account, cookie, request, holds, ctx, embedder, history>>

\* Mutant: the indexer works with the process's embedding client.
SyncRepoShared(p, j) ==
  /\ Step(j, "index", "search")
  /\ "token" \in Configured
  /\ Uses(j, "index", IF embedder[p] = Nothing THEN Resolve(p, "jina") ELSE embedder[p])
  /\ UNCHANGED <<account, cookie, request, holds, ctx, embedder, history>>

\* The indexer has a client of its own, and the server's token only; without it
\* the job fails, while a failed run of the indexer is passed over.
SyncRepo(p, j) ==
  /\ Step(j, "index", "search")
  /\ "token" \in Configured
  /\ Uses(j, "index", Resolve(p, "jina"))
  /\ UNCHANGED <<account, cookie, request, holds, ctx, embedder, history>>

\* The searches' embedding client is made once in each process.
SearchForPlan(p, j) ==
  /\ Step(j, "search", "write")
  /\ embedder' = [embedder EXCEPT ![p] = IF @ = Nothing THEN Resolve(p, "jina") ELSE @]
  /\ Uses(j, "search", embedder'[p])
  /\ UNCHANGED <<account, cookie, request, holds, ctx, history>>

WriteCode(p, j) ==
  /\ Step(j, "write", "publish")
  /\ Uses(j, "model", Resolve(p, "groq"))
  /\ UNCHANGED <<account, cookie, request, holds, ctx, embedder, history>>

\* Mutant: the context variables are not reset.
LeaveContextKeeps(p, j, to) ==
  /\ job' = [job EXCEPT ![j] = [NewJob EXCEPT !.pc = to,
             !.user = IF to = "failed" THEN job[j].user ELSE NoUser]]
  /\ holds' = [holds EXCEPT ![p] = NoJob]
  /\ used' = [used EXCEPT ![j] = NoCalls]
  /\ UNCHANGED <<account, cookie, request, dead, ctx>>

\* The context is left whatever happens in it.
LeaveContext(p, j, to) ==
  /\ job' = [job EXCEPT ![j] = [NewJob EXCEPT !.pc = to,
             !.user = IF to = "failed" THEN job[j].user ELSE NoUser]]
  /\ holds' = [holds EXCEPT ![p] = NoJob]
  /\ ctx' = [ctx EXCEPT ![p] = NoContext]
  /\ used' = [used EXCEPT ![j] = NoCalls]
  /\ UNCHANGED <<account, cookie, request, dead>>

CreatePr(p, j) ==
  /\ Step(j, "publish", "over")
  /\ Resolve(p, "token") \notin revoked \cup {Nothing}
  /\ Uses(j, "github", Resolve(p, "token"))
  /\ UNCHANGED <<account, cookie, request, holds, ctx, embedder, history>>

Finish(p, j) ==
  /\ job[j].pc = "over"
  /\ LeaveContext(p, j, "new")
  /\ admitted' = [admitted EXCEPT ![j] = Unknown]
  /\ UNCHANGED embedder

\* An exception: a credential is missing or refused, or anything else.
JobFails(p, j) ==
  /\ job[j].pc \in InGraph
  /\ LeaveContext(p, j, "failed")
  /\ UNCHANGED <<embedder, admitted>>

\* The process dies; another one takes its place.
WorkerDies(p, j) ==
  /\ LeaveContext(p, j, "new")
  /\ embedder' = [embedder EXCEPT ![p] = Nothing]
  /\ admitted' = [admitted EXCEPT ![j] = Unknown]

ClientNext(c) ==
  \/ (\E u \in Users : Exchange(c, u)) \/ UpsertOauthUser(c)
  \/ Authenticate(c) \/ RevokeGithubToken(c) \/ ClearAccessToken(c)
  \/ \E fresh \in SUBSET ProviderKeys \ {{}} : SetProviderKeys(c, fresh)
  \/ \E j \in Jobs : CreateTask(c, j)
  \/ RequestFails(c) \/ SessionExpires(c)

JobNext(p, j) ==
  \/ \E f \in Fields : Load(j, f)
  \/ EnterContext(p, j) \/ AssertKeys(p, j) \/ Plan(p, j) \/ SyncRepo(p, j)
  \/ SearchForPlan(p, j) \/ WriteCode(p, j) \/ CreatePr(p, j)
  \/ Finish(p, j) \/ JobFails(p, j) \/ WorkerDies(p, j)

Next ==
  \/ \E c \in Clients : ClientNext(c)
  \/ \E j \in Jobs : CreateTaskWithoutUser(j) \/ RetryFailedTask(j)
  \/ \E p \in Procs, j \in Jobs : Receive(p, j)
  \/ \E p \in Procs : holds[p] # NoJob /\ JobNext(p, holds[p])

Spec == Init /\ [][Next]_vars

-----------------------------------------------------------------------------
(* Properties.                                                             *)

\* The credential that a call of kind k of job j is to be made with: the value
\* loaded for this run of the job, else the server's.
FieldOf(k) == CASE k = "github" -> "token" [] k = "model" -> "groq" [] OTHER -> "jina"
Rightful(j, k) ==
  IF job[j].loaded[FieldOf(k)] # 0 THEN <<admitted[j].user, job[j].loaded[FieldOf(k)]>> ELSE Server

\* A process serves the jobs of all users in turn, and still every model call,
\* index run and GitHub call of a job is made with the values loaded for this
\* very run, never with those of another user or of the run before a retry
\* (workflow_tasks.py:60-63, user_provider_keys.py:31-41).
CallsUseOwnKeys ==
  \A j \in Jobs : \A k \in Calls \ {"search"} : used[j][k] \in {Nothing, Rightful(j, k)}

\* A job falls back on the server's token or model key only when its user has
\* removed or replaced, after submitting the task, what the submission had found;
\* a retry is no exception ("Uses the submitting user's GitHub token when
\* github_user_id is set.", workflow_tasks.py:40; the indexer never does).
FallbackAfterRemoval ==
  \A j \in Jobs :
    /\ "token" \in admitted[j].kept => used[j].github # Server
    /\ "groq" \in admitted[j].kept => used[j].model # Server

\* What a sign-out found in the user's row never comes back, whatever requests
\* of other browsers were in progress with the row they had loaded before
\* (github_user_repo.py:54-62).
LogoutIsFinal ==
  \A u \in Users : Values(u, users[u]) \cap dead = {}
=============================================================================
