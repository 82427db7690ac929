------------------------- MODULE Credentials_proofs -------------------------
(***************************************************************************)
(* Whose token and keys the jobs work with, for any number of users,       *)
(* browsers, tasks and worker processes and any settings: type             *)
(* correctness, that a job's calls are made with what was loaded for it,   *)
(* when it may fall back on the server's, and that a sign-out is final.    *)
(***************************************************************************)
EXTENDS Credentials, TLAPS

\* What a job has loaded when it is at a place.
LoadedBy(place) ==
  CASE place = "groq" -> {"token"}
    [] place = "jina" -> {"token", "groq"}
    [] place \in {"begin"} \cup InGraph -> Fields
    [] OTHER -> {}

\* A job is its user's; a job of nobody loads nothing; only the graph makes calls,
\* each with a value of this run; and a value that was there at the submission and
\* was not touched since is still in the row, and loaded when its turn is over.
JobHolds(j) ==
  /\ job[j].user = admitted[j].user
  /\ job[j].pc \in Loading => job[j].user # NoUser
  /\ job[j].user = NoUser => job[j].loaded = EmptyRow /\ admitted[j].kept = {}
  /\ job[j].pc \notin InGraph => used[j] = NoCalls
  /\ \A f \in admitted[j].kept :
       /\ users[job[j].user][f] # 0
       /\ f \in LoadedBy(job[j].pc) => job[j].loaded[f] # 0
  /\ \A k \in Calls \ {"search"} : used[j][k] \in {Nothing, Rightful(j, k)}

JobsHold == \A j \in Jobs : JobHolds(j)

\* A process runs a job that was received, and no two processes run the same.
Workers ==
  /\ \A p \in Procs :
       holds[p] # NoJob => job[holds[p]].pc \in Loading \cup {"begin"} \cup InGraph
  /\ \A p, q \in Procs : holds[p] = holds[q] /\ holds[p] # NoJob => p = q

\* The context variables of a process are those of the job it runs: empty before
\* the graph, and exactly what was loaded while it runs.
ContextOf(p) ==
  holds[p] # NoJob =>
    /\ job[holds[p]].pc \notin InGraph => ctx[p] = NoContext
    /\ job[holds[p]].pc \in InGraph =>
         \A f \in Fields :
           ctx[p][f] = IF job[holds[p]].loaded[f] = 0 THEN Nothing
                       ELSE <<job[holds[p]].user, job[holds[p]].loaded[f]>>

Contexts == \A p \in Procs : ContextOf(p)

\* A request under way is a user's.
Requests == \A c \in Clients : request[c].step # "idle" => request[c].user # NoUser

TypeInv == TypeOK /\ Requests /\ JobsHold /\ Workers /\ Contexts

-----------------------------------------------------------------------------
(* Type correctness, of the requests.                                      *)

RequestType == [step : {"idle", "upsert", "authenticated", "clear"},
                user : Users \cup {NoUser}, seen : Row]
JobType == [pc : {"new", "queued", "begin", "failed"} \cup Loading \cup InGraph,
            user : Users \cup {NoUser}, loaded : Row]
AdmittedType == [user : Users \cup {NoUser}, kept : SUBSET Fields]

LEMMA Rows ==
  /\ MaxMinted \in Nat /\ MaxMinted >= 1
  /\ EmptyRow \in Row /\ FullRow \in Row
  /\ Nothing \in Credentials /\ Server \in Credentials /\ Nothing # Server
  /\ Idle \in RequestType /\ NewJob \in JobType /\ Unknown \in AdmittedType
  BY SettingsAssumption
  DEF EmptyRow, FullRow, Row, Nothing, Server, Credentials, Idle, RequestType,
      NewJob, JobType, Unknown, AdmittedType

LEMMA TypeInit == Init => TypeInv
<1> SUFFICES ASSUME Init PROVE TypeInv
  OBVIOUS
<1>1. TypeOK
  <2>1. /\ users \in [Users -> Row]
        /\ minted \in 1..MaxMinted
        /\ revoked \subseteq Users \X (1..MaxMinted)
        /\ cookie \in [Clients -> Users \cup {NoUser}]
    BY Rows DEF Init
  <2>2. request \in [Clients -> RequestType] /\ job \in [Jobs -> JobType]
    BY Rows DEF Init
  <2>3. /\ holds \in [Procs -> Jobs \cup {NoJob}]
        /\ ctx \in [Procs -> [Fields -> Credentials]]
        /\ embedder \in [Procs -> Credentials]
        /\ used \in [Jobs -> [Calls -> Credentials]]
    BY Rows DEF Init, NoContext, NoCalls
  <2>4. admitted \in [Jobs -> AdmittedType] /\ dead \subseteq Users \X Fields \X (1..MaxMinted)
    BY Rows DEF Init
  <2>5. \A p \in Procs : holds[p] = NoJob => ctx[p] = NoContext
    BY DEF Init
  <2> QED
    BY <2>1, <2>2, <2>3, <2>4, <2>5 DEF TypeOK, RequestType, JobType, AdmittedType
<1>2. Requests
  BY DEF Init, Requests, Idle
<1>3. Workers /\ Contexts
  BY DEF Init, Workers, Contexts, ContextOf
<1>4. ASSUME NEW j \in Jobs PROVE JobHolds(j)
  <2>1. job[j] = NewJob /\ admitted[j] = Unknown /\ used[j] = NoCalls
    BY DEF Init
  <2> QED
    BY <2>1 DEF JobHolds, NewJob, Unknown, NoCalls, Loading, Calls
<1> QED
  BY <1>1, <1>2, <1>3, <1>4 DEF TypeInv, JobsHold

\* A request's step sets its own record.
LEMMA RequestStep ==
  ASSUME TypeInv, NEW c \in Clients, NEW r \in RequestType,
         r.step # "idle" => r.user # NoUser,
         request' = [request EXCEPT ![c] = r]
  PROVE  request' \in [Clients -> RequestType] /\ Requests'
<1>1. request \in [Clients -> RequestType]
  BY DEF TypeInv, TypeOK, RequestType
<1>2. request' \in [Clients -> RequestType]
  BY <1>1
<1>3. ASSUME NEW d \in Clients, request'[d].step # "idle" PROVE request'[d].user # NoUser
  <2>1. CASE d = c
    BY <1>1, <1>3, <2>1
  <2>2. CASE d # c
    BY <1>1, <1>3, <2>2 DEF TypeInv, Requests
  <2> QED
    BY <2>1, <2>2
<1> QED
  BY <1>2, <1>3 DEF Requests

LEMMA EndRequestStep ==
  ASSUME TypeInv, NEW c \in Clients, EndRequest(c)
  PROVE  request' \in [Clients -> RequestType] /\ Requests'
<1>1. Idle.step = "idle" /\ request' = [request EXCEPT ![c] = Idle]
  BY DEF Idle, EndRequest
<1> QED
  BY <1>1, Rows, RequestStep

\* Who asks, and with which row in hand.
LEMMA RequestFacts ==
  ASSUME TypeInv, NEW c \in Clients
  PROVE  /\ request[c] \in RequestType /\ request[c].seen \in Row
         /\ request[c].step # "idle" => request[c].user \in Users
  BY DEF TypeInv, TypeOK, Requests, RequestType

\* A write of a row takes out of what was kept exactly what it changes.
LEMMA WriteFacts ==
  ASSUME TypeInv, NEW u \in Users, NEW row \in Row, Write(u, row), UNCHANGED work
  PROVE  /\ users' \in [Users -> Row]
         /\ admitted' \in [Jobs -> AdmittedType]
         /\ JobsHold'
<1> USE DEF TypeInv
<1>1. users \in [Users -> Row] /\ admitted \in [Jobs -> AdmittedType]
  BY DEF TypeOK, AdmittedType
<1>2. users' \in [Users -> Row] /\ users'[u] = row /\ \A v \in Users \ {u} : users'[v] = users[v]
  BY <1>1 DEF Write
<1>3. ASSUME NEW j \in Jobs
      PROVE  /\ admitted'[j] \in AdmittedType
             /\ admitted'[j].user = admitted[j].user
             /\ admitted'[j].kept \subseteq admitted[j].kept
             /\ admitted[j].user = u =>
                  \A f \in admitted'[j].kept : row[f] # 0
  BY <1>1 DEF Write, AdmittedType, Same
<1>4. admitted' \in [Jobs -> AdmittedType]
  <2>1. admitted' = [j \in Jobs |-> admitted'[j]]
    BY DEF Write
  <2> QED
    BY <1>3, <2>1
<1>5. ASSUME NEW j \in Jobs PROVE JobHolds(j)'
  <2>1. JobHolds(j) /\ UNCHANGED <<job, used>>
    BY DEF JobsHold, work
  <2>2. job[j].user \in Users \cup {NoUser}
    BY DEF TypeOK
  <2>3. ASSUME NEW f \in admitted'[j].kept
        PROVE  /\ users'[job[j].user][f] # 0
               /\ f \in LoadedBy(job[j].pc) => job[j].loaded[f] # 0
    <3>1. f \in admitted[j].kept /\ job[j].user \in Users
      BY <1>3, <2>1, <2>2 DEF JobHolds
    <3>2. users'[job[j].user][f] # 0
      BY <1>2, <1>3, <2>1, <3>1 DEF JobHolds
    <3> QED
      BY <2>1, <3>1, <3>2 DEF JobHolds
  <2>4. job[j].user = NoUser => admitted'[j].kept = {}
    BY <1>3, <2>1 DEF JobHolds
  <2>5. \A k \in Calls : Rightful(j, k)' = Rightful(j, k)
    BY <1>3, <2>1 DEF Rightful
  <2> QED
    BY <1>3, <2>1, <2>3, <2>4, <2>5 DEF JobHolds
<1> QED
  BY <1>2, <1>4, <1>5 DEF JobsHold

\* A step that touches no job and no process.
LEMMA WorkStays ==
  ASSUME TypeInv, UNCHANGED work, JobsHold',
         users' \in [Users -> Row], minted' \in 1..MaxMinted,
         revoked' \subseteq Users \X (1..MaxMinted),
         cookie' \in [Clients -> Users \cup {NoUser}],
         request' \in [Clients -> RequestType], Requests',
         admitted' \in [Jobs -> AdmittedType],
         dead' \subseteq Users \X Fields \X (1..MaxMinted)
  PROVE  TypeInv'
<1>1. UNCHANGED <<job, holds, ctx, embedder, used>>
  BY DEF work
<1>2. TypeOK'
  BY <1>1 DEF TypeInv, TypeOK, RequestType, AdmittedType
<1>3. Workers' /\ Contexts'
  BY <1>1 DEF TypeInv, Workers, Contexts, ContextOf
<1> QED
  BY <1>2, <1>3 DEF TypeInv

\* Nor any row.
LEMMA RowsStay ==
  ASSUME TypeInv, UNCHANGED <<users, work, admitted>>
  PROVE  JobsHold'
  BY DEF TypeInv, JobsHold, JobHolds, Rightful, work

\* The values a row holds are credentials of its user.
LEMMA ValuesType ==
  ASSUME NEW u \in Users, NEW row \in Row
  PROVE  Values(u, row) \subseteq Users \X Fields \X (1..MaxMinted)
  BY Rows DEF Values, Row

-----------------------------------------------------------------------------
(* The browsers' steps keep the invariant on types and jobs.               *)

LEMMA AuthenticateType ==
  ASSUME TypeInv, NEW c \in Clients, Authenticate(c)
  PROVE  TypeInv'
<1> USE DEF TypeInv, TypeOK, Authenticate, account, history
<1> DEFINE r == [step |-> "authenticated", user |-> cookie[c], seen |-> users[cookie[c]]]
<1>1. r \in RequestType /\ r.user # NoUser /\ request' = [request EXCEPT ![c] = r]
  BY DEF RequestType
<1> HIDE DEF r
<1>2. request' \in [Clients -> RequestType] /\ Requests'
  BY <1>1, RequestStep
<1>3. UNCHANGED <<users, minted, revoked, cookie, work, admitted, dead>>
  OBVIOUS
<1> QED
  BY <1>2, <1>3, RowsStay, WorkStays DEF AdmittedType

LEMMA ExchangeType ==
  ASSUME TypeInv, NEW c \in Clients, NEW u \in Users, Exchange(c, u)
  PROVE  TypeInv'
<1> USE DEF TypeInv, TypeOK, Exchange, history
<1> DEFINE r == [step |-> "upsert", user |-> u, seen |-> [EmptyRow EXCEPT !.token = minted + 1]]
<1>1. minted + 1 \in 1..MaxMinted /\ minted' = minted + 1
  BY Rows
<1>2. r \in RequestType /\ r.user # NoUser /\ request' = [request EXCEPT ![c] = r]
  BY <1>1, Rows, UsersAssumption DEF RequestType, Row
<1> HIDE DEF r
<1>3. request' \in [Clients -> RequestType] /\ Requests'
  BY <1>2, RequestStep
<1>4. UNCHANGED <<users, revoked, cookie, work, admitted, dead>>
  OBVIOUS
<1> QED
  BY <1>1, <1>3, <1>4, RowsStay, WorkStays DEF AdmittedType

LEMMA UpsertType ==
  ASSUME TypeInv, NEW c \in Clients, UpsertOauthUser(c)
  PROVE  TypeInv'
<1> DEFINE u == request[c].user
           row == [users[u] EXCEPT !.token = request[c].seen.token]
<1>1. /\ request[c].step = "upsert" /\ Write(u, row) /\ EndRequest(c)
      /\ cookie' = [cookie EXCEPT ![c] = u]
      /\ UNCHANGED <<minted, revoked, work, dead>>
  BY DEF UpsertOauthUser
<1>2. u \in Users /\ request[c].seen \in Row
  BY <1>1, RequestFacts
<1>3. row \in Row
  BY <1>2 DEF TypeInv, TypeOK, Row, Fields
<1> HIDE DEF u, row
<1>4. users' \in [Users -> Row] /\ admitted' \in [Jobs -> AdmittedType] /\ JobsHold'
  BY <1>1, <1>2, <1>3, WriteFacts
<1>5. request' \in [Clients -> RequestType] /\ Requests'
  BY <1>1, EndRequestStep
<1> QED
  BY <1>1, <1>2, <1>4, <1>5, WorkStays DEF TypeInv, TypeOK

LEMMA RevokeType ==
  ASSUME TypeInv, NEW c \in Clients, RevokeGithubToken(c)
  PROVE  TypeInv'
<1> DEFINE r == [request[c] EXCEPT !.step = "clear"]
<1>1. /\ request[c].step = "authenticated"
      /\ request' = [request EXCEPT ![c] = r]
      /\ UNCHANGED <<users, minted, cookie, work, admitted, dead>>
  BY DEF RevokeGithubToken, Goto, history
<1>2. request[c].user \in Users /\ request[c] \in RequestType
  BY <1>1, RequestFacts
<1>3. r \in RequestType /\ r.user # NoUser
  BY <1>2, UsersAssumption DEF RequestType
<1> HIDE DEF r
<1>4. request' \in [Clients -> RequestType] /\ Requests'
  BY <1>1, <1>3, RequestStep
<1>5. revoked' \subseteq Users \X (1..MaxMinted)
  <2>1. request[c].seen.token \in 0..MaxMinted
    BY <1>2 DEF RequestType, Row, Fields
  <2> QED
    BY <1>2, <2>1, Rows DEF RevokeGithubToken, TypeInv, TypeOK
<1> QED
  BY <1>1, <1>4, <1>5, RowsStay, WorkStays DEF TypeInv, TypeOK, AdmittedType

LEMMA ClearType ==
  ASSUME TypeInv, NEW c \in Clients, ClearAccessToken(c)
  PROVE  TypeInv'
<1> DEFINE u == request[c].user
           row == Cleared(users[u], request[c].seen)
<1>1. /\ request[c].step = "clear" /\ Write(u, row) /\ EndRequest(c)
      /\ dead' = dead \cup Values(u, request[c].seen)
      /\ cookie' = [cookie EXCEPT ![c] = NoUser]
      /\ UNCHANGED <<minted, revoked, work>>
  BY DEF ClearAccessToken
<1>2. u \in Users /\ request[c].seen \in Row
  BY <1>1, RequestFacts
<1>3. row \in Row
  BY <1>2, Rows DEF TypeInv, TypeOK, Row, Cleared
<1>4. dead' \subseteq Users \X Fields \X (1..MaxMinted)
  BY <1>1, <1>2, ValuesType DEF TypeInv, TypeOK
<1> HIDE DEF u, row
<1>5. users' \in [Users -> Row] /\ admitted' \in [Jobs -> AdmittedType] /\ JobsHold'
  BY <1>1, <1>2, <1>3, WriteFacts
<1>6. request' \in [Clients -> RequestType] /\ Requests'
  BY <1>1, EndRequestStep
<1> QED
  BY <1>1, <1>4, <1>5, <1>6, WorkStays DEF TypeInv, TypeOK

LEMMA SetKeysType ==
  ASSUME TypeInv, NEW c \in Clients, NEW fresh \in SUBSET ProviderKeys, SetProviderKeys(c, fresh)
  PROVE  TypeInv'
<1> DEFINE u == request[c].user
           row == WithKeys(users[u], request[c].seen, fresh, minted + 1)
<1>1. /\ request[c].step = "authenticated" /\ Write(u, row) /\ EndRequest(c)
      /\ minted + 1 <= MaxMinted /\ minted' = minted + 1
      /\ UNCHANGED <<revoked, cookie, work, dead>>
  BY DEF SetProviderKeys
<1>2. u \in Users /\ minted + 1 \in 1..MaxMinted
  BY <1>1, RequestFacts, Rows DEF TypeInv, TypeOK
<1>3. row \in Row
  BY <1>2, Rows DEF TypeInv, TypeOK, Row, WithKeys
<1> HIDE DEF u, row
<1>4. users' \in [Users -> Row] /\ admitted' \in [Jobs -> AdmittedType] /\ JobsHold'
  BY <1>1, <1>2, <1>3, WriteFacts
<1>5. request' \in [Clients -> RequestType] /\ Requests'
  BY <1>1, EndRequestStep
<1> QED
  BY <1>1, <1>2, <1>4, <1>5, WorkStays DEF TypeInv, TypeOK

LEMMA RequestEndsType ==
  ASSUME TypeInv, NEW c \in Clients, RequestFails(c) \/ SessionExpires(c)
  PROVE  TypeInv'
<1>1. UNCHANGED <<users, minted, revoked, work, admitted, dead>>
  BY DEF RequestFails, SessionExpires, account, history
<1>2. request' \in [Clients -> RequestType] /\ Requests'
  BY EndRequestStep DEF RequestFails, SessionExpires, TypeInv, TypeOK, RequestType, Requests
<1>3. cookie' \in [Clients -> Users \cup {NoUser}]
  BY DEF RequestFails, SessionExpires, TypeInv, TypeOK
<1> QED
  BY <1>1, <1>2, <1>3, RowsStay, WorkStays DEF TypeInv, TypeOK, AdmittedType

-----------------------------------------------------------------------------
(* The jobs' steps keep it.                                                *)

Running == Loading \cup {"begin"} \cup InGraph

\* The parts of the types that a step of a job touches.
LEMMA AccountStays ==
  ASSUME TypeInv, UNCHANGED <<account, cookie, dead>>,
         request' \in [Clients -> RequestType], Requests',
         job' \in [Jobs -> JobType],
         holds' \in [Procs -> Jobs \cup {NoJob}],
         ctx' \in [Procs -> [Fields -> Credentials]],
         embedder' \in [Procs -> Credentials],
         used' \in [Jobs -> [Calls -> Credentials]],
         admitted' \in [Jobs -> AdmittedType],
         \A p \in Procs : holds'[p] = NoJob => ctx'[p] = NoContext,
         JobsHold', Workers', Contexts'
  PROVE  TypeInv'
<1>1. UNCHANGED <<users, minted, revoked, cookie, dead>>
  BY DEF account
<1>2. TypeOK'
  BY <1>1 DEF TypeInv, TypeOK, RequestType, JobType, AdmittedType
<1> QED
  BY <1>2 DEF TypeInv

LEMMA RequestsStay ==
  ASSUME TypeInv, UNCHANGED request
  PROVE  request' \in [Clients -> RequestType] /\ Requests'
  BY DEF TypeInv, TypeOK, RequestType, Requests

\* The types, one by one.
LEMMA TypeFacts ==
  ASSUME TypeInv
  PROVE  /\ users \in [Users -> Row]
         /\ job \in [Jobs -> JobType]
         /\ holds \in [Procs -> Jobs \cup {NoJob}]
         /\ ctx \in [Procs -> [Fields -> Credentials]]
         /\ embedder \in [Procs -> Credentials]
         /\ used \in [Jobs -> [Calls -> Credentials]]
         /\ admitted \in [Jobs -> AdmittedType]
         /\ \A p \in Procs : holds[p] = NoJob => ctx[p] = NoContext
  BY DEF TypeInv, TypeOK, JobType, AdmittedType

\* The other jobs.
LEMMA OtherJobs ==
  ASSUME TypeInv, users' = users, NEW j \in Jobs,
         \A i \in Jobs \ {j} : UNCHANGED <<job[i], used[i], admitted[i]>>,
         JobHolds(j)'
  PROVE  JobsHold'
<1> SUFFICES ASSUME NEW i \in Jobs \ {j} PROVE JobHolds(i)'
  BY DEF JobsHold
<1> QED
  BY DEF TypeInv, JobsHold, JobHolds, Rightful

\* A job that no process runs changes.
LEMMA FreeJob ==
  ASSUME TypeInv, NEW j \in Jobs, job[j].pc \notin Running,
         \A i \in Jobs \ {j} : job'[i] = job[i], UNCHANGED <<holds, ctx>>
  PROVE  Workers' /\ Contexts'
<1>1. ASSUME NEW p \in Procs, holds[p] # NoJob
      PROVE  holds[p] \in Jobs \ {j} /\ job'[holds[p]] = job[holds[p]]
  BY <1>1, TypeFacts DEF TypeInv, Workers, Running
<1>2. Workers'
  BY <1>1 DEF TypeInv, Workers
<1>3. Contexts'
  BY <1>1 DEF TypeInv, Contexts, ContextOf
<1> QED
  BY <1>2, <1>3

\* A process goes on with its job, or gives it up.
LEMMA OwnJob ==
  ASSUME TypeInv, NEW p \in Procs, NEW j \in Jobs, holds[p] = j,
         \A q \in Procs \ {p} : UNCHANGED <<holds[q], ctx[q]>>,
         \A i \in Jobs \ {j} : job'[i] = job[i],
         holds'[p] \in {j, NoJob}, holds'[p] = j => job'[j].pc \in Running,
         ContextOf(p)'
  PROVE  Workers' /\ Contexts'
<1>0. j # NoJob
  BY JobsAssumption
<1>1. ASSUME NEW q \in Procs \ {p}, holds[q] # NoJob
      PROVE  holds[q] \in Jobs \ {j} /\ job'[holds[q]] = job[holds[q]]
  BY <1>0, <1>1, TypeFacts DEF TypeInv, Workers
<1>2. Workers'
  <2>1. \A q \in Procs : holds'[q] # NoJob => job'[holds'[q]].pc \in Running
    BY <1>1 DEF TypeInv, Workers, Running
  <2>2. ASSUME NEW q \in Procs, NEW r \in Procs, holds'[q] = holds'[r], holds'[q] # NoJob
        PROVE  q = r
    <3>1. q # p => holds'[q] = holds[q]
      OBVIOUS
    <3>2. r # p => holds'[r] = holds[r]
      OBVIOUS
    <3>3. holds[q] = holds[r] /\ holds[q] # NoJob => q = r
      BY DEF TypeInv, Workers
    <3> QED
      BY <1>0, <1>1, <2>2, <3>1, <3>2, <3>3
  <2> QED
    BY <2>1, <2>2 DEF Workers, Running
<1>3. \A q \in Procs \ {p} : ContextOf(q)'
  BY <1>1 DEF TypeInv, Contexts, ContextOf
<1> QED
  BY <1>2, <1>3 DEF Contexts

LEMMA AdmitType ==
  ASSUME TypeInv, NEW j \in Jobs, NEW u \in Users \cup {NoUser}, NEW kept \in SUBSET Fields,
         Admit(j, u, kept), u = NoUser => kept = {},
         \A f \in kept : users[u][f] # 0,
         request' \in [Clients -> RequestType], Requests'
  PROVE  TypeInv'
<1>1. /\ job[j].pc \in {"new", "failed"}
      /\ job' = [job EXCEPT ![j] = [NewJob EXCEPT !.pc = "queued", !.user = u]]
      /\ admitted' = [admitted EXCEPT ![j] = [user |-> u, kept |-> kept]]
      /\ UNCHANGED <<account, cookie, holds, ctx, embedder, used, dead>>
  BY DEF Admit
<1>2. job' \in [Jobs -> JobType] /\ admitted' \in [Jobs -> AdmittedType]
  BY <1>1, TypeFacts, Rows DEF NewJob, JobType, AdmittedType
<1>3. /\ job'[j].pc = "queued" /\ job'[j].user = u /\ job'[j].loaded = EmptyRow
      /\ admitted'[j].user = u /\ admitted'[j].kept = kept
      /\ \A i \in Jobs \ {j} : job'[i] = job[i] /\ admitted'[i] = admitted[i]
  BY <1>1, TypeFacts DEF NewJob
<1>4. JobHolds(j)'
  <2>1. used[j] = NoCalls
    BY <1>1 DEF TypeInv, JobsHold, JobHolds, InGraph
  <2> QED
    BY <1>1, <1>3, <2>1
    DEF JobHolds, LoadedBy, InGraph, Loading, NoCalls, Calls, account
<1>5. JobsHold'
  BY <1>1, <1>3, <1>4, OtherJobs DEF account
<1>6. Workers' /\ Contexts'
  BY <1>1, <1>3, FreeJob DEF Running, Loading, InGraph
<1> QED
  BY <1>1, <1>2, <1>5, <1>6, TypeFacts, AccountStays

LEMMA CreateTaskType ==
  ASSUME TypeInv, NEW c \in Clients, NEW j \in Jobs, CreateTask(c, j)
  PROVE  TypeInv'
<1> DEFINE u == request[c].user
           kept == Same(request[c].seen, users[u])
<1>1. request[c].step = "authenticated" /\ Admit(j, u, kept) /\ EndRequest(c)
  BY DEF CreateTask
<1>2. u \in Users /\ u # NoUser /\ kept \in SUBSET Fields /\ \A f \in kept : users[u][f] # 0
  BY <1>1, RequestFacts, UsersAssumption DEF Same
<1> HIDE DEF u, kept
<1> QED
  BY <1>1, <1>2, EndRequestStep, AdmitType

LEMMA CreateTaskWithoutUserType ==
  ASSUME TypeInv, NEW j \in Jobs, CreateTaskWithoutUser(j)
  PROVE  TypeInv'
  BY AdmitType, RequestsStay DEF CreateTaskWithoutUser

LEMMA RetryType ==
  ASSUME TypeInv, NEW j \in Jobs, RetryFailedTask(j)
  PROVE  TypeInv'
<1>1. /\ job[j].pc = "failed"
      /\ job' = [job EXCEPT ![j] = [NewJob EXCEPT !.pc = "queued", !.user = job[j].user]]
      /\ UNCHANGED <<account, cookie, request, holds, ctx, embedder, used, admitted, dead>>
  BY DEF RetryFailedTask, history
<1>2. job' \in [Jobs -> JobType]
  BY <1>1, TypeFacts, Rows DEF NewJob, JobType
<1>3. /\ job'[j].pc = "queued" /\ job'[j].user = job[j].user /\ job'[j].loaded = EmptyRow
      /\ \A i \in Jobs \ {j} : job'[i] = job[i]
  BY <1>1, TypeFacts DEF NewJob
<1>4. JobHolds(j)'
  <2>1. JobHolds(j) /\ used[j] = NoCalls
    BY <1>1 DEF TypeInv, JobsHold, JobHolds, InGraph
  <2> QED
    BY <1>1, <1>3, <2>1
    DEF JobHolds, LoadedBy, InGraph, Loading, NoCalls, Calls, account
<1>5. JobsHold'
  BY <1>1, <1>3, <1>4, OtherJobs DEF account
<1>6. Workers' /\ Contexts'
  BY <1>1, <1>3, FreeJob DEF Running, Loading, InGraph
<1> QED
  BY <1>1, <1>2, <1>5, <1>6, TypeFacts, RequestsStay, AccountStays

LEMMA ReceiveType ==
  ASSUME TypeInv, NEW p \in Procs, NEW j \in Jobs, Receive(p, j)
  PROVE  TypeInv'
<1> DEFINE to == IF job[j].user = NoUser THEN "begin" ELSE "token"
<1>1. /\ holds[p] = NoJob /\ job[j].pc = "queued"
      /\ job' = [job EXCEPT ![j].pc = to] /\ holds' = [holds EXCEPT ![p] = j]
      /\ UNCHANGED <<account, cookie, request, ctx, embedder, used, admitted, dead>>
  BY DEF Receive, Step, history
<1>2. job' \in [Jobs -> JobType] /\ holds' \in [Procs -> Jobs \cup {NoJob}]
  BY <1>1, TypeFacts DEF JobType, Loading
<1>3. /\ job'[j] = [job[j] EXCEPT !.pc = to] /\ \A i \in Jobs \ {j} : job'[i] = job[i]
      /\ holds'[p] = j /\ \A q \in Procs \ {p} : holds'[q] = holds[q]
  BY <1>1, TypeFacts
<1>4. /\ job'[j].pc = to /\ job'[j].user = job[j].user /\ job'[j].loaded = job[j].loaded
      /\ to \in {"begin", "token"} /\ (to = "token" => job[j].user # NoUser)
  BY <1>3, TypeFacts DEF JobType
<1> HIDE DEF to
<1>5. JobHolds(j)'
  <2>1. JobHolds(j) /\ used[j] = NoCalls
    BY <1>1 DEF TypeInv, JobsHold, JobHolds, InGraph
  <2>2. to = "begin" => job[j].user = NoUser
    BY <1>1, <1>4, TypeFacts DEF to, JobType
  <2> QED
    BY <1>1, <1>4, <2>1, <2>2
    DEF JobHolds, LoadedBy, InGraph, Loading, NoCalls, Calls, account
<1>6. JobsHold'
  BY <1>1, <1>3, <1>5, OtherJobs DEF account
<1>7. ASSUME NEW q \in Procs, holds[q] # NoJob PROVE holds[q] \in Jobs \ {j}
  BY <1>1, <1>7, TypeFacts DEF TypeInv, Workers, Loading, InGraph
<1>8. j # NoJob
  BY JobsAssumption
<1>9. Workers'
  <2>1. \A q \in Procs : holds'[q] # NoJob => job'[holds'[q]].pc \in Running
    <3>1. job'[holds'[p]].pc \in Running
      BY <1>3, <1>4 DEF Running, Loading
    <3>2. ASSUME NEW q \in Procs \ {p}, holds[q] # NoJob PROVE job'[holds[q]].pc \in Running
      BY <1>3, <1>7, <3>2 DEF TypeInv, Workers, Running
    <3> QED
      BY <1>3, <3>1, <3>2
  <2>2. ASSUME NEW q \in Procs, NEW r \in Procs, holds'[q] = holds'[r], holds'[q] # NoJob
        PROVE  q = r
    BY <1>3, <1>7, <2>2 DEF TypeInv, Workers
  <2> QED
    BY <2>1, <2>2 DEF Workers, Running
<1>10. Contexts'
  <2>1. ContextOf(p)'
    BY <1>1, <1>3, <1>4, TypeFacts DEF ContextOf, InGraph
  <2>2. ASSUME NEW q \in Procs \ {p} PROVE ContextOf(q)'
    BY <1>1, <1>3, <1>7 DEF TypeInv, Contexts, ContextOf
  <2> QED
    BY <2>1, <2>2 DEF Contexts
<1> QED
  BY <1>1, <1>2, <1>3, <1>6, <1>8, <1>9, <1>10, TypeFacts, RequestsStay, AccountStays

LEMMA LoadType ==
  ASSUME TypeInv, NEW p \in Procs, NEW j \in Jobs, holds[p] = j, NEW f \in Fields, Load(j, f)
  PROVE  TypeInv'
<1> DEFINE v == users[job[j].user][f]
<1>1. /\ job[j].pc = f
      /\ job' = [job EXCEPT ![j].pc = AfterLoad(f), ![j].loaded[f] = v]
      /\ UNCHANGED <<account, cookie, request, holds, ctx, embedder, used, admitted, dead>>
  BY DEF Load, history
<1>2. JobHolds(j) /\ job[j] \in JobType /\ f \in Loading
  BY TypeFacts DEF TypeInv, JobsHold, Fields, Loading
<1>3. job[j].user \in Users /\ v \in 0..MaxMinted
  BY <1>1, <1>2, TypeFacts DEF JobHolds, JobType, Row
<1>4. AfterLoad(f) \in Loading \cup {"begin"}
  BY DEF Fields, AfterLoad, Loading
<1> HIDE DEF v
<1>5. /\ job'[j].pc = AfterLoad(f) /\ job'[j].user = job[j].user
      /\ job'[j].loaded = [job[j].loaded EXCEPT ![f] = v]
      /\ \A i \in Jobs \ {j} : job'[i] = job[i]
  BY <1>1, <1>2, TypeFacts DEF JobType
<1>6. job' \in [Jobs -> JobType]
  <2>1. [job[j].loaded EXCEPT ![f] = v] \in Row
    BY <1>2, <1>3 DEF JobType, Row
  <2> QED
    BY <1>1, <1>2, <1>4, <2>1, TypeFacts DEF JobType
<1>7. JobHolds(j)'
  <2>1. used[j] = NoCalls
    BY <1>1, <1>2 DEF JobHolds, Loading, InGraph
  <2>2. ASSUME NEW g \in admitted[j].kept
        PROVE  g \in LoadedBy(AfterLoad(f)) => job'[j].loaded[g] # 0
    <3>1. g \in Fields /\ users[job[j].user][g] # 0
      BY <1>2, TypeFacts DEF JobHolds, AdmittedType
    <3>2. CASE g = f
      BY <1>2, <1>3, <1>5, <3>1, <3>2 DEF v, JobType, Row
    <3>3. CASE g # f
      <4>1. g \in LoadedBy(AfterLoad(f)) => g \in LoadedBy(f)
        BY <3>1, <3>3 DEF Fields, AfterLoad, LoadedBy, InGraph
      <4>2. job'[j].loaded[g] = job[j].loaded[g]
        BY <1>2, <1>5, <3>1, <3>3 DEF JobType, Row
      <4> QED
        BY <1>1, <1>2, <4>1, <4>2 DEF JobHolds
    <3> QED
      BY <3>2, <3>3
  <2>3. used'[j] = NoCalls /\ \A k \in Calls : NoCalls[k] = Nothing
    BY <1>1, <2>1 DEF NoCalls
  <2>4. job[j].user # NoUser
    BY <1>3, UsersAssumption
  <2> QED
    BY <1>1, <1>2, <1>5, <2>2, <2>3, <2>4 DEF JobHolds, account
<1>8. JobsHold'
  BY <1>1, <1>5, <1>7, OtherJobs DEF account
<1>9. ContextOf(p)'
  <2>1. ctx[p] = NoContext
    BY <1>1, <1>2, JobsAssumption DEF TypeInv, Contexts, ContextOf, Loading, InGraph
  <2> QED
    BY <1>1, <1>4, <1>5, <2>1 DEF ContextOf, Loading, InGraph
<1>10. Workers' /\ Contexts'
  <2>1. holds' = holds /\ ctx' = ctx
    BY <1>1 DEF history
  <2>2. job'[j].pc \in Running
    BY <1>4, <1>5 DEF Running
  <2> QED
    BY <1>5, <1>9, <2>1, <2>2, OwnJob
<1> QED
  BY <1>1, <1>6, <1>8, <1>10, TypeFacts, RequestsStay, AccountStays

LEMMA EnterContextType ==
  ASSUME TypeInv, NEW p \in Procs, NEW j \in Jobs, holds[p] = j, EnterContext(p, j)
  PROVE  TypeInv'
<1> DEFINE c == [f \in Fields |->
                   IF job[j].loaded[f] = 0 THEN Nothing ELSE <<job[j].user, job[j].loaded[f]>>]
<1>1. /\ job[j].pc = "begin"
      /\ job' = [job EXCEPT ![j].pc = "assert"] /\ ctx' = [ctx EXCEPT ![p] = c]
      /\ UNCHANGED <<account, cookie, request, holds, embedder, used, admitted, dead>>
  BY DEF EnterContext, Step, history
<1>2. JobHolds(j) /\ job[j] \in JobType
  BY TypeFacts DEF TypeInv, JobsHold
<1>3. c \in [Fields -> Credentials]
  <2> SUFFICES ASSUME NEW f \in Fields, job[j].loaded[f] # 0
               PROVE  <<job[j].user, job[j].loaded[f]>> \in Credentials
    BY Rows
  <2>1. job[j].loaded[f] \in 1..MaxMinted
    BY <1>2, Rows DEF JobType, Row
  <2>2. job[j].user \in Users
    BY <1>2 DEF JobHolds, JobType, EmptyRow
  <2> QED
    BY <2>1, <2>2 DEF Credentials
<1>4. ctx' \in [Procs -> [Fields -> Credentials]] /\ ctx'[p] = c
      /\ \A q \in Procs \ {p} : ctx'[q] = ctx[q]
  BY <1>1, <1>3, TypeFacts
<1>5. job' \in [Jobs -> JobType]
  <2>1. [job[j] EXCEPT !.pc = "assert"] \in JobType
    BY <1>2 DEF JobType, InGraph
  <2> QED
    BY <1>1, <2>1, TypeFacts
<1>6. /\ job'[j].pc = "assert" /\ job'[j].user = job[j].user
      /\ job'[j].loaded = job[j].loaded
      /\ \A i \in Jobs \ {j} : job'[i] = job[i]
  BY <1>1, <1>2, TypeFacts DEF JobType
<1>7. JobHolds(j)'
  <2>1. used[j] = NoCalls /\ \A k \in Calls : NoCalls[k] = Nothing
    BY <1>1, <1>2 DEF JobHolds, InGraph, NoCalls
  <2> QED
    BY <1>1, <1>2, <1>6, <2>1 DEF JobHolds, LoadedBy, InGraph, Loading, account
<1>8. JobsHold'
  BY <1>1, <1>6, <1>7, OtherJobs DEF account
<1>9. ContextOf(p)'
  BY <1>1, <1>4, <1>6 DEF ContextOf, InGraph
<1>10. Workers' /\ Contexts'
  BY <1>1, <1>4, <1>6, <1>9, OwnJob DEF Running, InGraph
<1>11. \A q \in Procs : holds'[q] = NoJob => ctx'[q] = NoContext
  BY <1>1, <1>4, JobsAssumption, TypeFacts
<1> HIDE DEF c
<1> QED
  BY <1>1, <1>4, <1>5, <1>8, <1>10, <1>11, TypeFacts, RequestsStay, AccountStays

-----------------------------------------------------------------------------
(* The graph: what a call of a job finds.                                  *)

\* The context variable, which holds what was loaded, else the server's.
LEMMA ResolveFacts ==
  ASSUME TypeInv, NEW p \in Procs, NEW j \in Jobs, holds[p] = j, job[j].pc \in InGraph,
         NEW f \in Fields
  PROVE  /\ Resolve(p, f) \in Credentials
         /\ job[j].loaded[f] # 0 => Resolve(p, f) = <<admitted[j].user, job[j].loaded[f]>>
         /\ job[j].loaded[f] = 0 => Resolve(p, f) \in {Server, Nothing}
<1>1. ctx[p][f] = IF job[j].loaded[f] = 0 THEN Nothing ELSE <<job[j].user, job[j].loaded[f]>>
  BY JobsAssumption DEF TypeInv, Contexts, ContextOf
<1>2. job[j].user = admitted[j].user
  BY DEF TypeInv, JobsHold, JobHolds
<1>3. <<job[j].user, job[j].loaded[f]>> = Nothing => job[j].loaded[f] = 0
  BY DEF Nothing
<1>4. ctx[p][f] \in Credentials
  BY TypeFacts
<1> QED
  BY <1>1, <1>2, <1>3, <1>4, Rows DEF Resolve

\* A step of the graph whose calls are made with the values of this run.
LEMMA GraphStep ==
  ASSUME TypeInv, NEW p \in Procs, NEW j \in Jobs, holds[p] = j, job[j].pc \in InGraph,
         NEW to \in InGraph, job' = [job EXCEPT ![j].pc = to],
         UNCHANGED <<account, cookie, request, holds, ctx, history>>,
         embedder' \in [Procs -> Credentials],
         used' \in [Jobs -> [Calls -> Credentials]],
         \A i \in Jobs \ {j} : used'[i] = used[i],
         \A k \in Calls \ {"search"} : used'[j][k] \in {used[j][k], Nothing, Rightful(j, k)}
  PROVE  TypeInv'
<1>1. UNCHANGED <<users, admitted, dead>>
  BY DEF account, history
<1>2. JobHolds(j) /\ job[j] \in JobType
  BY TypeFacts DEF TypeInv, JobsHold
<1>3. job' \in [Jobs -> JobType]
  <2>1. [job[j] EXCEPT !.pc = to] \in JobType
    BY <1>2 DEF JobType
  <2> QED
    BY <2>1, TypeFacts
<1>4. /\ job'[j].pc = to /\ job'[j].user = job[j].user /\ job'[j].loaded = job[j].loaded
      /\ \A i \in Jobs \ {j} : job'[i] = job[i]
  BY <1>2, TypeFacts DEF JobType
<1>5. JobHolds(j)'
  <2>1. LoadedBy(to) = Fields /\ LoadedBy(job[j].pc) = Fields /\ to \notin Loading
    BY DEF LoadedBy, InGraph, Loading
  <2>2. \A k \in Calls : Rightful(j, k)' = Rightful(j, k)
    BY <1>1, <1>4 DEF Rightful
  <2>3. \A k \in Calls \ {"search"} : used'[j][k] \in {Nothing, Rightful(j, k)}
    BY <1>2 DEF JobHolds
  <2> QED
    BY <1>1, <1>2, <1>4, <2>1, <2>2, <2>3 DEF JobHolds
<1>6. JobsHold'
  BY <1>1, <1>4, <1>5, OtherJobs
<1>7. ContextOf(p)'
  <2>1. ContextOf(p)
    BY DEF TypeInv, Contexts
  <2> QED
    BY <1>4, <2>1 DEF ContextOf
<1>8. Workers' /\ Contexts'
  BY <1>4, <1>7, OwnJob DEF Running
<1> QED
  BY <1>1, <1>3, <1>6, <1>8, TypeFacts, RequestsStay, AccountStays

LEMMA GraphType ==
  ASSUME TypeInv, NEW p \in Procs, NEW j \in Jobs, holds[p] = j,
         \/ AssertKeys(p, j) \/ Plan(p, j) \/ SyncRepo(p, j) \/ SearchForPlan(p, j)
         \/ WriteCode(p, j) \/ CreatePr(p, j)
  PROVE  TypeInv'
<1> USE DEF Step, Uses
<1>t. /\ job \in [Jobs -> JobType] /\ used \in [Jobs -> [Calls -> Credentials]]
      /\ embedder \in [Procs -> Credentials] /\ used[j] \in [Calls -> Credentials]
  BY TypeFacts
<1>k. /\ "github" \in Calls /\ "model" \in Calls /\ "index" \in Calls /\ "search" \in Calls
      /\ "token" \in Fields /\ "groq" \in Fields /\ "jina" \in Fields
  BY DEF Calls, Fields
<1>r. ASSUME job[j].pc \in InGraph
      PROVE  /\ Resolve(p, "token") \in Credentials \cap {Nothing, Rightful(j, "github")}
             /\ Resolve(p, "groq") \in Credentials \cap {Nothing, Rightful(j, "model")}
             /\ Resolve(p, "jina") \in Credentials \cap {Nothing, Rightful(j, "index")}
  BY <1>k, <1>r, ResolveFacts DEF Rightful, FieldOf
<1>1. CASE AssertKeys(p, j)
  <2>1. job[j].pc \in InGraph /\ "plan" \in InGraph
    BY <1>1 DEF AssertKeys, InGraph
  <2> QED
    BY <1>1, <1>t, <2>1, GraphStep DEF AssertKeys
<1>2. CASE Plan(p, j)
  <2>1. job[j].pc \in InGraph /\ "index" \in InGraph
    BY <1>2 DEF Plan, InGraph
  <2>2. used' = [used EXCEPT ![j].github = Resolve(p, "token"), ![j].model = Resolve(p, "groq")]
    BY <1>2 DEF Plan
  <2>3. /\ used'[j] = [used[j] EXCEPT !.github = Resolve(p, "token"), !.model = Resolve(p, "groq")]
        /\ \A i \in Jobs \ {j} : used'[i] = used[i]
    BY <1>t, <2>2
  <2>4. used' \in [Jobs -> [Calls -> Credentials]]
    BY <1>t, <1>r, <2>1, <2>2
  <2>5. \A k \in Calls \ {"search"} : used'[j][k] \in {used[j][k], Nothing, Rightful(j, k)}
    BY <1>t, <1>k, <1>r, <2>1, <2>3
  <2> QED
    BY <1>2, <1>t, <2>1, <2>3, <2>4, <2>5, GraphStep DEF Plan
<1>3. CASE SyncRepo(p, j)
  <2>1. job[j].pc \in InGraph /\ "search" \in InGraph
    BY <1>3 DEF SyncRepo, InGraph
  <2>2. used' = [used EXCEPT ![j]["index"] = Resolve(p, "jina")]
    BY <1>3 DEF SyncRepo
  <2>3. used' \in [Jobs -> [Calls -> Credentials]]
    BY <1>t, <1>r, <2>1, <2>2
  <2>4. \A k \in Calls \ {"search"} : used'[j][k] \in {used[j][k], Nothing, Rightful(j, k)}
    BY <1>t, <1>k, <1>r, <2>1, <2>2
  <2>5. \A i \in Jobs \ {j} : used'[i] = used[i]
    BY <1>t, <2>2
  <2> QED
    BY <1>3, <1>t, <2>1, <2>3, <2>4, <2>5, GraphStep DEF SyncRepo
<1>4. CASE SearchForPlan(p, j)
  <2>1. job[j].pc \in InGraph /\ "write" \in InGraph
    BY <1>4 DEF SearchForPlan, InGraph
  <2>2. /\ embedder' = [embedder EXCEPT ![p] = IF @ = Nothing THEN Resolve(p, "jina") ELSE @]
        /\ used' = [used EXCEPT ![j]["search"] = embedder'[p]]
    BY <1>4 DEF SearchForPlan
  <2>3. embedder' \in [Procs -> Credentials] /\ embedder'[p] \in Credentials
    BY <1>t, <1>r, <2>1, <2>2
  <2>4. used' \in [Jobs -> [Calls -> Credentials]]
    BY <1>t, <2>2, <2>3
  <2>5. \A k \in Calls \ {"search"} : used'[j][k] = used[j][k]
    BY <1>t, <2>2
  <2>6. \A i \in Jobs \ {j} : used'[i] = used[i]
    BY <1>t, <2>2
  <2>7. /\ job' = [job EXCEPT ![j].pc = "write"]
        /\ UNCHANGED <<account, cookie, request, holds, ctx, history>>
    BY <1>4 DEF SearchForPlan
  <2> QED
    BY <2>1, <2>3, <2>4, <2>5, <2>6, <2>7, GraphStep
<1>5. CASE WriteCode(p, j)
  <2>1. job[j].pc \in InGraph /\ "publish" \in InGraph
    BY <1>5 DEF WriteCode, InGraph
  <2>2. used' = [used EXCEPT ![j]["model"] = Resolve(p, "groq")]
    BY <1>5 DEF WriteCode
  <2>3. used' \in [Jobs -> [Calls -> Credentials]]
    BY <1>t, <1>r, <2>1, <2>2
  <2>4. \A k \in Calls \ {"search"} : used'[j][k] \in {used[j][k], Nothing, Rightful(j, k)}
    BY <1>t, <1>k, <1>r, <2>1, <2>2
  <2>5. \A i \in Jobs \ {j} : used'[i] = used[i]
    BY <1>t, <2>2
  <2> QED
    BY <1>5, <1>t, <2>1, <2>3, <2>4, <2>5, GraphStep DEF WriteCode
<1>6. CASE CreatePr(p, j)
  <2>1. job[j].pc \in InGraph /\ "over" \in InGraph
    BY <1>6 DEF CreatePr, InGraph
  <2>2. used' = [used EXCEPT ![j]["github"] = Resolve(p, "token")]
    BY <1>6 DEF CreatePr
  <2>3. used' \in [Jobs -> [Calls -> Credentials]]
    BY <1>t, <1>r, <2>1, <2>2
  <2>4. \A k \in Calls \ {"search"} : used'[j][k] \in {used[j][k], Nothing, Rightful(j, k)}
    BY <1>t, <1>k, <1>r, <2>1, <2>2
  <2>5. \A i \in Jobs \ {j} : used'[i] = used[i]
    BY <1>t, <2>2
  <2> QED
    BY <1>6, <1>t, <2>1, <2>3, <2>4, <2>5, GraphStep DEF CreatePr
<1> QED
  BY <1>1, <1>2, <1>3, <1>4, <1>5, <1>6

\* A job is left: the process has no context, and the name of the job is free or
\* waits for a retry of its user.
LEMMA LeaveType ==
  ASSUME TypeInv, NEW p \in Procs, NEW j \in Jobs, holds[p] = j,
         NEW to \in {"new", "failed"}, LeaveContext(p, j, to),
         embedder' \in [Procs -> Credentials], UNCHANGED dead,
         \/ to = "new" /\ admitted' = [admitted EXCEPT ![j] = Unknown]
         \/ to = "failed" /\ UNCHANGED admitted
  PROVE  TypeInv'
<1> DEFINE u == IF to = "failed" THEN job[j].user ELSE NoUser
           r == [NewJob EXCEPT !.pc = to, !.user = u]
<1>1. /\ job' = [job EXCEPT ![j] = r]
      /\ holds' = [holds EXCEPT ![p] = NoJob]
      /\ ctx' = [ctx EXCEPT ![p] = NoContext]
      /\ used' = [used EXCEPT ![j] = NoCalls]
      /\ UNCHANGED <<account, cookie, request, dead>>
  BY DEF LeaveContext
<1>2. JobHolds(j) /\ job[j] \in JobType
  BY TypeFacts DEF TypeInv, JobsHold
<1>3. r \in JobType /\ r.pc = to /\ r.user = u /\ r.loaded = EmptyRow
  BY <1>2, Rows DEF NewJob, JobType
<1> HIDE DEF r
<1>4. /\ job' \in [Jobs -> JobType] /\ holds' \in [Procs -> Jobs \cup {NoJob}]
      /\ ctx' \in [Procs -> [Fields -> Credentials]]
      /\ used' \in [Jobs -> [Calls -> Credentials]]
      /\ admitted' \in [Jobs -> AdmittedType]
  BY <1>1, <1>3, TypeFacts, Rows DEF NoContext, NoCalls
<1>5. /\ job'[j] = r /\ used'[j] = NoCalls /\ holds'[p] = NoJob /\ ctx'[p] = NoContext
      /\ \A i \in Jobs \ {j} : UNCHANGED <<job[i], used[i], admitted[i]>>
      /\ \A q \in Procs \ {p} : UNCHANGED <<holds[q], ctx[q]>>
  BY <1>1, TypeFacts
<1>6. JobHolds(j)'
  <2>1. /\ \A k \in Calls : NoCalls[k] = Nothing
        /\ LoadedBy(to) = {} /\ to \notin Loading \cup InGraph
    BY DEF NoCalls, LoadedBy, InGraph, Loading
  <2>2. CASE to = "new"
    <3>1. admitted'[j] = Unknown /\ u = NoUser
      BY <2>2, TypeFacts
    <3> QED
      BY <1>3, <1>5, <2>1, <3>1 DEF JobHolds, Unknown
  <2>3. CASE to = "failed"
    <3>1. admitted' = admitted /\ users' = users /\ u = job[j].user
      BY <1>1, <2>3 DEF account
    <3> QED
      BY <1>2, <1>3, <1>5, <2>1, <3>1 DEF JobHolds
  <2> QED
    BY <2>2, <2>3
<1>7. JobsHold'
  BY <1>1, <1>5, <1>6, OtherJobs DEF account
<1>8. j # NoJob /\ ContextOf(p)'
  BY <1>5, JobsAssumption DEF ContextOf
<1>9. Workers' /\ Contexts'
  BY <1>5, <1>8, OwnJob
<1> QED
  BY <1>1, <1>4, <1>5, <1>7, <1>9, TypeFacts, RequestsStay, AccountStays

LEMMA JobEndsType ==
  ASSUME TypeInv, NEW p \in Procs, NEW j \in Jobs, holds[p] = j,
         Finish(p, j) \/ JobFails(p, j) \/ WorkerDies(p, j)
  PROVE  TypeInv'
<1>1. CASE Finish(p, j)
  BY <1>1, LeaveType, TypeFacts DEF Finish, LeaveContext
<1>2. CASE JobFails(p, j)
  BY <1>2, LeaveType, TypeFacts DEF JobFails, LeaveContext
<1>3. CASE WorkerDies(p, j)
  BY <1>3, LeaveType, TypeFacts, Rows DEF WorkerDies, LeaveContext
<1> QED
  BY <1>1, <1>2, <1>3

\* No step leaves the types, or breaks what holds of jobs and processes.
LEMMA TypeStep == TypeInv /\ [Next]_vars => TypeInv'
<1> SUFFICES ASSUME TypeInv, [Next]_vars PROVE TypeInv'
  OBVIOUS
<1>1. ASSUME NEW c \in Clients, ClientNext(c) PROVE TypeInv'
  BY <1>1, AuthenticateType, ExchangeType, UpsertType, RevokeType, ClearType, SetKeysType,
     CreateTaskType, RequestEndsType
  DEF ClientNext
<1>2. ASSUME NEW j \in Jobs, CreateTaskWithoutUser(j) \/ RetryFailedTask(j) PROVE TypeInv'
  BY <1>2, CreateTaskWithoutUserType, RetryType
<1>3. ASSUME NEW p \in Procs, holds[p] # NoJob, JobNext(p, holds[p]) PROVE TypeInv'
  <2>1. holds[p] \in Jobs
    BY <1>3, TypeFacts
  <2> QED
    BY <1>3, <2>1, LoadType, EnterContextType, GraphType, JobEndsType DEF JobNext
<1>4. CASE UNCHANGED vars
  <2>1. UNCHANGED <<account, cookie, request, work, history>>
    BY <1>4 DEF vars
  <2> QED
    BY <2>1, RowsStay, RequestsStay, WorkStays
    DEF account, history, TypeInv, TypeOK, AdmittedType
<1> QED
  BY <1>1, <1>2, <1>3, <1>4, ReceiveType DEF Next

\* Type correctness.
THEOREM TypeCorrect == Spec => []TypeOK
<1>1. TypeInv => TypeOK
  BY DEF TypeInv
<1> QED
  BY <1>1, TypeInit, TypeStep, PTL DEF Spec

\* Every model call, index run and GitHub call of a job is made with the values
\* loaded for this very run, else the server's, however many users' jobs the
\* process served before and whoever signs in, out, or changes keys meanwhile
\* (workflow_tasks.py:60-63, user_provider_keys.py:31-41).
THEOREM CallsAreOwn == Spec => []CallsUseOwnKeys
<1>1. TypeInv => CallsUseOwnKeys
  BY DEF TypeInv, JobsHold, JobHolds, CallsUseOwnKeys
<1> QED
  BY <1>1, TypeInit, TypeStep, PTL DEF Spec

\* A job falls back on the server's token or model key only when its user removed
\* or replaced, after the submission, what the submission had found; a retry is
\* no exception (workflow_tasks.py:40).
THEOREM FallbackOnlyAfterRemoval == Spec => []FallbackAfterRemoval
<1>1. ASSUME TypeInv, NEW j \in Jobs, NEW k \in {"github", "model"},
             FieldOf(k) \in admitted[j].kept
      PROVE  used[j][k] # Server
  <2>1. JobHolds(j) /\ admitted[j] \in AdmittedType /\ job[j].user \in Users \cup {NoUser}
    BY <1>1, TypeFacts DEF TypeInv, JobsHold, JobType
  <2>2. k \in Calls \ {"search"} /\ Nothing # Server
    BY Rows DEF Calls
  <2>3. CASE job[j].pc \notin InGraph
    BY <2>1, <2>2, <2>3 DEF JobHolds, NoCalls
  <2>4. CASE job[j].pc \in InGraph
    <3>1. FieldOf(k) \in LoadedBy(job[j].pc)
      BY <1>1, <2>1, <2>4 DEF LoadedBy, InGraph, AdmittedType
    <3>2. job[j].loaded[FieldOf(k)] # 0 /\ admitted[j].user # NoUser
      BY <1>1, <2>1, <3>1 DEF JobHolds
    <3>3. Rightful(j, k) # Server
      BY <3>2 DEF Rightful, Server
    <3> QED
      BY <2>1, <2>2, <3>3 DEF JobHolds
  <2> QED
    BY <2>3, <2>4
<1>2. TypeInv => FallbackAfterRemoval
  <2>1. FieldOf("github") = "token" /\ FieldOf("model") = "groq"
    BY DEF FieldOf
  <2> QED
    BY <1>1, <2>1 DEF FallbackAfterRemoval
<1> QED
  BY <1>2, TypeInit, TypeStep, PTL DEF Spec

-----------------------------------------------------------------------------
(* A sign-out is final.                                                    *)

\* No number is in use that was not made yet.
Numbers ==
  /\ \A u \in Users, f \in Fields : users[u][f] <= minted
  /\ \A c \in Clients, f \in Fields : request[c].seen[f] <= minted
  /\ \A v \in dead : v[3] <= minted

\* The token of a sign-in that did not reach the row is nobody else's: no row, no
\* sign-out and no other request knows it.
Pending ==
  \A c \in Clients : request[c].step = "upsert" =>
    /\ request[c].seen.token # 0
    /\ \A u \in Users : /\ users[u].token # request[c].seen.token
                        /\ <<u, "token", request[c].seen.token>> \notin dead
    /\ \A d \in Clients \ {c} : request[d].seen.token # request[c].seen.token

NotBack ==
  \A u \in Users, f \in Fields : users[u][f] # 0 => <<u, f, users[u][f]>> \notin dead

AccountInv == Numbers /\ Pending /\ NotBack

LEMMA AccountFacts ==
  ASSUME TypeInv
  PROVE  /\ users \in [Users -> Row] /\ minted \in 1..MaxMinted
         /\ request \in [Clients -> RequestType]
         /\ \A c \in Clients : request[c].seen \in Row
         /\ dead \subseteq Users \X Fields \X (1..MaxMinted)
         /\ "token" \in Fields
  BY DEF TypeInv, TypeOK, RequestType, Fields

LEMMA AccountInit == Init => AccountInv
<1> SUFFICES ASSUME Init PROVE AccountInv
  OBVIOUS
<1>1. minted = 1 /\ dead = {}
  BY DEF Init
<1>2. \A u \in Users, f \in Fields : users[u][f] <= 1
  BY DEF Init, EmptyRow, FullRow
<1>3. \A c \in Clients : request[c] = Idle
  BY DEF Init
<1>4. Numbers
  BY <1>1, <1>2, <1>3 DEF Numbers, Idle, EmptyRow
<1>5. Pending /\ NotBack
  BY <1>1, <1>3 DEF Pending, NotBack, Idle
<1> QED
  BY <1>4, <1>5 DEF AccountInv

\* Requests that end, and steps that touch neither a row nor a request.
LEMMA AccountEnds ==
  ASSUME TypeInv, AccountInv, UNCHANGED <<users, minted, dead>>,
         \A c \in Clients : request'[c] = request[c] \/ request'[c] = Idle
  PROVE  AccountInv'
<1>1. \A f \in Fields : Idle.seen[f] = 0
  BY DEF Idle, EmptyRow
<1>2. Idle.seen.token = 0 /\ Idle.step # "upsert"
  BY <1>1 DEF Idle, Fields
<1>3. Numbers'
  BY <1>1, AccountFacts DEF AccountInv, Numbers
<1>4. Pending'
  BY <1>2 DEF AccountInv, Pending
<1>5. NotBack'
  BY DEF AccountInv, NotBack
<1> QED
  BY <1>3, <1>4, <1>5 DEF AccountInv

\* A request loads a row, or goes on with the one it has.
LEMMA AccountLoads ==
  ASSUME TypeInv, AccountInv, UNCHANGED <<users, minted, dead>>, NEW c \in Clients,
         \A d \in Clients \ {c} : request'[d] = request[d],
         request'[c].step # "upsert",
         \/ \E u \in Users : request'[c].seen = users[u]
         \/ request[c].step # "upsert" /\ request'[c].seen = request[c].seen
  PROVE  AccountInv'
<1>1. Numbers'
  BY DEF AccountInv, Numbers
<1>2. Pending'
  <2> SUFFICES ASSUME NEW d \in Clients, request'[d].step = "upsert"
        PROVE  /\ request'[d].seen.token # 0
               /\ \A v \in Users : /\ users[v].token # request'[d].seen.token
                                   /\ <<v, "token", request'[d].seen.token>> \notin dead
               /\ \A e \in Clients \ {d} : request'[e].seen.token # request'[d].seen.token
    BY DEF Pending
  <2>1. d # c /\ request'[d] = request[d]
    OBVIOUS
  <2>2. /\ request[d].seen.token # 0
        /\ \A v \in Users : /\ users[v].token # request[d].seen.token
                            /\ <<v, "token", request[d].seen.token>> \notin dead
        /\ \A e \in Clients \ {d} : request[e].seen.token # request[d].seen.token
    BY <2>1 DEF AccountInv, Pending
  <2>3. request'[c].seen.token # request[d].seen.token
    <3>1. ASSUME NEW u \in Users, request'[c].seen = users[u]
          PROVE  request'[c].seen.token # request[d].seen.token
      BY <2>2, <3>1
    <3>2. ASSUME request'[c].seen = request[c].seen
          PROVE  request'[c].seen.token # request[d].seen.token
      BY <2>1, <2>2, <3>2
    <3> QED
      BY <3>1, <3>2
  <2> QED
    BY <2>1, <2>2, <2>3
<1>3. NotBack'
  BY DEF AccountInv, NotBack
<1> QED
  BY <1>1, <1>2, <1>3 DEF AccountInv

\* The callback: the number is new.
LEMMA AccountExchange ==
  ASSUME TypeInv, AccountInv, NEW c \in Clients, NEW u \in Users, Exchange(c, u)
  PROVE  AccountInv'
<1> DEFINE row == [EmptyRow EXCEPT !.token = minted + 1]
           r == [step |-> "upsert", user |-> u, seen |-> row]
<1>1. minted' = minted + 1 /\ UNCHANGED <<users, dead>> /\ request' = [request EXCEPT ![c] = r]
  BY DEF Exchange, history
<1>2. minted \in Nat /\ MaxMinted \in Nat
  BY AccountFacts, Rows
<1>3. request'[c] = r /\ \A d \in Clients \ {c} : request'[d] = request[d]
  BY <1>1, AccountFacts
<1>4. row.token = minted + 1 /\ \A f \in Fields : row[f] <= minted + 1
  BY <1>2 DEF EmptyRow, Fields
<1>5. /\ \A v \in Users, f \in Fields : users[v][f] \in Nat /\ users[v][f] <= minted
      /\ \A d \in Clients, f \in Fields : request[d].seen[f] \in Nat /\ request[d].seen[f] <= minted
      /\ \A v \in dead : v[3] \in Nat /\ v[3] <= minted
  BY AccountFacts, Rows DEF AccountInv, Numbers, Row
<1> HIDE DEF row
<1>6. r.seen = row /\ r.step = "upsert"
  OBVIOUS
<1> HIDE DEF r
<1>7. Numbers'
  <2>1. \A v \in Users, f \in Fields : users'[v][f] <= minted'
    BY <1>1, <1>2, <1>5
  <2>2. \A d \in Clients, f \in Fields : request'[d].seen[f] <= minted'
    BY <1>1, <1>2, <1>3, <1>4, <1>5, <1>6
  <2>3. \A v \in dead' : v[3] <= minted'
    BY <1>1, <1>2, <1>5
  <2> QED
    BY <2>1, <2>2, <2>3 DEF Numbers
<1>8. Pending'
  <2>1. \A v \in Users : /\ users[v].token # minted + 1
                        /\ <<v, "token", minted + 1>> \notin dead
    BY <1>2, <1>5, AccountFacts
  <2>2. \A d \in Clients : request[d].seen.token # minted + 1
    BY <1>2, <1>5, AccountFacts
  <2>3. ASSUME NEW d \in Clients, request'[d].step = "upsert"
        PROVE  /\ request'[d].seen.token # 0
               /\ \A v \in Users : /\ users'[v].token # request'[d].seen.token
                                   /\ <<v, "token", request'[d].seen.token>> \notin dead'
               /\ \A e \in Clients \ {d} : request'[e].seen.token # request'[d].seen.token
    <3>1. CASE d = c
      BY <1>1, <1>2, <1>3, <1>4, <1>6, <2>1, <2>2, <3>1
    <3>2. CASE d # c
      BY <1>1, <1>3, <1>4, <1>6, <2>2, <2>3, <3>2 DEF AccountInv, Pending
    <3> QED
      BY <3>1, <3>2
  <2> QED
    BY <2>3 DEF Pending
<1>9. NotBack'
  BY <1>1 DEF AccountInv, NotBack
<1> QED
  BY <1>7, <1>8, <1>9 DEF AccountInv

\* A row is written: each value is the one before, none, or one that no sign-out
\* found; and no pending token gets in.
LEMMA AccountWrites ==
  ASSUME TypeInv, AccountInv, TypeInv', NEW c \in Clients, NEW u \in Users, NEW row \in Row,
         users' = [users EXCEPT ![u] = row], EndRequest(c), minted <= minted',
         \A f \in Fields : row[f] <= minted',
         \A v \in dead' : v[3] <= minted',
         \A f \in Fields : row[f] # 0 => <<u, f, row[f]>> \notin dead',
         \A v \in dead' \ dead : v[1] = u /\ v[3] = request[c].seen[v[2]],
         \A d \in Clients \ {c} :
           request[d].step = "upsert" => row.token # request[d].seen.token
  PROVE  AccountInv'
<1>1. /\ \A d \in Clients \ {c} : request'[d] = request[d]
      /\ request'[c] = Idle
  BY AccountFacts DEF EndRequest
<1>2. /\ Idle.step # "upsert" /\ Idle.seen.token = 0
      /\ \A f \in Fields : Idle.seen[f] = 0
  BY DEF Idle, EmptyRow, Fields
<1>3. users'[u] = row /\ \A v \in Users \ {u} : users'[v] = users[v]
  BY AccountFacts
<1>4. minted \in Nat /\ minted' \in Nat /\ MaxMinted \in Nat
  BY Rows DEF TypeInv, TypeOK
<1>5. /\ \A v \in Users, f \in Fields : users[v][f] \in Nat /\ users[v][f] <= minted
      /\ \A d \in Clients, f \in Fields : request[d].seen[f] \in Nat /\ request[d].seen[f] <= minted
  BY AccountFacts, Rows DEF AccountInv, Numbers, Row
<1>6. Numbers'
  <2>1. \A v \in Users, f \in Fields : users'[v][f] <= minted'
    BY <1>3, <1>4, <1>5
  <2>2. \A d \in Clients, f \in Fields : request'[d].seen[f] <= minted'
    BY <1>1, <1>2, <1>4, <1>5
  <2> QED
    BY <2>1, <2>2 DEF Numbers
<1>7. Pending'
  <2> SUFFICES ASSUME NEW d \in Clients, request'[d].step = "upsert"
        PROVE  /\ request'[d].seen.token # 0
               /\ \A v \in Users : /\ users'[v].token # request'[d].seen.token
                                   /\ <<v, "token", request'[d].seen.token>> \notin dead'
               /\ \A e \in Clients \ {d} : request'[e].seen.token # request'[d].seen.token
    BY DEF Pending
  <2>1. d # c /\ request'[d] = request[d]
    BY <1>1, <1>2
  <2>2. /\ request[d].seen.token # 0
        /\ \A v \in Users : /\ users[v].token # request[d].seen.token
                            /\ <<v, "token", request[d].seen.token>> \notin dead
        /\ \A e \in Clients \ {d} : request[e].seen.token # request[d].seen.token
    BY <2>1 DEF AccountInv, Pending
  <2>3. ASSUME NEW v \in Users PROVE <<v, "token", request[d].seen.token>> \notin dead'
    BY <2>1, <2>2
  <2>4. \A v \in Users : users'[v].token # request[d].seen.token
    BY <1>3, <2>1, <2>2
  <2> QED
    BY <1>1, <1>2, <2>1, <2>2, <2>3, <2>4
<1>8. NotBack'
  <2> SUFFICES ASSUME NEW v \in Users, NEW f \in Fields, users'[v][f] # 0
               PROVE  <<v, f, users'[v][f]>> \notin dead'
    BY DEF NotBack
  <2>1. CASE v = u
    BY <1>3, <2>1
  <2>2. CASE v # u
    <3>1. <<v, f, users[v][f]>> \notin dead
      BY <1>3, <2>2 DEF AccountInv, NotBack
    <3> QED
      BY <1>3, <2>2, <3>1
  <2> QED
    BY <2>1, <2>2
<1> QED
  BY <1>6, <1>7, <1>8 DEF AccountInv

LEMMA AccountUpsert ==
  ASSUME TypeInv, AccountInv, TypeInv', NEW c \in Clients, UpsertOauthUser(c)
  PROVE  AccountInv'
<1> DEFINE u == request[c].user
           m == request[c].seen.token
           row == [users[u] EXCEPT !.token = m]
<1>1. /\ request[c].step = "upsert" /\ users' = [users EXCEPT ![u] = row] /\ EndRequest(c)
      /\ UNCHANGED <<minted, dead>>
  BY DEF UpsertOauthUser, Write
<1>2. u \in Users /\ request[c].seen \in Row
  BY <1>1, RequestFacts
<1>3. users[u] \in Row /\ m \in 0..MaxMinted /\ minted \in Nat
  BY <1>2, AccountFacts DEF Row
<1>4. /\ row \in Row /\ row.token = m
      /\ \A f \in Fields \ {"token"} : row[f] = users[u][f]
  BY <1>3, AccountFacts DEF Row
<1>5. /\ m <= minted /\ \A f \in Fields : users[u][f] <= minted
      /\ \A v \in dead : v[3] <= minted
  BY <1>2, AccountFacts DEF AccountInv, Numbers
<1>6. /\ <<u, "token", m>> \notin dead
      /\ \A d \in Clients \ {c} : request[d].seen.token # m
  BY <1>1, <1>2 DEF AccountInv, Pending
<1>7. \A f \in Fields : row[f] <= minted
  BY <1>4, <1>5
<1>8. ASSUME NEW f \in Fields, row[f] # 0 PROVE <<u, f, row[f]>> \notin dead
  <2>1. CASE f = "token"
    BY <1>4, <1>6, <2>1
  <2>2. CASE f # "token"
    BY <1>2, <1>4, <1>8, <2>2 DEF AccountInv, NotBack
  <2> QED
    BY <2>1, <2>2
<1>9. /\ minted <= minted' /\ \A f \in Fields : row[f] <= minted'
      /\ \A v \in dead' : v[3] <= minted'
      /\ \A f \in Fields : row[f] # 0 => <<u, f, row[f]>> \notin dead'
      /\ dead' \ dead = {}
  BY <1>1, <1>3, <1>5, <1>7, <1>8
<1>10. \A d \in Clients \ {c} :
         request[d].step = "upsert" => row.token # request[d].seen.token
  BY <1>4, <1>6
<1> HIDE DEF u, m, row
<1> QED
  BY <1>1, <1>2, <1>4, <1>9, <1>10, AccountWrites

LEMMA AccountClear ==
  ASSUME TypeInv, AccountInv, TypeInv', NEW c \in Clients, ClearAccessToken(c)
  PROVE  AccountInv'
<1> DEFINE u == request[c].user
           seen == request[c].seen
           row == Cleared(users[u], seen)
<1>1. /\ request[c].step = "clear" /\ users' = [users EXCEPT ![u] = row] /\ EndRequest(c)
      /\ dead' = dead \cup Values(u, seen) /\ minted' = minted
  BY DEF ClearAccessToken, Write
<1>2. u \in Users /\ seen \in Row /\ users[u] \in Row /\ minted \in Nat
  BY <1>1, RequestFacts, AccountFacts
<1>3. \A f \in Fields : row[f] = IF seen[f] # 0 THEN 0 ELSE users[u][f]
  BY DEF Cleared
<1>4. row \in Row
  BY <1>2, Rows DEF Row, Cleared
<1>5. /\ \A f \in Fields : users[u][f] <= minted /\ seen[f] <= minted
      /\ \A v \in dead : v[3] <= minted
  BY <1>2 DEF AccountInv, Numbers
<1>6. \A v \in Values(u, seen) :
        v[1] = u /\ v[2] \in Fields /\ v[3] = seen[v[2]] /\ seen[v[2]] # 0
  BY DEF Values
<1>7. \A f \in Fields : row[f] <= minted
  BY <1>2, <1>3, <1>5
<1>8. \A v \in dead' : v[3] <= minted
  BY <1>1, <1>5, <1>6
<1>9. ASSUME NEW f \in Fields, row[f] # 0 PROVE <<u, f, row[f]>> \notin dead'
  <2>1. seen[f] = 0 /\ row[f] = users[u][f]
    BY <1>3, <1>9
  <2>2. <<u, f, row[f]>> \notin dead
    BY <1>2, <1>9, <2>1 DEF AccountInv, NotBack
  <2>3. <<u, f, row[f]>> \notin Values(u, seen)
    BY <1>6, <2>1
  <2> QED
    BY <1>1, <2>2, <2>3
<1>10. \A v \in dead' \ dead : v[1] = u /\ v[3] = seen[v[2]]
  BY <1>1, <1>6
<1>11. ASSUME NEW d \in Clients \ {c}, request[d].step = "upsert"
       PROVE  row.token # request[d].seen.token
  <2>1. request[d].seen.token # 0 /\ users[u].token # request[d].seen.token
    BY <1>2, <1>11 DEF AccountInv, Pending
  <2> QED
    BY <1>3, <2>1, AccountFacts
<1>12. /\ minted <= minted' /\ \A f \in Fields : row[f] <= minted'
       /\ \A v \in dead' : v[3] <= minted'
  BY <1>1, <1>2, <1>7, <1>8
<1> HIDE DEF u, row
<1> QED
  BY <1>1, <1>2, <1>4, <1>9, <1>10, <1>11, <1>12, AccountWrites

LEMMA AccountSetKeys ==
  ASSUME TypeInv, AccountInv, TypeInv', NEW c \in Clients, NEW fresh \in SUBSET ProviderKeys,
         SetProviderKeys(c, fresh)
  PROVE  AccountInv'
<1> DEFINE u == request[c].user
           n == minted + 1
           row == WithKeys(users[u], request[c].seen, fresh, n)
<1>1. /\ request[c].step = "authenticated" /\ users' = [users EXCEPT ![u] = row]
      /\ EndRequest(c) /\ minted' = n /\ n <= MaxMinted /\ dead' = dead
  BY DEF SetProviderKeys, Write
<1>2. u \in Users /\ users[u] \in Row /\ minted \in Nat /\ minted <= n /\ n \in 0..MaxMinted
  BY <1>1, RequestFacts, AccountFacts, Rows
<1>3. \A f \in Fields : row[f] = IF f \in fresh THEN n ELSE users[u][f]
  BY DEF WithKeys
<1>4. row \in Row
  BY <1>2 DEF Row, WithKeys
<1>5. /\ \A f \in Fields : users[u][f] \in Nat /\ users[u][f] <= minted
      /\ \A v \in dead : v[3] \in Nat /\ v[3] <= minted
  BY <1>2, AccountFacts, Rows DEF AccountInv, Numbers, Row
<1>6. \A f \in Fields : row[f] <= n
  BY <1>2, <1>3, <1>5
<1>7. \A v \in dead : v[3] <= n /\ v[3] # n
  BY <1>2, <1>5
<1>8. ASSUME NEW f \in Fields, row[f] # 0 PROVE <<u, f, row[f]>> \notin dead
  <2>1. CASE f \in fresh
    BY <1>3, <1>7, <2>1
  <2>2. CASE f \notin fresh
    BY <1>2, <1>3, <1>8, <2>2 DEF AccountInv, NotBack
  <2> QED
    BY <2>1, <2>2
<1>9. ASSUME NEW d \in Clients \ {c}, request[d].step = "upsert"
      PROVE  row.token # request[d].seen.token
  <2>1. users[u].token # request[d].seen.token
    BY <1>2, <1>9 DEF AccountInv, Pending
  <2>2. row.token = users[u].token
    BY <1>3, AccountFacts DEF ProviderKeys
  <2> QED
    BY <2>1, <2>2
<1> HIDE DEF u, n, row
<1> QED
  BY <1>1, <1>2, <1>4, <1>6, <1>7, <1>8, <1>9, AccountWrites

\* No step brings back what a sign-out found.
LEMMA AccountStep == TypeInv /\ AccountInv /\ [Next]_vars => AccountInv'
<1> SUFFICES ASSUME TypeInv, AccountInv, [Next]_vars PROVE AccountInv'
  OBVIOUS
<1>t. TypeInv'
  BY TypeStep
<1>e. ASSUME UNCHANGED <<users, minted, dead>>,
             \/ UNCHANGED request
             \/ \E c \in Clients : EndRequest(c)
      PROVE  AccountInv'
  BY <1>e, AccountFacts, AccountEnds DEF EndRequest
<1>1. ASSUME NEW c \in Clients, Authenticate(c) PROVE AccountInv'
  <2>1. /\ UNCHANGED <<users, minted, dead>>
        /\ request'[c].step = "authenticated" /\ request'[c].seen = users[cookie[c]]
        /\ \A d \in Clients \ {c} : request'[d] = request[d]
    BY <1>1, AccountFacts DEF Authenticate, account, history
  <2>2. cookie[c] \in Users
    BY <1>1 DEF Authenticate, TypeInv, TypeOK
  <2> QED
    BY <2>1, <2>2, AccountLoads
<1>2. ASSUME NEW c \in Clients, RevokeGithubToken(c) PROVE AccountInv'
  <2>1. /\ UNCHANGED <<users, minted, dead>> /\ request[c].step = "authenticated"
        /\ request'[c].step = "clear" /\ request'[c].seen = request[c].seen
        /\ \A d \in Clients \ {c} : request'[d] = request[d]
    BY <1>2, AccountFacts DEF RevokeGithubToken, Goto, history, RequestType
  <2> QED
    BY <2>1, AccountLoads
<1>3. ASSUME NEW c \in Clients, NEW j \in Jobs, CreateTask(c, j) PROVE AccountInv'
  BY <1>3, <1>e DEF CreateTask, Admit, account
<1>4. ASSUME NEW c \in Clients, RequestFails(c) \/ SessionExpires(c) PROVE AccountInv'
  BY <1>4, <1>e DEF RequestFails, SessionExpires, account, history
<1>5. ASSUME NEW c \in Clients, ClientNext(c) PROVE AccountInv'
  BY <1>t, <1>1, <1>2, <1>3, <1>4, <1>5, AccountExchange, AccountUpsert, AccountClear,
     AccountSetKeys
  DEF ClientNext
<1>6. ASSUME NEW j \in Jobs, CreateTaskWithoutUser(j) \/ RetryFailedTask(j) PROVE AccountInv'
  BY <1>6, <1>e DEF CreateTaskWithoutUser, Admit, RetryFailedTask, account, history
<1>7. ASSUME NEW p \in Procs, NEW j \in Jobs, Receive(p, j) \/ JobNext(p, j)
      PROVE  UNCHANGED <<account, request, dead>>
  BY <1>7
  DEF Receive, JobNext, Load, EnterContext, AssertKeys, Plan, SyncRepo, SearchForPlan,
      WriteCode, CreatePr, Finish, JobFails, WorkerDies, LeaveContext, history
<1>8. ASSUME NEW p \in Procs, JobNext(p, holds[p]), holds[p] # NoJob PROVE AccountInv'
  <2>1. holds[p] \in Jobs
    BY <1>8, TypeFacts
  <2> QED
    BY <1>e, <1>7, <1>8, <2>1 DEF account
<1>9. CASE UNCHANGED vars
  BY <1>9, <1>e DEF vars, account, history
<1> QED
  BY <1>e, <1>5, <1>6, <1>7, <1>8, <1>9 DEF Next, account

\* What a sign-out found in the row never comes back, whichever requests of other
\* browsers were under way with a row they had loaded before, and whatever sign-ins
\* were waiting for GitHub (github_user_repo.py:54-62).
THEOREM LogoutFinal == Spec => []LogoutIsFinal
<1>1. AccountInv => LogoutIsFinal
  BY DEF AccountInv, NotBack, LogoutIsFinal, Values
<1> QED
  BY <1>1, TypeInit, AccountInit, TypeStep, AccountStep, PTL DEF Spec
=============================================================================
