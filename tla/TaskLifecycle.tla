--------------------------- MODULE TaskLifecycle ---------------------------
(***************************************************************************)
(* One row of the tasks table and everything that writes it: the API       *)
(* handlers that submit, cancel and retry it, the Celery messages between  *)
(* them and the workers, and the workflow jobs that walk the agent graph   *)
(* for it.  Every repository call commits, so each of them is a step of    *)
(* its own and other actors run between any two.  Tasks share no row, so   *)
(* one task is followed; Jobs are the workflow messages sent for it.       *)
(***************************************************************************)
EXTENDS Naturals, FiniteSets

CONSTANTS
  Jobs,        \* Celery ids of run_workflow_task messages
  Cancels,     \* requests to the cancel endpoint
  Retries,     \* requests to the retry endpoint
  MaxRetries,  \* settings.MAX_RETRIES
  Faults,      \* what may go wrong outside the program (FaultKinds)
  NoJob        \* a null celery_task_id or result_pr_url

\* kill: a worker or API process dies.  keys: the stored credentials cannot
\* be loaded.  db: a query fails.  net: GitHub accepts a request, the reply
\* is lost.  broker: a message cannot be published.
FaultKinds == {"kill", "keys", "db", "net", "broker"}

ASSUME FaultsAssumption == Faults \subseteq FaultKinds

ASSUME NoJobAssumption == NoJob \notin Jobs

\* The nodes on the longest path of the graph, 5 + 2 * MaxRetries, stay
\* within the graph library's recursion limit of 25.
ASSUME MaxRetriesAssumption == MaxRetries \in Nat /\ 5 + 2 * MaxRetries <= 25

VARIABLES
  status,        \* tasks.status, "none" before the row exists
  celeryTaskId,  \* tasks.celery_task_id
  resultPrUrl,   \* tasks.result_pr_url: the job that opened the PR it names
  submit,        \* progress of the submit handler
  submitJob,     \* the workflow job it enqueued
  pc,            \* job -> where its message or its worker is
  node,          \* job -> node of the graph it is in
  fixes,         \* job -> retry_count of its WorkflowStateSchema
  passed,        \* job -> test_passed of its WorkflowStateSchema
  failed,        \* job -> "failed" of the state run_workflow returned
  prs,           \* jobs whose pull request exists on GitHub
  dlq,           \* job -> rows it wrote to the dead letter table
  revoking,      \* revoke broadcasts a worker has not handled yet
  revoked,       \* revoke broadcasts the workers have handled
  cancel,        \* cancel request -> progress of its handler
  cancelJob,     \* cancel request -> the celery_task_id it read
  retry,         \* retry request -> progress of its handler and of its job
  retryJob       \* retry request -> the workflow job it enqueued

row     == <<status, celeryTaskId, resultPrUrl>>
state   == <<node, fixes, passed, failed>>
outside == <<prs, dlq>>
revokes == <<revoking, revoked>>
submitVars == <<submit, submitJob>>
cancelVars == <<cancel, cancelJob>>
retryVars  == <<retry, retryJob>>

vars == <<status, celeryTaskId, resultPrUrl, submit, submitJob, pc, node, fixes,
          passed, failed, prs, dlq, revoking, revoked, cancel, cancelJob, retry,
          retryJob>>

Terminal == {"success", "failed", "cancelled"}
TaskStatus == {"queued", "running"} \cup Terminal

Nodes == {"plan", "read_code", "write_code", "execute", "fix", "create_pr",
          "dlq"}

\* In a node: its first status write, its cancellation check, its work, the
\* request that opened the PR answered, its exception handler.
InNode == {"entering", "checking", "working", "opened", "raising"}

\* In run_workflow_task around the graph; "raised" is its exception handler.
\* lettered, rescued: the dead letter is in the table, its queries go on.
InTask == {"starting", "keys", "returned", "failing", "dead_letter", "lettered",
           "publishing", "succeeding", "logging"}
InRescue == {"raised", "rescuing", "rescue_letter", "rescued"}

Running == InNode \cup InTask \cup InRescue \cup {"loading"}

\* done: ran to its end.  stopped: noticed a cancellation.  killed: its
\* process died.  dropped: revoked before it started.  unhandled: left by an
\* exception that run_workflow_task does not handle.
Ended == {"done", "stopped", "killed", "dropped", "unhandled"}

Places == Running \cup Ended \cup {"unused", "queued"}

TypeOK ==
  /\ status \in TaskStatus \cup {"none"}
  /\ celeryTaskId \in Jobs \cup {NoJob}
  /\ resultPrUrl \in Jobs \cup {NoJob}
  /\ submit \in {"idle", "created", "sent", "done", "error"}
  /\ submitJob \in Jobs \cup {NoJob}
  /\ pc \in [Jobs -> Places]
  /\ node \in [Jobs -> Nodes]
  /\ fixes \in [Jobs -> Nat]
  /\ passed \in [Jobs -> BOOLEAN]
  /\ failed \in [Jobs -> BOOLEAN]
  /\ prs \subseteq Jobs
  /\ dlq \in [Jobs -> Nat]
  /\ revoking \subseteq Jobs
  /\ revoked \subseteq Jobs
  /\ cancel \in [Cancels -> {"idle", "revoking", "writing", "done", "error"}]
  /\ cancelJob \in [Cancels -> Jobs \cup {NoJob}]
  /\ retry \in [Retries -> {"idle", "queued", "sending", "sent", "done", "error"}]
  /\ retryJob \in [Retries -> Jobs \cup {NoJob}]

Init ==
  /\ status = "none"
  /\ celeryTaskId = NoJob
  /\ resultPrUrl = NoJob
  /\ submit = "idle"
  /\ submitJob = NoJob
  /\ pc = [j \in Jobs |-> "unused"]
  /\ node = [j \in Jobs |-> "plan"]
  /\ fixes = [j \in Jobs |-> 0]
  /\ passed = [j \in Jobs |-> FALSE]
  /\ failed = [j \in Jobs |-> FALSE]
  /\ prs = {}
  /\ dlq = [j \in Jobs |-> 0]
  /\ revoking = {}
  /\ revoked = {}
  /\ cancel = [c \in Cancels |-> "idle"]
  /\ cancelJob = [c \in Cancels |-> NoJob]
  /\ retry = [r \in Retries |-> "idle"]
  /\ retryJob = [r \in Retries |-> NoJob]

Goto(j, place) == pc' = [pc EXCEPT ![j] = place]

-----------------------------------------------------------------------------
(* Submitting a task: three commits or messages, nothing spans them.       *)

SubmitCreate ==
  /\ submit = "idle"
  /\ submit' = "created"
  /\ status' = "queued"
  /\ UNCHANGED <<celeryTaskId, resultPrUrl, submitJob, pc, state, outside, revokes,
                 cancelVars, retryVars>>

\* The id of the message is fresh; the worker may take it before it is stored.
SubmitEnqueue(j) ==
  /\ submit = "created"
  /\ pc[j] = "unused"
  /\ submit' = "sent"
  /\ submitJob' = j
  /\ Goto(j, "queued")
  /\ UNCHANGED <<row, state, outside, revokes, cancelVars, retryVars>>

\* The row stays queued when the message cannot be published.
SubmitFails ==
  /\ \/ "broker" \in Faults /\ submit = "created"
     \/ Faults \cap {"kill", "db"} # {} /\ submit \in {"created", "sent"}
  /\ submit' = "error"
  /\ UNCHANGED <<row, submitJob, pc, state, outside, revokes, cancelVars,
                 retryVars>>

SubmitRecord ==
  /\ submit = "sent"
  /\ submit' = "done"
  /\ celeryTaskId' = submitJob
  /\ UNCHANGED <<status, resultPrUrl, submitJob, pc, state, outside, revokes,
                 cancelVars, retryVars>>

-----------------------------------------------------------------------------
(* Cancelling: the status and the message id are read once, used later.    *)

CancelRead(c) ==
  /\ cancel[c] = "idle"
  /\ status # "none"
  /\ IF status \notin {"queued", "running"}
       THEN /\ cancel' = [cancel EXCEPT ![c] = "error"]
            /\ UNCHANGED cancelJob
       ELSE /\ cancelJob' = [cancelJob EXCEPT ![c] = celeryTaskId]
            /\ cancel' = [cancel EXCEPT ![c] =
                            IF celeryTaskId = NoJob THEN "writing" ELSE "revoking"]
  /\ UNCHANGED <<row, submitVars, pc, state, outside, revokes, retryVars>>

CancelRevoke(c) ==
  /\ cancel[c] = "revoking"
  /\ cancel' = [cancel EXCEPT ![c] = "writing"]
  /\ revoking' = revoking \cup {cancelJob[c]}
  /\ UNCHANGED <<row, submitVars, pc, state, outside, revoked, cancelJob, retryVars>>

\* task_repo.cancel does not look at the status again.
CancelWrite(c) ==
  /\ cancel[c] = "writing"
  /\ cancel' = [cancel EXCEPT ![c] = "done"]
  /\ status' = "cancelled"
  /\ UNCHANGED <<celeryTaskId, resultPrUrl, submitVars, pc, state, outside,
                 revokes, cancelJob, retryVars>>

CancelFails(c) ==
  /\ \/ "broker" \in Faults /\ cancel[c] = "revoking"
     \/ Faults \cap {"kill", "db"} # {} /\ cancel[c] \in {"revoking", "writing"}
  /\ cancel' = [cancel EXCEPT ![c] = "error"]
  /\ UNCHANGED <<row, submitVars, pc, state, outside, revokes, cancelJob, retryVars>>

\* A worker handles the broadcast: a process that runs the job gets SIGTERM
\* and dies where it is, a message that has not started will be dropped.
HandleRevoke(j) ==
  /\ j \in revoking
  /\ revoking' = revoking \ {j}
  /\ revoked' = revoked \cup {j}
  /\ IF pc[j] \in Running THEN Goto(j, "killed") ELSE UNCHANGED pc
  /\ UNCHANGED <<row, submitVars, state, outside, cancelVars, retryVars>>

\* The revoked ids are kept in the worker's memory and the jobs die with it.
WorkerRestart ==
  /\ "kill" \in Faults
  /\ revoked # {}
  /\ revoked' = {}
  /\ pc' = [j \in Jobs |-> IF pc[j] \in Running THEN "killed" ELSE pc[j]]
  /\ UNCHANGED <<row, submitVars, state, outside, revoking, cancelVars, retryVars>>

-----------------------------------------------------------------------------
(* Retrying: the endpoint checks the status, the retry job does not.       *)

\* Mutant: the endpoint does not check the status.
RetryRequestUnchecked(r) ==
  /\ retry[r] = "idle"
  /\ status # "none"
  /\ retry' = [retry EXCEPT ![r] = "queued"]
  /\ UNCHANGED <<row, submitVars, pc, state, outside, revokes, cancelVars, retryJob>>

RetryRequest(r) ==
  /\ retry[r] = "idle"
  /\ status # "none"
  /\ retry' = [retry EXCEPT ![r] = IF status = "failed" THEN "queued" ELSE "error"]
  /\ UNCHANGED <<row, submitVars, pc, state, outside, revokes, cancelVars, retryJob>>

\* update_status(queued), then increment_retry, which no step reads.
RetryReset(r) ==
  /\ retry[r] = "queued"
  /\ retry' = [retry EXCEPT ![r] = "sending"]
  /\ status' = "queued"
  /\ UNCHANGED <<celeryTaskId, resultPrUrl, submitVars, pc, state, outside,
                 revokes, cancelVars, retryJob>>

RetryEnqueue(r, j) ==
  /\ retry[r] = "sending"
  /\ pc[j] = "unused"
  /\ retry' = [retry EXCEPT ![r] = "sent"]
  /\ retryJob' = [retryJob EXCEPT ![r] = j]
  /\ Goto(j, "queued")
  /\ UNCHANGED <<row, submitVars, state, outside, revokes, cancelVars>>

RetryRecord(r) ==
  /\ retry[r] = "sent"
  /\ retry' = [retry EXCEPT ![r] = "done"]
  /\ celeryTaskId' = retryJob[r]
  /\ UNCHANGED <<status, resultPrUrl, submitVars, pc, state, outside, revokes,
                 cancelVars, retryJob>>

RetryFails(r) ==
  /\ \/ "broker" \in Faults /\ retry[r] \in {"queued", "sending"}
     \/ Faults \cap {"kill", "db"} # {} /\ retry[r] \in {"queued", "sending", "sent"}
  /\ retry' = [retry EXCEPT ![r] = "error"]
  /\ UNCHANGED <<row, submitVars, pc, state, outside, revokes, cancelVars, retryJob>>

-----------------------------------------------------------------------------
(* A workflow job before, in and after the graph.                          *)

Others == <<submitVars, revokes, cancelVars, retryVars, celeryTaskId>>

IsCancelled == status = "cancelled"

Receive(j) ==
  /\ pc[j] = "queued"
  /\ Goto(j, IF j \in revoked THEN "dropped" ELSE "loading")
  /\ UNCHANGED <<status, resultPrUrl, state, outside, Others>>

\* The token and the provider keys are read outside the try statement.
LoadKeys(j) ==
  /\ pc[j] = "loading"
  /\ \/ Goto(j, "starting")
     \/ Faults \cap {"keys", "db"} # {} /\ Goto(j, "unhandled")
  /\ UNCHANGED <<status, resultPrUrl, state, outside, Others>>

\* update_status(running) does not look at the status it replaces.
Begin(j) ==
  /\ pc[j] = "starting"
  /\ Goto(j, "keys")
  /\ status' = "running"
  /\ UNCHANGED <<resultPrUrl, state, outside, Others>>

\* Keys the user removed in the meantime raise here.
AssertKeys(j) ==
  /\ pc[j] = "keys"
  /\ Goto(j, "entering") \/ Goto(j, "raised")
  /\ UNCHANGED <<status, resultPrUrl, state, outside, Others>>

\* Every node but dlq starts by writing "running" and then looks for "cancelled".
NodeEnter(j) ==
  /\ pc[j] = "entering"
  /\ node[j] # "dlq"
  /\ Goto(j, "checking")
  /\ status' = "running"
  /\ UNCHANGED <<resultPrUrl, state, outside, Others>>

CheckCancelled(j) ==
  /\ pc[j] = "checking"
  /\ Goto(j, IF IsCancelled THEN "stopped" ELSE "working")
  /\ UNCHANGED <<status, resultPrUrl, state, outside, Others>>

\* Mutants: one fix too many; a label that no edge of the graph has.
RouteOneMore(ok, retryCount) ==
  IF ok THEN "create_pr"
  ELSE IF retryCount <= MaxRetries THEN "fix" ELSE "dlq"

RouteUnregistered(ok, retryCount) ==
  IF ok THEN "create_pr"
  ELSE IF retryCount < MaxRetries THEN "fix" ELSE "send_to_dlq"

RouteAfterExecute(ok, retryCount) ==
  IF ok THEN "create_pr"
  ELSE IF retryCount < MaxRetries THEN "fix" ELSE "dlq"

Successor == [plan |-> "read_code", read_code |-> "write_code",
              write_code |-> "execute", fix |-> "execute"]

\* Mutant: the fix agent does not count its calls.
NodeWorkUncounted(j) ==
  /\ pc[j] = "working"
  /\ node[j] \in DOMAIN Successor
  /\ Goto(j, "entering")
  /\ node' = [node EXCEPT ![j] = Successor[node[j]]]
  /\ UNCHANGED <<status, resultPrUrl, fixes, passed, failed, outside, Others>>

NodeWork(j) ==
  /\ pc[j] = "working"
  /\ node[j] \in DOMAIN Successor
  /\ Goto(j, "entering")
  /\ node' = [node EXCEPT ![j] = Successor[node[j]]]
  /\ fixes' = [fixes EXCEPT ![j] = IF node[j] = "fix" THEN @ + 1 ELSE @]
  /\ UNCHANGED <<status, resultPrUrl, passed, failed, outside, Others>>

\* ok: the sandbox accepted the code, or WORKFLOW_SKIP_TESTS is set.
Execute(j, ok) ==
  /\ pc[j] = "working"
  /\ node[j] = "execute"
  /\ Goto(j, "entering")
  /\ passed' = [passed EXCEPT ![j] = ok]
  /\ node' = [node EXCEPT ![j] = RouteAfterExecute(ok, fixes[j])]
  /\ UNCHANGED <<status, resultPrUrl, fixes, failed, outside, Others>>

CreatePullRequest(j) ==
  /\ pc[j] = "working"
  /\ node[j] = "create_pr"
  /\ Goto(j, "opened")
  /\ prs' = prs \cup {j}
  /\ UNCHANGED <<status, resultPrUrl, state, dlq, Others>>

LeaveCreatePr(j) ==
  /\ pc[j] = "opened"
  /\ Goto(j, "returned")
  /\ UNCHANGED <<status, resultPrUrl, state, outside, Others>>

\* The dlq node marks the task failed before the job has written its letter.
NodeSendToDlq(j) ==
  /\ pc[j] = "entering"
  /\ node[j] = "dlq"
  /\ Goto(j, "returned")
  /\ failed' = [failed EXCEPT ![j] = TRUE]
  /\ status' = "failed"
  /\ UNCHANGED <<resultPrUrl, node, fixes, passed, outside, Others>>

\* A model, GitHub, the index or the sandbox failed, or a query did, or the
\* reply to the pull request was lost.
NodeRaises(j) ==
  /\ \/ pc[j] = "working"
     \/ "db" \in Faults /\ pc[j] \in {"entering", "checking"} /\ node[j] # "dlq"
     \/ Faults \cap {"db", "net"} # {} /\ pc[j] = "opened"
  /\ Goto(j, "raising")
  /\ UNCHANGED <<status, resultPrUrl, state, outside, Others>>

\* Mutant: run_workflow returns the state of the exception without "failed".
NodeFailedUnmarked(j) ==
  /\ pc[j] = "raising"
  /\ status' = "running"
  /\ Goto(j, "returned")
  /\ UNCHANGED <<resultPrUrl, state, outside, Others>>

\* _log_node_failure writes "running" again unless its own log entry fails;
\* run_workflow turns the exception into a failed state.  The dlq node has no
\* exception handler.
NodeFailed(j) ==
  /\ \/ /\ pc[j] = "raising"
        /\ \/ status' = "running"
           \/ "db" \in Faults /\ UNCHANGED status
     \/ "db" \in Faults /\ pc[j] = "entering" /\ node[j] = "dlq" /\ UNCHANGED status
  /\ Goto(j, "returned")
  /\ failed' = [failed EXCEPT ![j] = TRUE]
  /\ UNCHANGED <<resultPrUrl, node, fixes, passed, outside, Others>>

\* Mutant: the returned state is taken for a success.
AfterGraphUnchecked(j) ==
  /\ pc[j] = "returned"
  /\ Goto(j, IF IsCancelled THEN "stopped" ELSE "publishing")
  /\ UNCHANGED <<status, resultPrUrl, state, outside, Others>>

\* The status is checked here; the writes below do not check it.
AfterGraph(j) ==
  /\ pc[j] = "returned"
  /\ Goto(j, IF IsCancelled THEN "stopped"
             ELSE IF failed[j] THEN "failing" ELSE "publishing")
  /\ UNCHANGED <<status, resultPrUrl, state, outside, Others>>

MarkFailed(j) ==
  /\ \/ pc[j] = "failing" /\ Goto(j, "dead_letter")
     \/ pc[j] = "rescuing" /\ Goto(j, "rescue_letter")
  /\ status' = "failed"
  /\ UNCHANGED <<resultPrUrl, state, outside, Others>>

\* The letter is committed before it is read back and the job commits again.
WriteDlq(j) ==
  /\ \/ pc[j] = "dead_letter" /\ Goto(j, "lettered")
     \/ pc[j] = "rescue_letter" /\ Goto(j, "rescued")
  /\ dlq' = [dlq EXCEPT ![j] = @ + 1]
  /\ UNCHANGED <<status, resultPrUrl, state, prs, Others>>

SetPrUrl(j) ==
  /\ pc[j] = "publishing"
  /\ Goto(j, "succeeding")
  /\ resultPrUrl' = j
  /\ UNCHANGED <<status, state, outside, Others>>

\* Mutant: the step is written, the status is forgotten.
MarkSuccessStepOnly(j) ==
  /\ pc[j] = "succeeding"
  /\ Goto(j, "logging")
  /\ UNCHANGED <<status, resultPrUrl, state, outside, Others>>

MarkSuccess(j) ==
  /\ pc[j] = "succeeding"
  /\ Goto(j, "logging")
  /\ status' = "success"
  /\ UNCHANGED <<resultPrUrl, state, outside, Others>>

\* What is left: the log entry of a success, or the queries after the letter.
LastCommit(j) ==
  /\ pc[j] \in {"logging", "lettered", "rescued"}
  /\ Goto(j, "done")
  /\ UNCHANGED <<status, resultPrUrl, state, outside, Others>>

\* A query of run_workflow_task fails inside its try statement, also one that
\* follows the letter: the handler then writes another.
TaskRaises(j) ==
  /\ "db" \in Faults
  /\ pc[j] \in InTask
  /\ Goto(j, "raised")
  /\ UNCHANGED <<status, resultPrUrl, state, outside, Others>>

\* Mutant: the exception is logged and swallowed.
HandleRaisedSwallowed(j) ==
  /\ pc[j] = "raised"
  /\ Goto(j, IF IsCancelled THEN "stopped" ELSE "done")
  /\ UNCHANGED <<status, resultPrUrl, state, outside, Others>>

HandleRaised(j) ==
  /\ pc[j] = "raised"
  /\ Goto(j, IF IsCancelled THEN "stopped" ELSE "rescuing")
  /\ UNCHANGED <<status, resultPrUrl, state, outside, Others>>

\* A query of the exception handler fails.
RescueRaises(j) ==
  /\ "db" \in Faults
  /\ pc[j] \in InRescue
  /\ Goto(j, "unhandled")
  /\ UNCHANGED <<status, resultPrUrl, state, outside, Others>>

\* Celery acknowledges a message when it starts: the job is lost.
KillJob(j) ==
  /\ "kill" \in Faults
  /\ pc[j] \in Running
  /\ Goto(j, "killed")
  /\ UNCHANGED <<status, resultPrUrl, state, outside, Others>>

-----------------------------------------------------------------------------

SubmitStep == SubmitCreate \/ SubmitRecord \/ \E j \in Jobs : SubmitEnqueue(j)

CancelStep(c) == CancelRead(c) \/ CancelRevoke(c) \/ CancelWrite(c)

RetryStep(r) ==
  \/ RetryRequest(r) \/ RetryReset(r) \/ RetryRecord(r)
  \/ \E j \in Jobs : RetryEnqueue(r, j)

InGraph(j) ==
  \/ NodeEnter(j) \/ CheckCancelled(j) \/ NodeWork(j)
  \/ \E ok \in BOOLEAN : Execute(j, ok)
  \/ CreatePullRequest(j) \/ LeaveCreatePr(j)
  \/ NodeSendToDlq(j) \/ NodeRaises(j) \/ NodeFailed(j)

AroundGraph(j) ==
  \/ Receive(j) \/ LoadKeys(j) \/ Begin(j) \/ AssertKeys(j)
  \/ AfterGraph(j) \/ MarkFailed(j) \/ WriteDlq(j)
  \/ SetPrUrl(j) \/ MarkSuccess(j) \/ LastCommit(j)
  \/ TaskRaises(j) \/ HandleRaised(j) \/ RescueRaises(j)

JobStep(j) == AroundGraph(j) \/ InGraph(j)

Next ==
  \/ SubmitStep \/ SubmitFails \/ WorkerRestart
  \/ \E c \in Cancels : CancelStep(c) \/ CancelFails(c)
  \/ \E r \in Retries : RetryStep(r) \/ RetryFails(r)
  \/ \E j \in Jobs : HandleRevoke(j) \/ JobStep(j) \/ KillJob(j)

Spec == Init /\ [][Next]_vars

\* A request that was made is carried on and a worker that has a job works;
\* nobody has to press a button, and a broadcast may be lost.
Fairness ==
  /\ WF_vars(SubmitRecord \/ \E j \in Jobs : SubmitEnqueue(j))
  /\ \A c \in Cancels : WF_vars(CancelRevoke(c) \/ CancelWrite(c))
  /\ \A r \in Retries :
       WF_vars(RetryReset(r) \/ RetryRecord(r) \/ \E j \in Jobs : RetryEnqueue(r, j))
  /\ \A j \in Jobs : WF_vars(JobStep(j))

FairSpec == Spec /\ Fairness

-----------------------------------------------------------------------------
(* The run of one job as AgentRun sees it.                                 *)

NodePhase(n) == IF n = "create_pr" THEN "valid"
                ELSE IF n \in {"fix", "dlq"} THEN "invalid" ELSE "editing"

Phase(j) ==
  IF pc[j] \in {"unused", "queued", "loading"} THEN "waiting"
  ELSE IF pc[j] \in Ended THEN "over"
  ELSE IF pc[j] \in {"starting", "keys"} THEN "editing"
  ELSE IF pc[j] \in {"entering", "checking", "working"} THEN NodePhase(node[j])
  ELSE IF \/ pc[j] \in {"opened", "publishing", "succeeding", "logging"}
          \/ pc[j] = "returned" /\ ~failed[j]
  THEN "published" ELSE "rejected"

\* Only a query that fails after the first letter makes a job write a second.
MaxLetters == IF "db" \in Faults THEN 2 ELSE 1

Run(j) == INSTANCE AgentRun WITH
            phase <- Phase(j), repairs <- fixes[j], opened <- j \in prs,
            letters <- dlq[j]

(***************************************************************************)
(* Properties.                                                             *)
(***************************************************************************)

\* Whatever the endpoints, the other jobs and the faults do, each job keeps to
\* AgentRun: tests pass before its pull request is opened, fixes are bounded,
\* it opens one pull request at most, and one dead letter is written only for a
\* run that was given up, two only when a query fails after the first
\* (nodes.py, workflow_tasks.py:89).
RunContract ==
  /\ \A j \in Jobs : Run(j)!Init
  /\ [][\A j \in Jobs : UNCHANGED Run(j)!runVars \/ Run(j)!Next]_vars

\* A task shown as successful names a pull request that exists and whose code
\* passed validation, also when several jobs and endpoints wrote the row
\* (workflow_tasks.py:83-86).
SuccessIsValidated ==
  status = "success" => resultPrUrl \in prs /\ passed[resultPrUrl]

\* As long as no query and no reply of GitHub is lost, a job that ran to its end
\* either opened a pull request or wrote exactly one dead letter, never both and
\* never neither, whatever raised or was killed (workflow_tasks.py:77-107).
PublishedXorDeadLettered ==
  \A j \in Jobs : pc[j] = "done" => dlq[j] = IF j \in prs THEN 0 ELSE 1

\* A failed task can be retried and run again, but a task retried once does not
\* get a second pull request: what had failed can no longer publish.
OnePullRequest == Cardinality(prs) <= 1

Pending(j) == pc[j] \in Running \cup {"queued"}

\* Somebody will still write the row.
InProgress ==
  \/ submit = "created"
  \/ \E j \in Jobs : Pending(j)
  \/ \E r \in Retries : retry[r] \in {"queued", "sending"}

\* Without cancellations and faults, a task that is shown as queued or running
\* is being worked on, and one shown as failed is in the dead letter table or
\* about to be, however many retries were pressed and in whatever order the
\* jobs write the row.
NoOrphan ==
  /\ status \in {"queued", "running"} => InProgress
  /\ status = "failed" => InProgress \/ \E j \in Jobs : dlq[j] > 0

\* A job that is taken from the queue comes to an end: the fix loop is finite.
JobEnds == \A j \in Jobs : pc[j] = "queued" ~> pc[j] \in Ended

\* Without cancellations and faults, a submitted or retried task comes to rest on
\* one result: the writers of the row run out.  Which result is not promised: the
\* late "failed" of the job before the retry may replace its "success"
\* (workflow_tasks.py:80).
Settles == status = "queued" ~> [](status = "success") \/ [](status = "failed")

\* "Cancel a queued or running workflow." (workflow.py:119): once the row says
\* cancelled, no worker puts it back to work.
CancelSticks == [][status = "cancelled" => status' = "cancelled"]_vars
=============================================================================
