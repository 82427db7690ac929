------------------------ MODULE TaskLifecycle_proofs ------------------------
(***************************************************************************)
(* Proofs about TaskLifecycle for every number of jobs, cancellations and  *)
(* retries, every MaxRetries and every set of faults.  IInv says what each *)
(* place of a job implies about its state, and what the row implies about  *)
(* GitHub; it is inductive, and the contract of a run and the meaning of   *)
(* "success" follow from it.                                               *)
(***************************************************************************)
EXTENDS TaskLifecycle, FiniteSetTheorems, TLAPS

\* A cancel handler revokes only when it has read a message id.
RevokesAJob == \A c \in Cancels : cancel[c] = "revoking" => cancelJob[c] \in Jobs

TypeInv == TypeOK /\ RevokesAJob

Unstarted == {"unused", "queued", "loading", "starting", "keys"}
BeforePr  == Unstarted \cup {"entering", "checking", "working"}
AfterPr   == {"opened", "publishing", "succeeding", "logging"}

\* What the place of job j implies about its own state.
JobInv(j) ==
  /\ pc[j] \in Unstarted => node[j] = "plan" /\ fixes[j] = 0
  /\ pc[j] \in BeforePr => j \notin prs
  /\ pc[j] \in BeforePr \cup {"opened"} => ~failed[j]
  /\ pc[j] \in {"checking", "working"} => node[j] # "dlq"
  /\ pc[j] \in BeforePr /\ node[j] = "fix" => fixes[j] < MaxRetries
  /\ pc[j] \in BeforePr /\ node[j] = "create_pr" => passed[j]
  /\ pc[j] \in AfterPr \/ (pc[j] = "returned" /\ ~failed[j]) => j \in prs
  /\ pc[j] \notin Ended \cup InRescue \cup {"lettered"} => dlq[j] = 0
  /\ pc[j] = "lettered" => dlq[j] = 1
  /\ pc[j] = "rescued" => dlq[j] > 0
  /\ pc[j] \in InRescue \ {"rescued"} => dlq[j] < MaxLetters
  /\ j \in prs => passed[j]

\* What the row implies: only pull requests that exist are recorded in it.
RowInv ==
  /\ resultPrUrl # NoJob => resultPrUrl \in prs
  /\ status = "success" => resultPrUrl # NoJob
  /\ \A j \in Jobs : pc[j] = "succeeding" => resultPrUrl # NoJob

IInv == TypeInv /\ RowInv /\ \A j \in Jobs : JobInv(j)

-----------------------------------------------------------------------------
(* Type correctness.                                                       *)

USE DEF row, state, outside, revokes, submitVars, cancelVars, retryVars, Others,
        Goto, IsCancelled

LEMMA TypeInit == Init => TypeInv
BY NoJobAssumption DEF TypeInv, RevokesAJob, Init, TypeOK, TaskStatus, Terminal, Nodes, Places, Running, Ended,
   InNode, InTask, InRescue

LEMMA TypeStep == TypeInv /\ [Next]_vars => TypeInv'
<1> USE DEF TypeInv, RevokesAJob, TypeOK, TaskStatus, Terminal, Nodes, Places, Running, Ended, InNode,
            InTask, InRescue
<1> SUFFICES ASSUME TypeInv, [Next]_vars
             PROVE  TypeInv'
  OBVIOUS
<1>1. CASE SubmitCreate
  BY <1>1 DEF SubmitCreate
<1>2. CASE SubmitRecord
  BY <1>2 DEF SubmitRecord
<1>3. ASSUME NEW j \in Jobs, SubmitEnqueue(j)
      PROVE  TypeInv'
  BY <1>3 DEF SubmitEnqueue
<1>4. CASE SubmitFails
  BY <1>4 DEF SubmitFails
<1>5. CASE WorkerRestart
  BY <1>5 DEF WorkerRestart
<1>6. ASSUME NEW c \in Cancels, CancelRead(c)
      PROVE  TypeInv'
  BY <1>6 DEF CancelRead
<1>7. ASSUME NEW c \in Cancels, CancelRevoke(c)
      PROVE  TypeInv'
  BY <1>7 DEF CancelRevoke
<1>8. ASSUME NEW c \in Cancels, CancelWrite(c)
      PROVE  TypeInv'
  BY <1>8 DEF CancelWrite
<1>9. ASSUME NEW c \in Cancels, CancelFails(c)
      PROVE  TypeInv'
  BY <1>9 DEF CancelFails
<1>10. ASSUME NEW r \in Retries, RetryRequest(r)
      PROVE  TypeInv'
  BY <1>10 DEF RetryRequest
<1>11. ASSUME NEW r \in Retries, RetryReset(r)
      PROVE  TypeInv'
  BY <1>11 DEF RetryReset
<1>12. ASSUME NEW r \in Retries, RetryRecord(r)
      PROVE  TypeInv'
  BY <1>12 DEF RetryRecord
<1>13. ASSUME NEW r \in Retries, NEW j \in Jobs, RetryEnqueue(r, j)
      PROVE  TypeInv'
  BY <1>13 DEF RetryEnqueue
<1>14. ASSUME NEW r \in Retries, RetryFails(r)
      PROVE  TypeInv'
  BY <1>14 DEF RetryFails
<1>15. ASSUME NEW j \in Jobs, HandleRevoke(j)
      PROVE  TypeInv'
  BY <1>15 DEF HandleRevoke
<1>16. ASSUME NEW j \in Jobs, Receive(j)
      PROVE  TypeInv'
  BY <1>16 DEF Receive
<1>17. ASSUME NEW j \in Jobs, LoadKeys(j)
      PROVE  TypeInv'
  BY <1>17 DEF LoadKeys
<1>18. ASSUME NEW j \in Jobs, Begin(j)
      PROVE  TypeInv'
  BY <1>18 DEF Begin
<1>19. ASSUME NEW j \in Jobs, AssertKeys(j)
      PROVE  TypeInv'
  BY <1>19 DEF AssertKeys
<1>20. ASSUME NEW j \in Jobs, NodeEnter(j)
      PROVE  TypeInv'
  BY <1>20 DEF NodeEnter
<1>21. ASSUME NEW j \in Jobs, CheckCancelled(j)
      PROVE  TypeInv'
  BY <1>21 DEF CheckCancelled
<1>22. ASSUME NEW j \in Jobs, NodeWork(j)
      PROVE  TypeInv'
  BY <1>22 DEF NodeWork, Successor
<1>23. ASSUME NEW j \in Jobs, NEW ok \in BOOLEAN, Execute(j, ok)
      PROVE  TypeInv'
  BY <1>23 DEF Execute, RouteAfterExecute
<1>24. ASSUME NEW j \in Jobs, CreatePullRequest(j)
      PROVE  TypeInv'
  BY <1>24 DEF CreatePullRequest
<1>25. ASSUME NEW j \in Jobs, LeaveCreatePr(j)
      PROVE  TypeInv'
  BY <1>25 DEF LeaveCreatePr
<1>26. ASSUME NEW j \in Jobs, NodeSendToDlq(j)
      PROVE  TypeInv'
  BY <1>26 DEF NodeSendToDlq
<1>27. ASSUME NEW j \in Jobs, NodeRaises(j)
      PROVE  TypeInv'
  BY <1>27 DEF NodeRaises
<1>28. ASSUME NEW j \in Jobs, NodeFailed(j)
      PROVE  TypeInv'
  BY <1>28 DEF NodeFailed
<1>29. ASSUME NEW j \in Jobs, AfterGraph(j)
      PROVE  TypeInv'
  BY <1>29 DEF AfterGraph
<1>30. ASSUME NEW j \in Jobs, MarkFailed(j)
      PROVE  TypeInv'
  BY <1>30 DEF MarkFailed
<1>31. ASSUME NEW j \in Jobs, WriteDlq(j)
      PROVE  TypeInv'
  BY <1>31 DEF WriteDlq
<1>32. ASSUME NEW j \in Jobs, SetPrUrl(j)
      PROVE  TypeInv'
  BY <1>32 DEF SetPrUrl
<1>33. ASSUME NEW j \in Jobs, MarkSuccess(j)
      PROVE  TypeInv'
  BY <1>33 DEF MarkSuccess
<1>34. ASSUME NEW j \in Jobs, LastCommit(j)
      PROVE  TypeInv'
  BY <1>34 DEF LastCommit
<1>35. ASSUME NEW j \in Jobs, TaskRaises(j)
      PROVE  TypeInv'
  BY <1>35 DEF TaskRaises
<1>36. ASSUME NEW j \in Jobs, HandleRaised(j)
      PROVE  TypeInv'
  BY <1>36 DEF HandleRaised
<1>37. ASSUME NEW j \in Jobs, RescueRaises(j)
      PROVE  TypeInv'
  BY <1>37 DEF RescueRaises
<1>38. ASSUME NEW j \in Jobs, KillJob(j)
      PROVE  TypeInv'
  BY <1>38 DEF KillJob
<1>39. CASE UNCHANGED vars
  BY <1>39 DEF vars
<1> QED
  BY <1>1, <1>2, <1>3, <1>4, <1>5, <1>6, <1>7, <1>8, <1>9, <1>10, <1>11, <1>12, <1>13, <1>14, <1>15, <1>16, <1>17, <1>18, <1>19, <1>20, <1>21, <1>22, <1>23, <1>24, <1>25, <1>26, <1>27, <1>28, <1>29, <1>30, <1>31, <1>32, <1>33, <1>34, <1>35, <1>36, <1>37, <1>38, <1>39
     DEF Next, SubmitStep, CancelStep, RetryStep, JobStep, InGraph, AroundGraph

\* Every variable keeps its type (the columns of tasks, the states of the
\* handlers and of the jobs).
THEOREM TypeCorrect == Spec => []TypeOK
<1>1. TypeInv => TypeOK
  BY DEF TypeInv
<1>2. QED
  BY <1>1, TypeInit, TypeStep, PTL DEF Spec
-----------------------------------------------------------------------------
(* The inductive invariant.                                                *)

LEMMA InvInit == Init => IInv
BY TypeInit DEF IInv, RowInv, JobInv, Init, Unstarted, BeforePr, AfterPr, Ended, InRescue

LEMMA JobInvStep ==
  ASSUME IInv, [Next]_vars, NEW k \in Jobs
  PROVE  JobInv(k)'
<1> USE DEF IInv, TypeInv, TypeOK, JobInv, Unstarted, BeforePr, AfterPr, Ended,
            Running, InNode, InTask, InRescue, Nodes, MaxLetters
<1> USE MaxRetriesAssumption
<1>1. CASE SubmitCreate
  BY <1>1 DEF SubmitCreate
<1>2. CASE SubmitRecord
  BY <1>2 DEF SubmitRecord
<1>3. ASSUME NEW j \in Jobs, SubmitEnqueue(j)
      PROVE  JobInv(k)'
  BY <1>3 DEF SubmitEnqueue
<1>4. CASE SubmitFails
  BY <1>4 DEF SubmitFails
<1>5. CASE WorkerRestart
  BY <1>5 DEF WorkerRestart
<1>6. ASSUME NEW c \in Cancels, CancelRead(c)
      PROVE  JobInv(k)'
  BY <1>6 DEF CancelRead
<1>7. ASSUME NEW c \in Cancels, CancelRevoke(c)
      PROVE  JobInv(k)'
  BY <1>7 DEF CancelRevoke
<1>8. ASSUME NEW c \in Cancels, CancelWrite(c)
      PROVE  JobInv(k)'
  BY <1>8 DEF CancelWrite
<1>9. ASSUME NEW c \in Cancels, CancelFails(c)
      PROVE  JobInv(k)'
  BY <1>9 DEF CancelFails
<1>10. ASSUME NEW r \in Retries, RetryRequest(r)
      PROVE  JobInv(k)'
  BY <1>10 DEF RetryRequest
<1>11. ASSUME NEW r \in Retries, RetryReset(r)
      PROVE  JobInv(k)'
  BY <1>11 DEF RetryReset
<1>12. ASSUME NEW r \in Retries, RetryRecord(r)
      PROVE  JobInv(k)'
  BY <1>12 DEF RetryRecord
<1>13. ASSUME NEW r \in Retries, NEW j \in Jobs, RetryEnqueue(r, j)
      PROVE  JobInv(k)'
  BY <1>13 DEF RetryEnqueue
<1>14. ASSUME NEW r \in Retries, RetryFails(r)
      PROVE  JobInv(k)'
  BY <1>14 DEF RetryFails
<1>15. ASSUME NEW j \in Jobs, HandleRevoke(j)
      PROVE  JobInv(k)'
  BY <1>15 DEF HandleRevoke
<1>16. ASSUME NEW j \in Jobs, Receive(j)
      PROVE  JobInv(k)'
  BY <1>16 DEF Receive
<1>17. ASSUME NEW j \in Jobs, LoadKeys(j)
      PROVE  JobInv(k)'
  BY <1>17 DEF LoadKeys
<1>18. ASSUME NEW j \in Jobs, Begin(j)
      PROVE  JobInv(k)'
  BY <1>18 DEF Begin
<1>19. ASSUME NEW j \in Jobs, AssertKeys(j)
      PROVE  JobInv(k)'
  BY <1>19 DEF AssertKeys
<1>20. ASSUME NEW j \in Jobs, NodeEnter(j)
      PROVE  JobInv(k)'
  BY <1>20 DEF NodeEnter
<1>21. ASSUME NEW j \in Jobs, CheckCancelled(j)
      PROVE  JobInv(k)'
  BY <1>21 DEF CheckCancelled
<1>22. ASSUME NEW j \in Jobs, NodeWork(j)
      PROVE  JobInv(k)'
  BY <1>22 DEF NodeWork, Successor
<1>23. ASSUME NEW j \in Jobs, NEW ok \in BOOLEAN, Execute(j, ok)
      PROVE  JobInv(k)'
  BY <1>23 DEF Execute, RouteAfterExecute
<1>24. ASSUME NEW j \in Jobs, CreatePullRequest(j)
      PROVE  JobInv(k)'
  BY <1>24 DEF CreatePullRequest
<1>25. ASSUME NEW j \in Jobs, LeaveCreatePr(j)
      PROVE  JobInv(k)'
  BY <1>25 DEF LeaveCreatePr
<1>26. ASSUME NEW j \in Jobs, NodeSendToDlq(j)
      PROVE  JobInv(k)'
  BY <1>26 DEF NodeSendToDlq
<1>27. ASSUME NEW j \in Jobs, NodeRaises(j)
      PROVE  JobInv(k)'
  BY <1>27 DEF NodeRaises
<1>28. ASSUME NEW j \in Jobs, NodeFailed(j)
      PROVE  JobInv(k)'
  BY <1>28 DEF NodeFailed
<1>29. ASSUME NEW j \in Jobs, AfterGraph(j)
      PROVE  JobInv(k)'
  BY <1>29 DEF AfterGraph
<1>30. ASSUME NEW j \in Jobs, MarkFailed(j)
      PROVE  JobInv(k)'
  BY <1>30 DEF MarkFailed
<1>31. ASSUME NEW j \in Jobs, WriteDlq(j)
      PROVE  JobInv(k)'
  BY <1>31 DEF WriteDlq
<1>32. ASSUME NEW j \in Jobs, SetPrUrl(j)
      PROVE  JobInv(k)'
  BY <1>32 DEF SetPrUrl
<1>33. ASSUME NEW j \in Jobs, MarkSuccess(j)
      PROVE  JobInv(k)'
  BY <1>33 DEF MarkSuccess
<1>34. ASSUME NEW j \in Jobs, LastCommit(j)
      PROVE  JobInv(k)'
  BY <1>34 DEF LastCommit
<1>35. ASSUME NEW j \in Jobs, TaskRaises(j)
      PROVE  JobInv(k)'
  BY <1>35 DEF TaskRaises
<1>36. ASSUME NEW j \in Jobs, HandleRaised(j)
      PROVE  JobInv(k)'
  BY <1>36 DEF HandleRaised
<1>37. ASSUME NEW j \in Jobs, RescueRaises(j)
      PROVE  JobInv(k)'
  BY <1>37 DEF RescueRaises
<1>38. ASSUME NEW j \in Jobs, KillJob(j)
      PROVE  JobInv(k)'
  BY <1>38 DEF KillJob
<1>39. CASE UNCHANGED vars
  BY <1>39 DEF vars
<1> HIDE DEF JobInv, TypeInv, TypeOK, Unstarted, BeforePr, AfterPr, Ended, Running, InNode,
             InTask, InRescue, Nodes, MaxLetters
<1> QED
  BY <1>1, <1>2, <1>3, <1>4, <1>5, <1>6, <1>7, <1>8, <1>9, <1>10, <1>11, <1>12, <1>13, <1>14, <1>15, <1>16, <1>17, <1>18, <1>19, <1>20, <1>21, <1>22, <1>23, <1>24, <1>25, <1>26, <1>27, <1>28, <1>29, <1>30, <1>31, <1>32, <1>33, <1>34, <1>35, <1>36, <1>37, <1>38, <1>39
     DEF Next, SubmitStep, CancelStep, RetryStep, JobStep, InGraph, AroundGraph

LEMMA RowInvStep ==
  ASSUME IInv, [Next]_vars
  PROVE  RowInv'
<1> USE DEF IInv, RowInv, TypeInv, TypeOK, JobInv, AfterPr
<1> USE NoJobAssumption
<1>1. CASE SubmitCreate
  BY <1>1 DEF SubmitCreate
<1>2. CASE SubmitRecord
  BY <1>2 DEF SubmitRecord
<1>3. ASSUME NEW j \in Jobs, SubmitEnqueue(j)
      PROVE  RowInv'
  BY <1>3 DEF SubmitEnqueue
<1>4. CASE SubmitFails
  BY <1>4 DEF SubmitFails
<1>5. CASE WorkerRestart
  BY <1>5 DEF WorkerRestart
<1>6. ASSUME NEW c \in Cancels, CancelRead(c)
      PROVE  RowInv'
  BY <1>6 DEF CancelRead
<1>7. ASSUME NEW c \in Cancels, CancelRevoke(c)
      PROVE  RowInv'
  BY <1>7 DEF CancelRevoke
<1>8. ASSUME NEW c \in Cancels, CancelWrite(c)
      PROVE  RowInv'
  BY <1>8 DEF CancelWrite
<1>9. ASSUME NEW c \in Cancels, CancelFails(c)
      PROVE  RowInv'
  BY <1>9 DEF CancelFails
<1>10. ASSUME NEW r \in Retries, RetryRequest(r)
      PROVE  RowInv'
  BY <1>10 DEF RetryRequest
<1>11. ASSUME NEW r \in Retries, RetryReset(r)
      PROVE  RowInv'
  BY <1>11 DEF RetryReset
<1>12. ASSUME NEW r \in Retries, RetryRecord(r)
      PROVE  RowInv'
  BY <1>12 DEF RetryRecord
<1>13. ASSUME NEW r \in Retries, NEW j \in Jobs, RetryEnqueue(r, j)
      PROVE  RowInv'
  BY <1>13 DEF RetryEnqueue
<1>14. ASSUME NEW r \in Retries, RetryFails(r)
      PROVE  RowInv'
  BY <1>14 DEF RetryFails
<1>15. ASSUME NEW j \in Jobs, HandleRevoke(j)
      PROVE  RowInv'
  BY <1>15 DEF HandleRevoke
<1>16. ASSUME NEW j \in Jobs, Receive(j)
      PROVE  RowInv'
  BY <1>16 DEF Receive
<1>17. ASSUME NEW j \in Jobs, LoadKeys(j)
      PROVE  RowInv'
  BY <1>17 DEF LoadKeys
<1>18. ASSUME NEW j \in Jobs, Begin(j)
      PROVE  RowInv'
  BY <1>18 DEF Begin
<1>19. ASSUME NEW j \in Jobs, AssertKeys(j)
      PROVE  RowInv'
  BY <1>19 DEF AssertKeys
<1>20. ASSUME NEW j \in Jobs, NodeEnter(j)
      PROVE  RowInv'
  BY <1>20 DEF NodeEnter
<1>21. ASSUME NEW j \in Jobs, CheckCancelled(j)
      PROVE  RowInv'
  BY <1>21 DEF CheckCancelled
<1>22. ASSUME NEW j \in Jobs, NodeWork(j)
      PROVE  RowInv'
  BY <1>22 DEF NodeWork, Successor
<1>23. ASSUME NEW j \in Jobs, NEW ok \in BOOLEAN, Execute(j, ok)
      PROVE  RowInv'
  BY <1>23 DEF Execute, RouteAfterExecute
<1>24. ASSUME NEW j \in Jobs, CreatePullRequest(j)
      PROVE  RowInv'
  BY <1>24 DEF CreatePullRequest
<1>25. ASSUME NEW j \in Jobs, LeaveCreatePr(j)
      PROVE  RowInv'
  BY <1>25 DEF LeaveCreatePr
<1>26. ASSUME NEW j \in Jobs, NodeSendToDlq(j)
      PROVE  RowInv'
  BY <1>26 DEF NodeSendToDlq
<1>27. ASSUME NEW j \in Jobs, NodeRaises(j)
      PROVE  RowInv'
  BY <1>27 DEF NodeRaises
<1>28. ASSUME NEW j \in Jobs, NodeFailed(j)
      PROVE  RowInv'
  BY <1>28 DEF NodeFailed
<1>29. ASSUME NEW j \in Jobs, AfterGraph(j)
      PROVE  RowInv'
  BY <1>29 DEF AfterGraph
<1>30. ASSUME NEW j \in Jobs, MarkFailed(j)
      PROVE  RowInv'
  BY <1>30 DEF MarkFailed
<1>31. ASSUME NEW j \in Jobs, WriteDlq(j)
      PROVE  RowInv'
  BY <1>31 DEF WriteDlq
<1>32. ASSUME NEW j \in Jobs, SetPrUrl(j)
      PROVE  RowInv'
  BY <1>32 DEF SetPrUrl
<1>33. ASSUME NEW j \in Jobs, MarkSuccess(j)
      PROVE  RowInv'
  BY <1>33 DEF MarkSuccess
<1>34. ASSUME NEW j \in Jobs, LastCommit(j)
      PROVE  RowInv'
  BY <1>34 DEF LastCommit
<1>35. ASSUME NEW j \in Jobs, TaskRaises(j)
      PROVE  RowInv'
  BY <1>35 DEF TaskRaises
<1>36. ASSUME NEW j \in Jobs, HandleRaised(j)
      PROVE  RowInv'
  BY <1>36 DEF HandleRaised
<1>37. ASSUME NEW j \in Jobs, RescueRaises(j)
      PROVE  RowInv'
  BY <1>37 DEF RescueRaises
<1>38. ASSUME NEW j \in Jobs, KillJob(j)
      PROVE  RowInv'
  BY <1>38 DEF KillJob
<1>39. CASE UNCHANGED vars
  BY <1>39 DEF vars
<1> QED
  BY <1>1, <1>2, <1>3, <1>4, <1>5, <1>6, <1>7, <1>8, <1>9, <1>10, <1>11, <1>12, <1>13, <1>14, <1>15, <1>16, <1>17, <1>18, <1>19, <1>20, <1>21, <1>22, <1>23, <1>24, <1>25, <1>26, <1>27, <1>28, <1>29, <1>30, <1>31, <1>32, <1>33, <1>34, <1>35, <1>36, <1>37, <1>38, <1>39
     DEF Next, SubmitStep, CancelStep, RetryStep, JobStep, InGraph, AroundGraph

LEMMA Inductive == Spec => []IInv
<1>1. IInv /\ [Next]_vars => IInv'
  BY TypeStep, JobInvStep, RowInvStep DEF IInv
<1>2. QED
  BY <1>1, InvInit, PTL DEF Spec

\* A task shown as successful names a pull request that exists and whose code
\* passed validation (workflow_tasks.py:83-86), for any number of jobs,
\* cancellations and retries and under every fault.
THEOREM SuccessValidated == Spec => []SuccessIsValidated
<1>1. IInv => SuccessIsValidated
  BY DEF IInv, RowInv, TypeInv, TypeOK, JobInv, SuccessIsValidated
<1>2. QED
  BY <1>1, Inductive, PTL
-----------------------------------------------------------------------------
(* Refinement: every step of the system is, for each job, a step of        *)
(* AgentRun or leaves its run unchanged.                                   *)

LEMMA RunInit == Init => \A j \in Jobs : Run(j)!Init
BY DEF Init, Run!Init, Phase, Ended

LEMMA RunStep ==
  ASSUME IInv, [Next]_vars, NEW k \in Jobs
  PROVE  UNCHANGED Run(k)!runVars \/ Run(k)!Next
<1> USE DEF IInv, TypeInv, TypeOK, JobInv, Unstarted, BeforePr, AfterPr, Ended,
            Running, InNode, InTask, InRescue, Nodes, Places
<1> DEFINE Goal == UNCHANGED Run(k)!runVars \/ Run(k)!Next
<1> USE DEF Goal, Phase, NodePhase, Run!Next, Run!runVars, Run!Start, Run!Validate, Run!Repair,
            Run!Publish, Run!Reject, Run!DeadLetter, Run!Stop, Run!Live, MaxLetters
<1> SUFFICES Goal
  OBVIOUS
<1>1. CASE SubmitCreate
  BY <1>1 DEF SubmitCreate
<1>2. CASE SubmitRecord
  BY <1>2 DEF SubmitRecord
<1>3. ASSUME NEW j \in Jobs, SubmitEnqueue(j)
      PROVE  Goal
  BY <1>3 DEF SubmitEnqueue
<1>4. CASE SubmitFails
  BY <1>4 DEF SubmitFails
<1>5. CASE WorkerRestart
  BY <1>5 DEF WorkerRestart
<1>6. ASSUME NEW c \in Cancels, CancelRead(c)
      PROVE  Goal
  BY <1>6 DEF CancelRead
<1>7. ASSUME NEW c \in Cancels, CancelRevoke(c)
      PROVE  Goal
  BY <1>7 DEF CancelRevoke
<1>8. ASSUME NEW c \in Cancels, CancelWrite(c)
      PROVE  Goal
  BY <1>8 DEF CancelWrite
<1>9. ASSUME NEW c \in Cancels, CancelFails(c)
      PROVE  Goal
  BY <1>9 DEF CancelFails
<1>10. ASSUME NEW r \in Retries, RetryRequest(r)
      PROVE  Goal
  BY <1>10 DEF RetryRequest
<1>11. ASSUME NEW r \in Retries, RetryReset(r)
      PROVE  Goal
  BY <1>11 DEF RetryReset
<1>12. ASSUME NEW r \in Retries, RetryRecord(r)
      PROVE  Goal
  BY <1>12 DEF RetryRecord
<1>13. ASSUME NEW r \in Retries, NEW j \in Jobs, RetryEnqueue(r, j)
      PROVE  Goal
  BY <1>13 DEF RetryEnqueue
<1>14. ASSUME NEW r \in Retries, RetryFails(r)
      PROVE  Goal
  BY <1>14 DEF RetryFails
<1>15. ASSUME NEW j \in Jobs, HandleRevoke(j)
      PROVE  Goal
  BY <1>15 DEF HandleRevoke
<1>16. ASSUME NEW j \in Jobs, Receive(j)
      PROVE  Goal
  BY <1>16 DEF Receive
<1>17. ASSUME NEW j \in Jobs, LoadKeys(j)
      PROVE  Goal
  BY <1>17 DEF LoadKeys
<1>18. ASSUME NEW j \in Jobs, Begin(j)
      PROVE  Goal
  BY <1>18 DEF Begin
<1>19. ASSUME NEW j \in Jobs, AssertKeys(j)
      PROVE  Goal
  BY <1>19 DEF AssertKeys
<1>20. ASSUME NEW j \in Jobs, NodeEnter(j)
      PROVE  Goal
  BY <1>20 DEF NodeEnter
<1>21. ASSUME NEW j \in Jobs, CheckCancelled(j)
      PROVE  Goal
  BY <1>21 DEF CheckCancelled
<1>22. ASSUME NEW j \in Jobs, NodeWork(j)
      PROVE  Goal
  BY <1>22 DEF NodeWork, Successor
<1>23. ASSUME NEW j \in Jobs, NEW ok \in BOOLEAN, Execute(j, ok)
      PROVE  Goal
  BY <1>23 DEF Execute, RouteAfterExecute
<1>24. ASSUME NEW j \in Jobs, CreatePullRequest(j)
      PROVE  Goal
  BY <1>24 DEF CreatePullRequest
<1>25. ASSUME NEW j \in Jobs, LeaveCreatePr(j)
      PROVE  Goal
  BY <1>25 DEF LeaveCreatePr
<1>26. ASSUME NEW j \in Jobs, NodeSendToDlq(j)
      PROVE  Goal
  BY <1>26 DEF NodeSendToDlq
<1>27. ASSUME NEW j \in Jobs, NodeRaises(j)
      PROVE  Goal
  BY <1>27 DEF NodeRaises
<1>28. ASSUME NEW j \in Jobs, NodeFailed(j)
      PROVE  Goal
  BY <1>28 DEF NodeFailed
<1>29. ASSUME NEW j \in Jobs, AfterGraph(j)
      PROVE  Goal
  BY <1>29 DEF AfterGraph
<1>30. ASSUME NEW j \in Jobs, MarkFailed(j)
      PROVE  Goal
  BY <1>30 DEF MarkFailed
<1>31. ASSUME NEW j \in Jobs, WriteDlq(j)
      PROVE  Goal
  BY <1>31 DEF WriteDlq
<1>32. ASSUME NEW j \in Jobs, SetPrUrl(j)
      PROVE  Goal
  BY <1>32 DEF SetPrUrl
<1>33. ASSUME NEW j \in Jobs, MarkSuccess(j)
      PROVE  Goal
  BY <1>33 DEF MarkSuccess
<1>34. ASSUME NEW j \in Jobs, LastCommit(j)
      PROVE  Goal
  BY <1>34 DEF LastCommit
<1>35. ASSUME NEW j \in Jobs, TaskRaises(j)
      PROVE  Goal
  BY <1>35 DEF TaskRaises
<1>36. ASSUME NEW j \in Jobs, HandleRaised(j)
      PROVE  Goal
  BY <1>36 DEF HandleRaised
<1>37. ASSUME NEW j \in Jobs, RescueRaises(j)
      PROVE  Goal
  BY <1>37 DEF RescueRaises
<1>38. ASSUME NEW j \in Jobs, KillJob(j)
      PROVE  Goal
  BY <1>38 DEF KillJob
<1>39. CASE UNCHANGED vars
  BY <1>39 DEF vars
<1> HIDE DEF Goal, JobInv, TypeInv, TypeOK, Unstarted, BeforePr, AfterPr, Ended, Running,
             InNode, InTask, InRescue, Nodes, Places, MaxLetters, Phase, NodePhase,
             Run!Next, Run!runVars, Run!Start, Run!Validate, Run!Repair, Run!Publish,
             Run!Reject, Run!DeadLetter, Run!Stop, Run!Live, Goto, Others, IsCancelled,
             IInv
<1> QED
  BY <1>1, <1>2, <1>3, <1>4, <1>5, <1>6, <1>7, <1>8, <1>9, <1>10, <1>11, <1>12, <1>13, <1>14, <1>15, <1>16, <1>17, <1>18, <1>19, <1>20, <1>21, <1>22, <1>23, <1>24, <1>25, <1>26, <1>27, <1>28, <1>29, <1>30, <1>31, <1>32, <1>33, <1>34, <1>35, <1>36, <1>37, <1>38, <1>39
     DEF Next, SubmitStep, CancelStep, RetryStep, JobStep, InGraph, AroundGraph

\* Every job keeps to AgentRun whatever the endpoints, the other jobs and the
\* faults do: validated before published, fixed at most MaxRetries times,
\* published at most once, and dead-lettered once it is given up, at most once or,
\* when a query fails after the letter, twice (nodes.py, workflow_tasks.py:77-107).
THEOREM RunsImplementAgentRun == Spec => RunContract
<1>1. IInv /\ [Next]_vars
        => [\A j \in Jobs : UNCHANGED Run(j)!runVars \/ Run(j)!Next]_vars
  BY RunStep
<1>2. QED
  BY <1>1, RunInit, Inductive, PTL DEF Spec, RunContract
-----------------------------------------------------------------------------
(* Nobody abandons the task when nothing is cancelled and nothing fails.   *)
(* Writers says who will replace a status that is not final: whoever wrote *)
(* "running" has not yet written its result, "queued" is followed by a     *)
(* message that has not begun, "failed" by its letter.                     *)

Begun == {"keys", "returned", "failing", "publishing", "succeeding", "raised",
          "rescuing"} \cup InNode

Rejected(j) == pc[j] \in {"failing", "dead_letter", "rescue_letter"}
               \/ (pc[j] = "returned" /\ failed[j])

Writers ==
  /\ status # "cancelled"
  /\ revoking = {} /\ revoked = {}
  /\ status = "queued" =>
       \/ submit = "created"
       \/ \E r \in Retries : retry[r] = "sending"
       \/ \E j \in Jobs : pc[j] \in {"queued", "loading", "starting"}
  /\ status = "running" => \E j \in Jobs : pc[j] \in Begun
  /\ status = "failed" => \E j \in Jobs : Rejected(j) \/ dlq[j] > 0

LEMMA WritersStep ==
  ASSUME Cancels = {}, Faults = {}, IInv, Writers, [Next]_vars
  PROVE  Writers'
<1> USE DEF IInv, TypeInv, TypeOK, Writers, Rejected, Begun, Running, InNode,
            InTask, InRescue, Nodes
<1> USE Cancels = {}, Faults = {}
<1>1. CASE SubmitCreate
  BY <1>1 DEF SubmitCreate
<1>2. CASE SubmitRecord
  BY <1>2 DEF SubmitRecord
<1>3. ASSUME NEW j \in Jobs, SubmitEnqueue(j)
      PROVE  Writers'
  BY <1>3 DEF SubmitEnqueue
<1>4. CASE SubmitFails
  BY <1>4 DEF SubmitFails
<1>5. CASE WorkerRestart
  BY <1>5 DEF WorkerRestart
<1>6. ASSUME NEW c \in Cancels, CancelRead(c)
      PROVE  Writers'
  BY <1>6 DEF CancelRead
<1>7. ASSUME NEW c \in Cancels, CancelRevoke(c)
      PROVE  Writers'
  BY <1>7 DEF CancelRevoke
<1>8. ASSUME NEW c \in Cancels, CancelWrite(c)
      PROVE  Writers'
  BY <1>8 DEF CancelWrite
<1>9. ASSUME NEW c \in Cancels, CancelFails(c)
      PROVE  Writers'
  BY <1>9 DEF CancelFails
<1>10. ASSUME NEW r \in Retries, RetryRequest(r)
      PROVE  Writers'
  BY <1>10 DEF RetryRequest
<1>11. ASSUME NEW r \in Retries, RetryReset(r)
      PROVE  Writers'
  BY <1>11 DEF RetryReset
<1>12. ASSUME NEW r \in Retries, RetryRecord(r)
      PROVE  Writers'
  BY <1>12 DEF RetryRecord
<1>13. ASSUME NEW r \in Retries, NEW j \in Jobs, RetryEnqueue(r, j)
      PROVE  Writers'
  BY <1>13 DEF RetryEnqueue
<1>14. ASSUME NEW r \in Retries, RetryFails(r)
      PROVE  Writers'
  BY <1>14 DEF RetryFails
<1>15. ASSUME NEW j \in Jobs, HandleRevoke(j)
      PROVE  Writers'
  BY <1>15 DEF HandleRevoke
<1>16. ASSUME NEW j \in Jobs, Receive(j)
      PROVE  Writers'
  BY <1>16 DEF Receive
<1>17. ASSUME NEW j \in Jobs, LoadKeys(j)
      PROVE  Writers'
  BY <1>17 DEF LoadKeys
<1>18. ASSUME NEW j \in Jobs, Begin(j)
      PROVE  Writers'
  BY <1>18 DEF Begin
<1>19. ASSUME NEW j \in Jobs, AssertKeys(j)
      PROVE  Writers'
  BY <1>19 DEF AssertKeys
<1>20. ASSUME NEW j \in Jobs, NodeEnter(j)
      PROVE  Writers'
  BY <1>20 DEF NodeEnter
<1>21. ASSUME NEW j \in Jobs, CheckCancelled(j)
      PROVE  Writers'
  BY <1>21 DEF CheckCancelled
<1>22. ASSUME NEW j \in Jobs, NodeWork(j)
      PROVE  Writers'
  BY <1>22 DEF NodeWork, Successor
<1>23. ASSUME NEW j \in Jobs, NEW ok \in BOOLEAN, Execute(j, ok)
      PROVE  Writers'
  BY <1>23 DEF Execute, RouteAfterExecute
<1>24. ASSUME NEW j \in Jobs, CreatePullRequest(j)
      PROVE  Writers'
  BY <1>24 DEF CreatePullRequest
<1>25. ASSUME NEW j \in Jobs, LeaveCreatePr(j)
      PROVE  Writers'
  BY <1>25 DEF LeaveCreatePr
<1>26. ASSUME NEW j \in Jobs, NodeSendToDlq(j)
      PROVE  Writers'
  BY <1>26 DEF NodeSendToDlq
<1>27. ASSUME NEW j \in Jobs, NodeRaises(j)
      PROVE  Writers'
  BY <1>27 DEF NodeRaises
<1>28. ASSUME NEW j \in Jobs, NodeFailed(j)
      PROVE  Writers'
  BY <1>28 DEF NodeFailed
<1>29. ASSUME NEW j \in Jobs, AfterGraph(j)
      PROVE  Writers'
  BY <1>29 DEF AfterGraph
<1>30. ASSUME NEW j \in Jobs, MarkFailed(j)
      PROVE  Writers'
  BY <1>30 DEF MarkFailed
<1>31. ASSUME NEW j \in Jobs, WriteDlq(j)
      PROVE  Writers'
  BY <1>31 DEF WriteDlq
<1>32. ASSUME NEW j \in Jobs, SetPrUrl(j)
      PROVE  Writers'
  BY <1>32 DEF SetPrUrl
<1>33. ASSUME NEW j \in Jobs, MarkSuccess(j)
      PROVE  Writers'
  BY <1>33 DEF MarkSuccess
<1>34. ASSUME NEW j \in Jobs, LastCommit(j)
      PROVE  Writers'
  BY <1>34 DEF LastCommit
<1>35. ASSUME NEW j \in Jobs, TaskRaises(j)
      PROVE  Writers'
  BY <1>35 DEF TaskRaises
<1>36. ASSUME NEW j \in Jobs, HandleRaised(j)
      PROVE  Writers'
  BY <1>36 DEF HandleRaised
<1>37. ASSUME NEW j \in Jobs, RescueRaises(j)
      PROVE  Writers'
  BY <1>37 DEF RescueRaises
<1>38. ASSUME NEW j \in Jobs, KillJob(j)
      PROVE  Writers'
  BY <1>38 DEF KillJob
<1>39. CASE UNCHANGED vars
  BY <1>39 DEF vars
<1> QED
  BY <1>1, <1>2, <1>3, <1>4, <1>5, <1>6, <1>7, <1>8, <1>9, <1>10, <1>11, <1>12, <1>13, <1>14, <1>15, <1>16, <1>17, <1>18, <1>19, <1>20, <1>21, <1>22, <1>23, <1>24, <1>25, <1>26, <1>27, <1>28, <1>29, <1>30, <1>31, <1>32, <1>33, <1>34, <1>35, <1>36, <1>37, <1>38, <1>39
     DEF Next, SubmitStep, CancelStep, RetryStep, JobStep, InGraph, AroundGraph

\* Without cancellations and faults, a task shown as queued or running is being
\* worked on and one shown as failed has its letter or is about to get it, for
\* any number of retries and any interleaving of the jobs that write the row
\* (workflow_tasks.py:56-107, retry_tasks.py:19-32).
THEOREM NobodyAbandons ==
  ASSUME Cancels = {}, Faults = {}
  PROVE  Spec => []NoOrphan
<1>1. Init => Writers
  BY DEF Init, Writers
<1>2. IInv /\ Writers /\ [Next]_vars => Writers'
  BY WritersStep
<1>3. IInv /\ Writers => NoOrphan
  BY DEF IInv, TypeInv, TypeOK, Writers, NoOrphan, InProgress, Pending, Rejected, Begun,
         Running, InNode, InTask, InRescue
<1>4. QED
  BY <1>1, <1>2, <1>3, Inductive, PTL DEF Spec

-----------------------------------------------------------------------------
(* What a job leaves behind when no query and no reply of GitHub is lost,  *)
(* and a task that is retried once.  A job that has left the way to its    *)
(* pull request stays off it; "failed" is written by such a job only.      *)

Losing == {"raising", "failing", "dead_letter", "lettered", "raised", "rescuing",
           "rescue_letter", "rescued"}

\* On the way to the dead letter table, and nowhere else, without its pull request.
Rejecting(j) == pc[j] \in Losing \/ (pc[j] = "returned" /\ failed[j])

Outcome(j) ==
  /\ Rejecting(j) => j \notin prs
  /\ pc[j] = "rescued" => dlq[j] = 1
  /\ pc[j] = "done" => dlq[j] = IF j \in prs THEN 0 ELSE 1

\* Job j has no pull request and will not get one.
Lost(j) == j \notin prs /\ (Rejecting(j) \/ pc[j] \in Ended)

\* What a step does to a job: nothing, or it is a step of the job itself, or the
\* job is sent or killed.
LEMMA WhatMovesAJob ==
  ASSUME IInv, [Next]_vars, NEW k \in Jobs
  PROVE  \/ JobStep(k)
         \/ /\ \/ pc'[k] = pc[k]
               \/ pc[k] = "unused" /\ pc'[k] = "queued"
               \/ pc[k] \in Running /\ pc'[k] = "killed"
            /\ failed'[k] = failed[k] /\ dlq'[k] = dlq[k] /\ (k \in prs' <=> k \in prs)
<1> DEFINE Goal ==
      \/ JobStep(k)
      \/ /\ \/ pc'[k] = pc[k]
            \/ pc[k] = "unused" /\ pc'[k] = "queued"
            \/ pc[k] \in Running /\ pc'[k] = "killed"
         /\ failed'[k] = failed[k] /\ dlq'[k] = dlq[k] /\ (k \in prs' <=> k \in prs)
<1> USE DEF IInv, TypeInv, TypeOK
<1>1. CASE SubmitCreate
  BY <1>1 DEF SubmitCreate
<1>2. CASE SubmitRecord
  BY <1>2 DEF SubmitRecord
<1>3. ASSUME NEW j \in Jobs, SubmitEnqueue(j)
      PROVE  Goal
  BY <1>3 DEF SubmitEnqueue
<1>4. CASE SubmitFails
  BY <1>4 DEF SubmitFails
<1>5. CASE WorkerRestart
  BY <1>5 DEF WorkerRestart
<1>6. ASSUME NEW c \in Cancels, CancelRead(c)
      PROVE  Goal
  BY <1>6 DEF CancelRead
<1>7. ASSUME NEW c \in Cancels, CancelRevoke(c)
      PROVE  Goal
  BY <1>7 DEF CancelRevoke
<1>8. ASSUME NEW c \in Cancels, CancelWrite(c)
      PROVE  Goal
  BY <1>8 DEF CancelWrite
<1>9. ASSUME NEW c \in Cancels, CancelFails(c)
      PROVE  Goal
  BY <1>9 DEF CancelFails
<1>10. ASSUME NEW r \in Retries, RetryRequest(r)
      PROVE  Goal
  BY <1>10 DEF RetryRequest
<1>11. ASSUME NEW r \in Retries, RetryReset(r)
      PROVE  Goal
  BY <1>11 DEF RetryReset
<1>12. ASSUME NEW r \in Retries, RetryRecord(r)
      PROVE  Goal
  BY <1>12 DEF RetryRecord
<1>13. ASSUME NEW r \in Retries, NEW j \in Jobs, RetryEnqueue(r, j)
      PROVE  Goal
  BY <1>13 DEF RetryEnqueue
<1>14. ASSUME NEW r \in Retries, RetryFails(r)
      PROVE  Goal
  BY <1>14 DEF RetryFails
<1>15. ASSUME NEW j \in Jobs, HandleRevoke(j)
      PROVE  Goal
  BY <1>15 DEF HandleRevoke
<1>16. ASSUME NEW j \in Jobs, Receive(j)
      PROVE  Goal
  <2>1. CASE j = k
    BY <1>16, <2>1 DEF JobStep, AroundGraph
  <2>2. CASE j # k
    BY <1>16, <2>2 DEF Receive
  <2> QED BY <2>1, <2>2
<1>17. ASSUME NEW j \in Jobs, LoadKeys(j)
      PROVE  Goal
  <2>1. CASE j = k
    BY <1>17, <2>1 DEF JobStep, AroundGraph
  <2>2. CASE j # k
    BY <1>17, <2>2 DEF LoadKeys
  <2> QED BY <2>1, <2>2
<1>18. ASSUME NEW j \in Jobs, Begin(j)
      PROVE  Goal
  <2>1. CASE j = k
    BY <1>18, <2>1 DEF JobStep, AroundGraph
  <2>2. CASE j # k
    BY <1>18, <2>2 DEF Begin
  <2> QED BY <2>1, <2>2
<1>19. ASSUME NEW j \in Jobs, AssertKeys(j)
      PROVE  Goal
  <2>1. CASE j = k
    BY <1>19, <2>1 DEF JobStep, AroundGraph
  <2>2. CASE j # k
    BY <1>19, <2>2 DEF AssertKeys
  <2> QED BY <2>1, <2>2
<1>20. ASSUME NEW j \in Jobs, NodeEnter(j)
      PROVE  Goal
  <2>1. CASE j = k
    BY <1>20, <2>1 DEF JobStep, InGraph
  <2>2. CASE j # k
    BY <1>20, <2>2 DEF NodeEnter
  <2> QED BY <2>1, <2>2
<1>21. ASSUME NEW j \in Jobs, CheckCancelled(j)
      PROVE  Goal
  <2>1. CASE j = k
    BY <1>21, <2>1 DEF JobStep, InGraph
  <2>2. CASE j # k
    BY <1>21, <2>2 DEF CheckCancelled
  <2> QED BY <2>1, <2>2
<1>22. ASSUME NEW j \in Jobs, NodeWork(j)
      PROVE  Goal
  <2>1. CASE j = k
    BY <1>22, <2>1 DEF JobStep, InGraph
  <2>2. CASE j # k
    BY <1>22, <2>2 DEF NodeWork
  <2> QED BY <2>1, <2>2
<1>23. ASSUME NEW j \in Jobs, NEW ok \in BOOLEAN, Execute(j, ok)
      PROVE  Goal
  <2>1. CASE j = k
    BY <1>23, <2>1 DEF JobStep, InGraph
  <2>2. CASE j # k
    BY <1>23, <2>2 DEF Execute
  <2> QED BY <2>1, <2>2
<1>24. ASSUME NEW j \in Jobs, CreatePullRequest(j)
      PROVE  Goal
  <2>1. CASE j = k
    BY <1>24, <2>1 DEF JobStep, InGraph
  <2>2. CASE j # k
    BY <1>24, <2>2 DEF CreatePullRequest
  <2> QED BY <2>1, <2>2
<1>25. ASSUME NEW j \in Jobs, LeaveCreatePr(j)
      PROVE  Goal
  <2>1. CASE j = k
    BY <1>25, <2>1 DEF JobStep, InGraph
  <2>2. CASE j # k
    BY <1>25, <2>2 DEF LeaveCreatePr
  <2> QED BY <2>1, <2>2
<1>26. ASSUME NEW j \in Jobs, NodeSendToDlq(j)
      PROVE  Goal
  <2>1. CASE j = k
    BY <1>26, <2>1 DEF JobStep, InGraph
  <2>2. CASE j # k
    BY <1>26, <2>2 DEF NodeSendToDlq
  <2> QED BY <2>1, <2>2
<1>27. ASSUME NEW j \in Jobs, NodeRaises(j)
      PROVE  Goal
  <2>1. CASE j = k
    BY <1>27, <2>1 DEF JobStep, InGraph
  <2>2. CASE j # k
    BY <1>27, <2>2 DEF NodeRaises
  <2> QED BY <2>1, <2>2
<1>28. ASSUME NEW j \in Jobs, NodeFailed(j)
      PROVE  Goal
  <2>1. CASE j = k
    BY <1>28, <2>1 DEF JobStep, InGraph
  <2>2. CASE j # k
    BY <1>28, <2>2 DEF NodeFailed
  <2> QED BY <2>1, <2>2
<1>29. ASSUME NEW j \in Jobs, AfterGraph(j)
      PROVE  Goal
  <2>1. CASE j = k
    BY <1>29, <2>1 DEF JobStep, AroundGraph
  <2>2. CASE j # k
    BY <1>29, <2>2 DEF AfterGraph
  <2> QED BY <2>1, <2>2
<1>30. ASSUME NEW j \in Jobs, MarkFailed(j)
      PROVE  Goal
  <2>1. CASE j = k
    BY <1>30, <2>1 DEF JobStep, AroundGraph
  <2>2. CASE j # k
    BY <1>30, <2>2 DEF MarkFailed
  <2> QED BY <2>1, <2>2
<1>31. ASSUME NEW j \in Jobs, WriteDlq(j)
      PROVE  Goal
  <2>1. CASE j = k
    BY <1>31, <2>1 DEF JobStep, AroundGraph
  <2>2. CASE j # k
    BY <1>31, <2>2 DEF WriteDlq
  <2> QED BY <2>1, <2>2
<1>32. ASSUME NEW j \in Jobs, SetPrUrl(j)
      PROVE  Goal
  <2>1. CASE j = k
    BY <1>32, <2>1 DEF JobStep, AroundGraph
  <2>2. CASE j # k
    BY <1>32, <2>2 DEF SetPrUrl
  <2> QED BY <2>1, <2>2
<1>33. ASSUME NEW j \in Jobs, MarkSuccess(j)
      PROVE  Goal
  <2>1. CASE j = k
    BY <1>33, <2>1 DEF JobStep, AroundGraph
  <2>2. CASE j # k
    BY <1>33, <2>2 DEF MarkSuccess
  <2> QED BY <2>1, <2>2
<1>34. ASSUME NEW j \in Jobs, LastCommit(j)
      PROVE  Goal
  <2>1. CASE j = k
    BY <1>34, <2>1 DEF JobStep, AroundGraph
  <2>2. CASE j # k
    BY <1>34, <2>2 DEF LastCommit
  <2> QED BY <2>1, <2>2
<1>35. ASSUME NEW j \in Jobs, TaskRaises(j)
      PROVE  Goal
  <2>1. CASE j = k
    BY <1>35, <2>1 DEF JobStep, AroundGraph
  <2>2. CASE j # k
    BY <1>35, <2>2 DEF TaskRaises
  <2> QED BY <2>1, <2>2
<1>36. ASSUME NEW j \in Jobs, HandleRaised(j)
      PROVE  Goal
  <2>1. CASE j = k
    BY <1>36, <2>1 DEF JobStep, AroundGraph
  <2>2. CASE j # k
    BY <1>36, <2>2 DEF HandleRaised
  <2> QED BY <2>1, <2>2
<1>37. ASSUME NEW j \in Jobs, RescueRaises(j)
      PROVE  Goal
  <2>1. CASE j = k
    BY <1>37, <2>1 DEF JobStep, AroundGraph
  <2>2. CASE j # k
    BY <1>37, <2>2 DEF RescueRaises
  <2> QED BY <2>1, <2>2
<1>38. ASSUME NEW j \in Jobs, KillJob(j)
      PROVE  Goal
  BY <1>38 DEF KillJob
<1>39. CASE UNCHANGED vars
  BY <1>39 DEF vars
<1> QED
  BY <1>1, <1>2, <1>3, <1>4, <1>5, <1>6, <1>7, <1>8, <1>9, <1>10, <1>11,
     <1>12, <1>13, <1>14, <1>15, <1>16, <1>17, <1>18, <1>19, <1>20, <1>21,
     <1>22, <1>23, <1>24, <1>25, <1>26, <1>27, <1>28, <1>29, <1>30, <1>31,
     <1>32, <1>33, <1>34, <1>35, <1>36, <1>37, <1>38, <1>39
  DEF Next, SubmitStep, CancelStep, RetryStep, JobStep, InGraph, AroundGraph

LEMMA OutcomeStep ==
  ASSUME Faults \cap {"db", "net"} = {}, IInv, [Next]_vars, NEW k \in Jobs, Outcome(k)
  PROVE  Outcome(k)'
<1> USE DEF IInv, TypeInv, TypeOK, JobInv, Outcome, Rejecting, Losing, Unstarted, BeforePr,
            AfterPr, Ended, Running, InNode, InTask, InRescue, MaxLetters
<1>1. CASE Receive(k)
  BY <1>1 DEF Receive
<1>2. CASE LoadKeys(k)
  BY <1>2 DEF LoadKeys
<1>3. CASE Begin(k)
  BY <1>3 DEF Begin
<1>4. CASE AssertKeys(k)
  BY <1>4 DEF AssertKeys
<1>5. CASE NodeEnter(k)
  BY <1>5 DEF NodeEnter
<1>6. CASE CheckCancelled(k)
  BY <1>6 DEF CheckCancelled
<1>7. CASE NodeWork(k)
  BY <1>7 DEF NodeWork, Successor
<1>8. ASSUME NEW ok \in BOOLEAN, Execute(k, ok)
      PROVE  Outcome(k)'
  BY <1>8 DEF Execute, RouteAfterExecute
<1>9. CASE CreatePullRequest(k)
  BY <1>9 DEF CreatePullRequest
<1>10. CASE LeaveCreatePr(k)
  BY <1>10 DEF LeaveCreatePr
<1>11. CASE NodeSendToDlq(k)
  BY <1>11 DEF NodeSendToDlq
<1>12. CASE NodeRaises(k)
  BY <1>12 DEF NodeRaises
<1>13. CASE NodeFailed(k)
  BY <1>13 DEF NodeFailed
<1>14. CASE AfterGraph(k)
  BY <1>14 DEF AfterGraph
<1>15. CASE MarkFailed(k)
  BY <1>15 DEF MarkFailed
<1>16. CASE WriteDlq(k)
  BY <1>16 DEF WriteDlq
<1>17. CASE SetPrUrl(k)
  BY <1>17 DEF SetPrUrl
<1>18. CASE MarkSuccess(k)
  BY <1>18 DEF MarkSuccess
<1>19. CASE LastCommit(k)
  BY <1>19 DEF LastCommit
<1>20. CASE TaskRaises(k)
  BY <1>20 DEF TaskRaises
<1>21. CASE HandleRaised(k)
  BY <1>21 DEF HandleRaised
<1>22. CASE RescueRaises(k)
  BY <1>22 DEF RescueRaises
<1>23. CASE ~JobStep(k)
  BY <1>23, WhatMovesAJob
<1> QED
  BY <1>1, <1>2, <1>3, <1>4, <1>5, <1>6, <1>7, <1>8, <1>9, <1>10, <1>11,
     <1>12, <1>13, <1>14, <1>15, <1>16, <1>17, <1>18, <1>19, <1>20, <1>21,
     <1>22, <1>23
  DEF JobStep, InGraph, AroundGraph

\* A job that ran to its end either opened a pull request or wrote a dead letter,
\* for any number of jobs, requests and fixes, also when processes die, messages
\* are not published and keys are missing (workflow_tasks.py:77-107).
THEOREM DoneHasOneOutcome ==
  ASSUME Faults \cap {"db", "net"} = {}
  PROVE  Spec => []PublishedXorDeadLettered
<1>1. Init => \A j \in Jobs : Outcome(j)
  BY DEF Init, Outcome, Rejecting, Losing
<1>2. IInv /\ (\A j \in Jobs : Outcome(j)) /\ [Next]_vars => (\A j \in Jobs : Outcome(j))'
  BY OutcomeStep
<1>3. (\A j \in Jobs : Outcome(j)) => PublishedXorDeadLettered
  BY DEF Outcome, PublishedXorDeadLettered
<1> QED
  BY <1>1, <1>2, <1>3, Inductive, PTL DEF Spec

-----------------------------------------------------------------------------

\* Who gives up does not come back.
LEMMA LostStays ==
  ASSUME Faults \cap {"db", "net"} = {}, IInv, [Next]_vars, NEW k \in Jobs, Lost(k)
  PROVE  Lost(k)'
<1> USE DEF IInv, TypeInv, TypeOK, JobInv, Lost, Rejecting, Losing, Unstarted, BeforePr,
            AfterPr, Ended, Running, InNode, InTask, InRescue, MaxLetters
<1>1. CASE Receive(k)
  BY <1>1 DEF Receive
<1>2. CASE LoadKeys(k)
  BY <1>2 DEF LoadKeys
<1>3. CASE Begin(k)
  BY <1>3 DEF Begin
<1>4. CASE AssertKeys(k)
  BY <1>4 DEF AssertKeys
<1>5. CASE NodeEnter(k)
  BY <1>5 DEF NodeEnter
<1>6. CASE CheckCancelled(k)
  BY <1>6 DEF CheckCancelled
<1>7. CASE NodeWork(k)
  BY <1>7 DEF NodeWork, Successor
<1>8. ASSUME NEW ok \in BOOLEAN, Execute(k, ok)
      PROVE  Lost(k)'
  BY <1>8 DEF Execute, RouteAfterExecute
<1>9. CASE CreatePullRequest(k)
  BY <1>9 DEF CreatePullRequest
<1>10. CASE LeaveCreatePr(k)
  BY <1>10 DEF LeaveCreatePr
<1>11. CASE NodeSendToDlq(k)
  BY <1>11 DEF NodeSendToDlq
<1>12. CASE NodeRaises(k)
  BY <1>12 DEF NodeRaises
<1>13. CASE NodeFailed(k)
  BY <1>13 DEF NodeFailed
<1>14. CASE AfterGraph(k)
  BY <1>14 DEF AfterGraph
<1>15. CASE MarkFailed(k)
  BY <1>15 DEF MarkFailed
<1>16. CASE WriteDlq(k)
  BY <1>16 DEF WriteDlq
<1>17. CASE SetPrUrl(k)
  BY <1>17 DEF SetPrUrl
<1>18. CASE MarkSuccess(k)
  BY <1>18 DEF MarkSuccess
<1>19. CASE LastCommit(k)
  BY <1>19 DEF LastCommit
<1>20. CASE TaskRaises(k)
  BY <1>20 DEF TaskRaises
<1>21. CASE HandleRaised(k)
  BY <1>21 DEF HandleRaised
<1>22. CASE RescueRaises(k)
  BY <1>22 DEF RescueRaises
<1>23. CASE ~JobStep(k)
  BY <1>23, WhatMovesAJob
<1> QED
  BY <1>1, <1>2, <1>3, <1>4, <1>5, <1>6, <1>7, <1>8, <1>9, <1>10, <1>11,
     <1>12, <1>13, <1>14, <1>15, <1>16, <1>17, <1>18, <1>19, <1>20, <1>21,
     <1>22, <1>23
  DEF JobStep, InGraph, AroundGraph

Retried(r) == retry[r] \in {"queued", "sending", "sent", "done"} \/ retryJob[r] # NoJob

\* Jobs come from the submission and from retries; the row says "failed", and a
\* retry was accepted, only after the job of the submission was lost.
RetryInv ==
  /\ \A j \in Jobs : pc[j] # "unused" => j = submitJob \/ \E r \in Retries : j = retryJob[r]
  /\ submit \in {"idle", "created"} => submitJob = NoJob
  /\ \A r \in Retries : retry[r] \in {"idle", "queued", "sending"} => retryJob[r] = NoJob
  /\ \A r \in Retries : Retried(r) => submitJob \in Jobs /\ Lost(submitJob)
  /\ status = "failed" => \E j \in Jobs : Lost(j)

\* The row says "failed" after a step only if it did before or a lost job wrote it.
LEMMA RowSaysFailed ==
  ASSUME IInv, \A j \in Jobs : Outcome(j), [Next]_vars, status' = "failed"
  PROVE  status = "failed" \/ \E j \in Jobs : Lost(j)'
<1> DEFINE Goal == status = "failed" \/ \E j \in Jobs : Lost(j)'
<1> USE DEF IInv, TypeInv, TypeOK, JobInv, Outcome, Lost, Rejecting, Losing, BeforePr, Nodes
<1>1. CASE SubmitCreate
  BY <1>1 DEF SubmitCreate
<1>2. CASE SubmitRecord
  BY <1>2 DEF SubmitRecord
<1>3. ASSUME NEW j \in Jobs, SubmitEnqueue(j)
      PROVE  Goal
  BY <1>3 DEF SubmitEnqueue
<1>4. CASE SubmitFails
  BY <1>4 DEF SubmitFails
<1>5. CASE WorkerRestart
  BY <1>5 DEF WorkerRestart
<1>6. ASSUME NEW c \in Cancels, CancelRead(c)
      PROVE  Goal
  BY <1>6 DEF CancelRead
<1>7. ASSUME NEW c \in Cancels, CancelRevoke(c)
      PROVE  Goal
  BY <1>7 DEF CancelRevoke
<1>8. ASSUME NEW c \in Cancels, CancelWrite(c)
      PROVE  Goal
  BY <1>8 DEF CancelWrite
<1>9. ASSUME NEW c \in Cancels, CancelFails(c)
      PROVE  Goal
  BY <1>9 DEF CancelFails
<1>10. ASSUME NEW r \in Retries, RetryRequest(r)
      PROVE  Goal
  BY <1>10 DEF RetryRequest
<1>11. ASSUME NEW r \in Retries, RetryReset(r)
      PROVE  Goal
  BY <1>11 DEF RetryReset
<1>12. ASSUME NEW r \in Retries, RetryRecord(r)
      PROVE  Goal
  BY <1>12 DEF RetryRecord
<1>13. ASSUME NEW r \in Retries, NEW j \in Jobs, RetryEnqueue(r, j)
      PROVE  Goal
  BY <1>13 DEF RetryEnqueue
<1>14. ASSUME NEW r \in Retries, RetryFails(r)
      PROVE  Goal
  BY <1>14 DEF RetryFails
<1>15. ASSUME NEW j \in Jobs, HandleRevoke(j)
      PROVE  Goal
  BY <1>15 DEF HandleRevoke
<1>16. ASSUME NEW j \in Jobs, Receive(j)
      PROVE  Goal
  BY <1>16 DEF Receive
<1>17. ASSUME NEW j \in Jobs, LoadKeys(j)
      PROVE  Goal
  BY <1>17 DEF LoadKeys
<1>18. ASSUME NEW j \in Jobs, Begin(j)
      PROVE  Goal
  BY <1>18 DEF Begin
<1>19. ASSUME NEW j \in Jobs, AssertKeys(j)
      PROVE  Goal
  BY <1>19 DEF AssertKeys
<1>20. ASSUME NEW j \in Jobs, NodeEnter(j)
      PROVE  Goal
  BY <1>20 DEF NodeEnter
<1>21. ASSUME NEW j \in Jobs, CheckCancelled(j)
      PROVE  Goal
  BY <1>21 DEF CheckCancelled
<1>22. ASSUME NEW j \in Jobs, NodeWork(j)
      PROVE  Goal
  BY <1>22 DEF NodeWork, Successor
<1>23. ASSUME NEW j \in Jobs, NEW ok \in BOOLEAN, Execute(j, ok)
      PROVE  Goal
  BY <1>23 DEF Execute, RouteAfterExecute
<1>24. ASSUME NEW j \in Jobs, CreatePullRequest(j)
      PROVE  Goal
  BY <1>24 DEF CreatePullRequest
<1>25. ASSUME NEW j \in Jobs, LeaveCreatePr(j)
      PROVE  Goal
  BY <1>25 DEF LeaveCreatePr
<1>26. ASSUME NEW j \in Jobs, NodeSendToDlq(j)
      PROVE  Goal
  BY <1>26 DEF NodeSendToDlq
<1>27. ASSUME NEW j \in Jobs, NodeRaises(j)
      PROVE  Goal
  BY <1>27 DEF NodeRaises
<1>28. ASSUME NEW j \in Jobs, NodeFailed(j)
      PROVE  Goal
  BY <1>28 DEF NodeFailed
<1>29. ASSUME NEW j \in Jobs, AfterGraph(j)
      PROVE  Goal
  BY <1>29 DEF AfterGraph
<1>30. ASSUME NEW j \in Jobs, MarkFailed(j)
      PROVE  Goal
  BY <1>30 DEF MarkFailed
<1>31. ASSUME NEW j \in Jobs, WriteDlq(j)
      PROVE  Goal
  BY <1>31 DEF WriteDlq
<1>32. ASSUME NEW j \in Jobs, SetPrUrl(j)
      PROVE  Goal
  BY <1>32 DEF SetPrUrl
<1>33. ASSUME NEW j \in Jobs, MarkSuccess(j)
      PROVE  Goal
  BY <1>33 DEF MarkSuccess
<1>34. ASSUME NEW j \in Jobs, LastCommit(j)
      PROVE  Goal
  BY <1>34 DEF LastCommit
<1>35. ASSUME NEW j \in Jobs, TaskRaises(j)
      PROVE  Goal
  BY <1>35 DEF TaskRaises
<1>36. ASSUME NEW j \in Jobs, HandleRaised(j)
      PROVE  Goal
  BY <1>36 DEF HandleRaised
<1>37. ASSUME NEW j \in Jobs, RescueRaises(j)
      PROVE  Goal
  BY <1>37 DEF RescueRaises
<1>38. ASSUME NEW j \in Jobs, KillJob(j)
      PROVE  Goal
  BY <1>38 DEF KillJob
<1>39. CASE UNCHANGED vars
  BY <1>39 DEF vars
<1> QED
  BY <1>1, <1>2, <1>3, <1>4, <1>5, <1>6, <1>7, <1>8, <1>9, <1>10, <1>11,
     <1>12, <1>13, <1>14, <1>15, <1>16, <1>17, <1>18, <1>19, <1>20, <1>21,
     <1>22, <1>23, <1>24, <1>25, <1>26, <1>27, <1>28, <1>29, <1>30, <1>31,
     <1>32, <1>33, <1>34, <1>35, <1>36, <1>37, <1>38, <1>39
  DEF Next, SubmitStep, CancelStep, RetryStep, JobStep, InGraph, AroundGraph

\* The jobs of the submission and of a retry are new when they are sent.
LEMMA RetryInvStep ==
  ASSUME \A r, s \in Retries : r = s, Faults \cap {"db", "net"} = {},
         IInv, \A j \in Jobs : Outcome(j), RetryInv, [Next]_vars
  PROVE  RetryInv'
<1> USE DEF TypeInv, TypeOK, Retried
<1>1. \A j \in Jobs : Lost(j) => Lost(j)'
  BY LostStays
<1>2. status' = "failed" => \E j \in Jobs : Lost(j)'
  BY <1>1, RowSaysFailed DEF RetryInv
<1>3. \A j \in Jobs : Lost(j) => pc[j] # "unused"
  BY DEF Lost, Rejecting, Losing, Ended
<1> USE <1>1, <1>2, <1>3 DEF RetryInv, Lost, Rejecting, Losing, Ended
<1>4. CASE SubmitCreate
  BY <1>4 DEF SubmitCreate
<1>5. CASE SubmitRecord
  BY <1>5 DEF SubmitRecord
<1>6. ASSUME NEW j \in Jobs, SubmitEnqueue(j)
      PROVE  RetryInv'
  <2>1. /\ submit' = "sent" /\ submitJob' = j /\ UNCHANGED <<retry, retryJob>>
        /\ \A i \in Jobs : pc'[i] # "unused" => pc[i] # "unused" \/ i = j
    BY <1>6 DEF SubmitEnqueue
  <2>2. submitJob = NoJob /\ NoJob \notin Jobs
    BY <1>6, NoJobAssumption DEF SubmitEnqueue
  <2> QED BY <2>1, <2>2
<1>7. CASE SubmitFails
  BY <1>7 DEF SubmitFails
<1>8. CASE WorkerRestart
  <2>1. UNCHANGED <<submit, submitJob, retry, retryJob>>
    BY <1>8 DEF WorkerRestart
  <2>2. \A i \in Jobs : pc'[i] # "unused" => pc[i] # "unused"
    BY <1>8 DEF WorkerRestart, IInv, Running, InNode, InTask, InRescue
  <2> QED BY <2>1, <2>2
<1>9. ASSUME NEW c \in Cancels, CancelRead(c)
      PROVE  RetryInv'
  BY <1>9 DEF CancelRead
<1>10. ASSUME NEW c \in Cancels, CancelRevoke(c)
      PROVE  RetryInv'
  BY <1>10 DEF CancelRevoke
<1>11. ASSUME NEW c \in Cancels, CancelWrite(c)
      PROVE  RetryInv'
  BY <1>11 DEF CancelWrite
<1>12. ASSUME NEW c \in Cancels, CancelFails(c)
      PROVE  RetryInv'
  BY <1>12 DEF CancelFails
<1>13. ASSUME NEW r \in Retries, RetryRequest(r)
      PROVE  RetryInv'
  <2>1. /\ retry[r] = "idle" /\ UNCHANGED <<submit, submitJob, retryJob, pc, prs, failed>>
        /\ retry'[r] = IF status = "failed" THEN "queued" ELSE "error"
        /\ \A i \in Retries : i = r
    BY <1>13 DEF RetryRequest, IInv
  <2>2. ASSUME status = "failed"
        PROVE  submitJob \in Jobs /\ Lost(submitJob)
    <3>1. PICK j \in Jobs : Lost(j)
      BY <2>2
    <3>2. retryJob[r] \notin Jobs
      BY <2>1, NoJobAssumption
    <3> QED BY <2>1, <3>1, <3>2
  <2> QED BY <2>1, <2>2
<1>14. ASSUME NEW r \in Retries, RetryReset(r)
      PROVE  RetryInv'
  BY <1>14 DEF RetryReset
<1>15. ASSUME NEW r \in Retries, RetryRecord(r)
      PROVE  RetryInv'
  BY <1>15 DEF RetryRecord
<1>16. ASSUME NEW r \in Retries, NEW j \in Jobs, RetryEnqueue(r, j)
      PROVE  RetryInv'
  <2>1. /\ retry[r] = "sending" /\ retry'[r] = "sent" /\ retryJob'[r] = j
        /\ UNCHANGED <<submit, submitJob>> /\ retryJob[r] = NoJob
        /\ \A i \in Retries : i = r
        /\ \A i \in Jobs : pc'[i] # "unused" => pc[i] # "unused" \/ i = j
    BY <1>16 DEF RetryEnqueue, IInv
  <2>2. submitJob \in Jobs /\ Lost(submitJob)
    BY <2>1
  <2> QED BY <2>1, <2>2, NoJobAssumption
<1>17. ASSUME NEW r \in Retries, RetryFails(r)
      PROVE  RetryInv'
  BY <1>17 DEF RetryFails
<1>18. ASSUME NEW j \in Jobs, HandleRevoke(j)
      PROVE  RetryInv'
  <2>1. UNCHANGED <<submit, submitJob, retry, retryJob>>
    BY <1>18 DEF HandleRevoke
  <2>2. \A i \in Jobs : pc'[i] # "unused" => pc[i] # "unused"
    BY <1>18 DEF HandleRevoke, IInv, Running, InNode, InTask, InRescue
  <2> QED BY <2>1, <2>2
<1>19. ASSUME NEW j \in Jobs, Receive(j)
      PROVE  RetryInv'
  BY <1>19 DEF Receive
<1>20. ASSUME NEW j \in Jobs, LoadKeys(j)
      PROVE  RetryInv'
  <2>1. UNCHANGED <<submit, submitJob, retry, retryJob>>
    BY <1>20 DEF LoadKeys
  <2>2. \A i \in Jobs : pc'[i] # "unused" => pc[i] # "unused"
    BY <1>20 DEF LoadKeys, IInv, Running, InNode, InTask, InRescue
  <2> QED BY <2>1, <2>2
<1>21. ASSUME NEW j \in Jobs, Begin(j)
      PROVE  RetryInv'
  BY <1>21 DEF Begin
<1>22. ASSUME NEW j \in Jobs, AssertKeys(j)
      PROVE  RetryInv'
  <2>1. UNCHANGED <<submit, submitJob, retry, retryJob>>
    BY <1>22 DEF AssertKeys
  <2>2. \A i \in Jobs : pc'[i] # "unused" => pc[i] # "unused"
    BY <1>22 DEF AssertKeys, IInv, Running, InNode, InTask, InRescue
  <2> QED BY <2>1, <2>2
<1>23. ASSUME NEW j \in Jobs, NodeEnter(j)
      PROVE  RetryInv'
  BY <1>23 DEF NodeEnter
<1>24. ASSUME NEW j \in Jobs, CheckCancelled(j)
      PROVE  RetryInv'
  BY <1>24 DEF CheckCancelled
<1>25. ASSUME NEW j \in Jobs, NodeWork(j)
      PROVE  RetryInv'
  BY <1>25 DEF NodeWork, Successor
<1>26. ASSUME NEW j \in Jobs, NEW ok \in BOOLEAN, Execute(j, ok)
      PROVE  RetryInv'
  BY <1>26 DEF Execute, RouteAfterExecute
<1>27. ASSUME NEW j \in Jobs, CreatePullRequest(j)
      PROVE  RetryInv'
  BY <1>27 DEF CreatePullRequest
<1>28. ASSUME NEW j \in Jobs, LeaveCreatePr(j)
      PROVE  RetryInv'
  BY <1>28 DEF LeaveCreatePr
<1>29. ASSUME NEW j \in Jobs, NodeSendToDlq(j)
      PROVE  RetryInv'
  BY <1>29 DEF NodeSendToDlq
<1>30. ASSUME NEW j \in Jobs, NodeRaises(j)
      PROVE  RetryInv'
  BY <1>30 DEF NodeRaises
<1>31. ASSUME NEW j \in Jobs, NodeFailed(j)
      PROVE  RetryInv'
  BY <1>31 DEF NodeFailed
<1>32. ASSUME NEW j \in Jobs, AfterGraph(j)
      PROVE  RetryInv'
  BY <1>32 DEF AfterGraph
<1>33. ASSUME NEW j \in Jobs, MarkFailed(j)
      PROVE  RetryInv'
  <2>1. UNCHANGED <<submit, submitJob, retry, retryJob>>
    BY <1>33 DEF MarkFailed
  <2>2. \A i \in Jobs : pc'[i] # "unused" => pc[i] # "unused"
    BY <1>33 DEF MarkFailed, IInv, Running, InNode, InTask, InRescue
  <2> QED BY <2>1, <2>2
<1>34. ASSUME NEW j \in Jobs, WriteDlq(j)
      PROVE  RetryInv'
  <2>1. UNCHANGED <<submit, submitJob, retry, retryJob>>
    BY <1>34 DEF WriteDlq
  <2>2. \A i \in Jobs : pc'[i] # "unused" => pc[i] # "unused"
    BY <1>34 DEF WriteDlq, IInv, Running, InNode, InTask, InRescue
  <2> QED BY <2>1, <2>2
<1>35. ASSUME NEW j \in Jobs, SetPrUrl(j)
      PROVE  RetryInv'
  BY <1>35 DEF SetPrUrl
<1>36. ASSUME NEW j \in Jobs, MarkSuccess(j)
      PROVE  RetryInv'
  BY <1>36 DEF MarkSuccess
<1>37. ASSUME NEW j \in Jobs, LastCommit(j)
      PROVE  RetryInv'
  BY <1>37 DEF LastCommit
<1>38. ASSUME NEW j \in Jobs, TaskRaises(j)
      PROVE  RetryInv'
  BY <1>38 DEF TaskRaises
<1>39. ASSUME NEW j \in Jobs, HandleRaised(j)
      PROVE  RetryInv'
  BY <1>39 DEF HandleRaised
<1>40. ASSUME NEW j \in Jobs, RescueRaises(j)
      PROVE  RetryInv'
  BY <1>40 DEF RescueRaises
<1>41. ASSUME NEW j \in Jobs, KillJob(j)
      PROVE  RetryInv'
  <2>1. UNCHANGED <<submit, submitJob, retry, retryJob>>
    BY <1>41 DEF KillJob
  <2>2. \A i \in Jobs : pc'[i] # "unused" => pc[i] # "unused"
    BY <1>41 DEF KillJob, IInv, Running, InNode, InTask, InRescue
  <2> QED BY <2>1, <2>2
<1>42. CASE UNCHANGED vars
  BY <1>42 DEF vars
<1> QED
  BY <1>4, <1>5, <1>6, <1>7, <1>8, <1>9, <1>10, <1>11, <1>12, <1>13, <1>14,
     <1>15, <1>16, <1>17, <1>18, <1>19, <1>20, <1>21, <1>22, <1>23, <1>24,
     <1>25, <1>26, <1>27, <1>28, <1>29, <1>30, <1>31, <1>32, <1>33, <1>34,
     <1>35, <1>36, <1>37, <1>38, <1>39, <1>40, <1>41, <1>42
  DEF Next, SubmitStep, CancelStep, RetryStep, JobStep, InGraph, AroundGraph

\* At most one job has a pull request: that of the retry when there is one.
LEMMA OneHasIt ==
  ASSUME \A r, s \in Retries : r = s, IInv, RetryInv
  PROVE  OnePullRequest
<1>1. \E x : prs \subseteq {x}
  <2>1. \A j \in prs : j = submitJob \/ \E r \in Retries : j = retryJob[r]
    BY DEF IInv, TypeInv, TypeOK, JobInv, RetryInv, BeforePr, Unstarted
  <2>2. CASE \A r \in Retries : retryJob[r] = NoJob
    BY <2>1, <2>2, NoJobAssumption DEF IInv, TypeInv, TypeOK
  <2>3. CASE \E r \in Retries : retryJob[r] # NoJob
    <3>1. PICK r \in Retries : retryJob[r] # NoJob
      BY <2>3
    <3>2. submitJob \notin prs
      BY <3>1 DEF RetryInv, Retried, Lost
    <3> QED BY <2>1, <3>1, <3>2
  <2> QED BY <2>2, <2>3
<1>2. PICK x : prs \subseteq {x}
  BY <1>1
<1>3. IsFiniteSet({x}) /\ Cardinality({x}) = 1
  BY FS_Singleton
<1>4. Cardinality(prs) <= Cardinality({x})
  BY <1>2, <1>3, FS_Subset
<1> QED BY <1>3, <1>4 DEF OnePullRequest

\* A task that is retried once gets one pull request at most, for any number of
\* cancellations and fixes and whatever dies on the way: what had failed can no
\* longer publish (workflow.py:164, workflow_tasks.py:77-107).
THEOREM RetryOpensNoSecond ==
  ASSUME Faults \cap {"db", "net"} = {}, \A r, s \in Retries : r = s
  PROVE  Spec => []OnePullRequest
<1>1. Init => RetryInv /\ \A j \in Jobs : Outcome(j)
  BY DEF Init, RetryInv, Retried, Outcome, Rejecting, Losing
<1>2. IInv /\ (\A j \in Jobs : Outcome(j)) /\ [Next]_vars => (\A j \in Jobs : Outcome(j))'
  BY OutcomeStep
<1>3. IInv /\ (\A j \in Jobs : Outcome(j)) /\ RetryInv /\ [Next]_vars => RetryInv'
  BY RetryInvStep
<1>4. IInv /\ RetryInv => OnePullRequest
  BY OneHasIt
<1> QED
  BY <1>1, <1>2, <1>3, <1>4, Inductive, PTL DEF Spec
=============================================================================
