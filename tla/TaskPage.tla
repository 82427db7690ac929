------------------------------ MODULE TaskPage ------------------------------
(***************************************************************************)
(* The page of one task (frontend/src/pages/TaskDetail.jsx) and what it    *)
(* sees of the row: it asks every four seconds while the status that it    *)
(* shows is an active one.  Its requests are not numbered: several may be  *)
(* under way, be answered in any order, or fail.  The row moves as in      *)
(* TaskLifecycle, reduced to what the page can tell apart.                 *)
(***************************************************************************)
EXTENDS Naturals

CONSTANTS
  Flights,  \* bound on the refreshes that are under way together
  MaxJobs   \* bound on the workflow jobs of the task

ASSUME PageAssumption == MaxJobs \in Nat \ {0}

VARIABLES
  task,      \* tasks.status
  jobs,      \* workflow jobs that have no result yet
  late,      \* workflow jobs that wrote a result and may write "failed" yet
  started,   \* workflow jobs so far
  retrying,  \* an accepted retry has not reset the row yet
  revived,   \* history variable: the row has left a final status
  shown,     \* the status the page shows, "none" before the first answer
  flight,    \* refresh -> "free", "asked" or the status it was answered
  button,    \* the button whose request is under way
  slept      \* history variable: it was asleep while the task went on

rowVars  == <<task, jobs, late, started, retrying, revived>>
pageVars == <<rowVars, shown, flight, button, slept>>

ActiveStatus == {"queued", "running"}
FinalStatus  == {"success", "failed", "cancelled"}
AnyStatus    == ActiveStatus \cup FinalStatus

PageTypeOK ==
  /\ task \in AnyStatus
  /\ jobs \in 0..MaxJobs
  /\ late \in 0..MaxJobs
  /\ started \in 1..MaxJobs
  /\ retrying \in BOOLEAN
  /\ revived \in BOOLEAN
  /\ shown \in AnyStatus \cup {"none"}
  /\ flight \in [Flights -> AnyStatus \cup {"free", "asked"}]
  /\ button \in {"idle", "cancel", "cancelling", "retry", "refresh"}
  /\ slept \in BOOLEAN

\* The page asks once when it is opened.
PageInit ==
  /\ task = "queued"
  /\ jobs = 1
  /\ late = 0
  /\ started = 1
  /\ retrying = FALSE
  /\ revived = FALSE
  /\ shown = "none"
  /\ flight \in {[f \in Flights |-> IF f = g THEN "asked" ELSE "free"] : g \in Flights}
  /\ button = "idle"
  /\ slept = FALSE

-----------------------------------------------------------------------------
(* The row.                                                                *)

Write(status) ==
  /\ task' = status
  /\ revived' = (revived \/ (task \in FinalStatus /\ status # task))

\* Every node writes "running", whatever the row says.
JobRuns ==
  /\ jobs > 0
  /\ Write("running")
  /\ UNCHANGED <<jobs, late, started, retrying, shown, flight, button, slept>>

\* The dlq node writes "failed", before the job does so once more; a log entry
\* after the write of the result may fail, and then the job has failed.
JobWritesResult ==
  /\ jobs > 0
  /\ jobs' = jobs - 1
  /\ late' = late + 1
  /\ \E result \in {"success", "failed"} : Write(result)
  /\ UNCHANGED <<started, retrying, shown, flight, button, slept>>

\* A job that notices a cancellation, is revoked or dies writes nothing.
JobEnds ==
  /\ \/ jobs > 0 /\ jobs' = jobs - 1 /\ UNCHANGED late
     \/ late > 0 /\ late' = late - 1 /\ UNCHANGED jobs
  /\ Write("failed") \/ UNCHANGED <<task, revived>>
  /\ UNCHANGED <<started, retrying, shown, flight, button, slept>>

\* retry_failed_task resets the row some time after the request was accepted;
\* its message may be lost.
RetryResets ==
  /\ retrying
  /\ retrying' = FALSE
  /\ \/ Write("queued") /\ jobs' = jobs + 1 /\ started' = started + 1
     \/ UNCHANGED <<task, revived, jobs, started>>
  /\ UNCHANGED <<late, shown, flight, button, slept>>

\* The page asks no more, and the row says otherwise or will still be written.
Asleep ==
  /\ shown \in FinalStatus
  /\ \A f \in Flights : flight[f] = "free"
  /\ \/ shown # task \/ jobs > 0 \/ retrying \/ button = "cancelling"
     \/ late > 0 /\ shown # "failed"

-----------------------------------------------------------------------------
(* The page.                                                               *)

AskServer(f) == flight[f] = "free" /\ flight' = [flight EXCEPT ![f] = "asked"]

\* Mutant: a queued task is not followed.
PollRunning(f) ==
  /\ shown = "running"
  /\ AskServer(f)
  /\ UNCHANGED <<rowVars, shown, button, slept>>

\* setInterval, which the page keeps while it shows an active status.
Poll(f) ==
  /\ shown \in ActiveStatus
  /\ AskServer(f)
  /\ UNCHANGED <<rowVars, shown, button, slept>>

ServerAnswers(f) ==
  /\ flight[f] = "asked"
  /\ flight' = [flight EXCEPT ![f] = task]
  /\ UNCHANGED <<rowVars, shown, button, slept>>

\* The last answer to arrive is shown, be it the last one given or not.
Show(f) ==
  /\ flight[f] \in AnyStatus
  /\ shown' = flight[f]
  /\ flight' = [flight EXCEPT ![f] = "free"]
  /\ UNCHANGED <<rowVars, button>>
  /\ slept' = (slept \/ Asleep')

\* One of the three requests of a refresh fails: the page shows an error and
\* keeps what it showed.
RefreshFails(f) ==
  /\ flight[f] # "free"
  /\ flight' = [flight EXCEPT ![f] = "free"]
  /\ UNCHANGED <<rowVars, shown, button>>
  /\ slept' = (slept \/ Asleep')

Press(b) ==
  /\ button = "idle"
  /\ \/ b = "cancel" /\ shown \in ActiveStatus
     \/ b = "retry" /\ shown = "failed"
     \/ b = "refresh"
  /\ button' = b
  /\ UNCHANGED <<rowVars, shown, flight, slept>>

\* The cancel handler reads the status, and writes later without a look.
CancelChecked ==
  /\ button = "cancel"
  /\ button' = IF task \in ActiveStatus THEN "cancelling" ELSE "idle"
  /\ UNCHANGED <<rowVars, shown, flight, slept>>

\* The request of a button is answered; the page refreshes if it was accepted
\* and the answer is not lost.
CancelAnswered(f) ==
  /\ button = "cancelling"
  /\ button' = "idle"
  /\ Write("cancelled")
  /\ AskServer(f) \/ UNCHANGED flight
  /\ UNCHANGED <<jobs, late, started, retrying, shown>>
  /\ slept' = (slept \/ Asleep')

RetryAnswered(f) ==
  /\ button = "retry"
  /\ button' = "idle"
  /\ IF task = "failed" /\ started < MaxJobs /\ ~retrying
     THEN retrying' = TRUE /\ (AskServer(f) \/ UNCHANGED flight)
     ELSE UNCHANGED <<retrying, flight>>
  /\ UNCHANGED <<task, jobs, late, started, revived, shown>>
  /\ slept' = (slept \/ Asleep')

RefreshPressed(f) ==
  /\ button = "refresh"
  /\ button' = "idle"
  /\ AskServer(f)
  /\ UNCHANGED <<rowVars, shown, slept>>

PageNext ==
  \/ JobRuns \/ JobWritesResult \/ JobEnds \/ RetryResets \/ CancelChecked
  \/ \E f \in Flights :
       \/ Poll(f) \/ ServerAnswers(f) \/ Show(f) \/ RefreshFails(f)
       \/ CancelAnswered(f) \/ RetryAnswered(f) \/ RefreshPressed(f)
  \/ \E b \in {"cancel", "retry", "refresh"} : Press(b)

PageSpec == PageInit /\ [][PageNext]_pageVars

\* Jobs end and retries start.  The timer ticks, the server answers, and not
\* every refresh fails.
PageFairness ==
  /\ WF_pageVars(JobEnds) /\ WF_pageVars(RetryResets)
  /\ WF_pageVars(\E f \in Flights : Poll(f))
  /\ \A f \in Flights : SF_pageVars(ServerAnswers(f)) /\ SF_pageVars(Show(f))

(***************************************************************************)
(* Properties.                                                             *)
(***************************************************************************)

\* A page that has shown something ends up with what the row says and stays
\* there, whatever refreshes fail or overtake each other and whatever buttons
\* are pressed.  It goes wrong only when the row leaves a final status (a retry,
\* or a job that writes over a cancellation) and the last answer that the page
\* got, or the failed last refresh, has left it without a timer: it does not ask
\* again by itself (TaskDetail.jsx:71).
PageCatchesUp == <>[](shown = "none" \/ shown = task \/ (revived /\ slept))
=============================================================================
