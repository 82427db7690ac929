---------------------------- MODULE Services_proofs ----------------------------
(***************************************************************************)
(* Proofs about the parts beside the task row, each for all values of its  *)
(* constants.  RateLimit: INCR gives the requests of one window different  *)
(* counts, so those that pass have different counts from 1 to Limit.       *)
(* LlmCall: a call takes its own answer last.  TaskPage: no more jobs than *)
(* were started.  Chunker: the sizes computed from the settings keep the   *)
(* windows moving and touching each other, for any file and any settings.  *)
(***************************************************************************)
EXTENDS MCServices, FiniteSetTheorems, TLAPS

(***************************************************************************)
(* The rate limiter.                                                       *)
(***************************************************************************)

Counted(q) == stage[q] # "new"

\* What INCR has answered in the current window is at most the counter, and no
\* answer was given twice in a window.
CountsDiffer ==
  \A q \in Requests : Counted(q) =>
    /\ count[q] >= 1
    /\ counted[q] <= window
    /\ counted[q] = window => count[q] <= counter
    /\ \A s \in Requests : Counted(s) /\ s # q /\ counted[s] = counted[q] => count[s] # count[q]

PassedFit == \A q \in Requests : stage[q] = "passed" => count[q] <= Limit

LimitInv == CountsDiffer /\ PassedFit

-----------------------------------------------------------------------------

LEMMA LimitTypeInit == LimitInit => LimitTypeOK
<1> SUFFICES ASSUME LimitInit PROVE LimitTypeOK
  OBVIOUS
<1>1. expiring \in BOOLEAN
  BY DEF LimitInit
<1>2. counter \in Nat /\ window \in Nat
  BY DEF LimitInit
<1>3. /\ stage \in [Requests -> Stages]
      /\ count \in [Requests -> Nat]
      /\ counted \in [Requests -> Nat]
  BY DEF LimitInit, Stages
<1> QED BY <1>1, <1>2, <1>3, Zenon DEF LimitTypeOK

LEMMA LimitTypeStep == LimitTypeOK /\ [LimitNext]_limitVars => LimitTypeOK'
<1> SUFFICES ASSUME LimitTypeOK, [LimitNext]_limitVars PROVE LimitTypeOK'
  OBVIOUS
<1> USE DEF LimitTypeOK, Stages, Advance
<1>1. CASE ExpireKey
  <2>1. expiring' \in BOOLEAN
    BY <1>1, Zenon DEF ExpireKey
  <2>2. counter' \in Nat /\ window' \in Nat
    BY <1>1 DEF ExpireKey
  <2>3. UNCHANGED <<stage, count, counted>>
    BY <1>1 DEF ExpireKey
  <2> QED BY <2>1, <2>2, <2>3
<1>2. ASSUME NEW q \in Requests, Incr(q) PROVE LimitTypeOK'
  BY <1>2 DEF Incr
<1>3. ASSUME NEW q \in Requests, SetExpiry(q) \/ Decide(q) \/ CrashRequest(q)
      PROVE  LimitTypeOK'
  BY <1>3 DEF SetExpiry, Decide, CrashRequest
<1>4. CASE UNCHANGED limitVars
  BY <1>4 DEF limitVars
<1> QED BY <1>1, <1>2, <1>3, <1>4 DEF LimitNext

LEMMA LimitInvInit == LimitInit => LimitInv
BY DEF LimitInit, LimitInv, CountsDiffer, PassedFit, Counted

\* Only INCR makes a count, and it makes one above all those of its window; a
\* request passes only after its count was compared.
LEMMA LimitInvStep == LimitTypeOK /\ LimitInv /\ [LimitNext]_limitVars => LimitInv'
<1> SUFFICES ASSUME LimitTypeOK, LimitInv, [LimitNext]_limitVars PROVE LimitInv'
  OBVIOUS
<1> USE DEF LimitTypeOK, LimitInv, CountsDiffer, PassedFit, Counted, Advance
<1>1. CASE ExpireKey
  BY <1>1 DEF ExpireKey
<1>2. ASSUME NEW q \in Requests, Incr(q) PROVE LimitInv'
  <2>1. \A s \in Requests \ {q} :
          stage'[s] = stage[s] /\ count'[s] = count[s] /\ counted'[s] = counted[s]
    BY <1>2 DEF Incr
  <2>2. /\ stage'[q] = "counted" /\ count'[q] = counter + 1 /\ counted'[q] = window
        /\ window' = window /\ counter' = counter + 1
    BY <1>2 DEF Incr
  <2>3. \A s \in Requests \ {q} : Counted(s) /\ counted[s] = window => count[s] < counter + 1
    OBVIOUS
  <2>4. PassedFit'
    BY <2>1, <2>2
  <2>5. CountsDiffer'
    BY <2>1, <2>2, <2>3
  <2> QED BY <2>4, <2>5
<1>3. ASSUME NEW q \in Requests, SetExpiry(q) PROVE LimitInv'
  BY <1>3 DEF SetExpiry
<1>4. ASSUME NEW q \in Requests, Decide(q) PROVE LimitInv'
  <2>1. /\ UNCHANGED <<counter, window, count, counted>> /\ stage[q] = "deciding"
        /\ \A s \in Requests \ {q} : stage'[s] = stage[s]
        /\ stage'[q] = IF count[q] > Limit THEN "refused" ELSE "passed"
    BY <1>4 DEF Decide
  <2>2. CountsDiffer'
    BY <2>1
  <2>3. PassedFit'
    BY <2>1, LimitAssumption
  <2> QED BY <2>2, <2>3
<1>5. ASSUME NEW q \in Requests, CrashRequest(q) PROVE LimitInv'
  BY <1>5 DEF CrashRequest
<1>6. CASE UNCHANGED limitVars
  BY <1>6 DEF limitVars
<1> QED BY <1>1, <1>2, <1>3, <1>4, <1>5, <1>6 DEF LimitNext

-----------------------------------------------------------------------------

\* More than Limit requests of one window would share a count.
LEMMA CountsBound == LimitTypeOK /\ LimitInv => AtMostLimit
<1> SUFFICES ASSUME LimitTypeOK, LimitInv, NEW w \in 0..window
             PROVE  Cardinality({q \in Requests : stage[q] = "passed" /\ counted[q] = w}) <= Limit
  BY DEF AtMostLimit
<1> DEFINE S == {q \in Requests : stage[q] = "passed" /\ counted[q] = w}
<1> DEFINE f == [q \in S |-> count[q]]
<1>1. IsFiniteSet(S) /\ Cardinality(S) \in Nat
  BY LimitAssumption, FS_Subset, FS_CardinalityType
<1>2. IsFiniteSet(1..Limit) /\ Cardinality(1..Limit) = Limit
  BY LimitAssumption, FS_Interval
<1>3. f \in [S -> 1..Limit]
  BY LimitAssumption DEF LimitInv, CountsDiffer, PassedFit, Counted, LimitTypeOK
<1>4. \A x, y \in S : x # y => f[x] # f[y]
  BY DEF LimitInv, CountsDiffer, Counted
<1> HIDE DEF S, f
<1>5. ~(Cardinality(1..Limit) < Cardinality(S))
  BY <1>1, <1>2, <1>3, <1>4, FS_PigeonHole
<1>6. Cardinality(S) <= Limit
  BY <1>1, <1>2, <1>5, LimitAssumption
<1> QED BY <1>6 DEF S

\* However many requests of a client are handled at the same time, and whatever
\* crashes, no more than Limit of them pass while one key lives.
THEOREM LimitKept == LimitSpec => []AtMostLimit
<1> QED BY LimitTypeInit, LimitTypeStep, LimitInvInit, LimitInvStep, CountsBound, PTL
        DEF LimitSpec

(***************************************************************************)
(* The calls to the model.                                                 *)
(***************************************************************************)

\* A call that has an answer to parse or to store has taken or got one.
HasAnswer == \A c \in Calls : call[c] \in {"storing", "parsing", "repairing"} => answer[c] # NoAnswer

LlmInv == LlmTypeOK /\ HasAnswer /\ TruncatedIsTrue

LEMMA LlmInvInit == LlmInit => LlmInv
BY DEF LlmInit, LlmInv, LlmTypeOK, HasAnswer, TruncatedIsTrue, Ongoing, Results

\* Taking an answer marks the call when it was cut off, and no other.
LEMMA TakeFacts ==
  ASSUME LlmTypeOK, NEW c \in Calls, NEW a \in Answers, Take(c, a)
  PROVE  /\ answer' \in [Calls -> Answers \cup {NoAnswer}] /\ answer'[c] = a
         /\ \A d \in Calls \ {c} : answer'[d] = answer[d]
         /\ reason' \in [Processes -> Reasons \cup {"none"}] /\ reason'[process[c]] = a.reason
         /\ cutOff \subseteq cutOff' /\ cutOff' \subseteq Calls
         /\ a.reason = "length" => c \in cutOff'
BY DEF LlmTypeOK, Take, Answers

\* One call moves, to a place of which the invariant holds.
LEMMA OneCallMoves ==
  ASSUME LlmInv, NEW c \in Calls, NEW place \in Ongoing \cup Results, Become(c, place),
         UNCHANGED process, stored' \in Answers \cup {NoAnswer},
         answer' \in [Calls -> Answers \cup {NoAnswer}],
         \A d \in Calls \ {c} : answer'[d] = answer[d],
         reason' \in [Processes -> Reasons \cup {"none"}],
         cutOff \subseteq cutOff', cutOff' \subseteq Calls,
         place \in {"storing", "parsing", "repairing"} => answer'[c] # NoAnswer,
         place = "truncated" => c \in cutOff'
  PROVE  LlmInv'
<1>1. /\ call' \in [Calls -> {"new"} \cup Ongoing \cup Results] /\ call'[c] = place
      /\ \A d \in Calls \ {c} : call'[d] = call[d]
  BY DEF LlmInv, LlmTypeOK, Become
<1>2. LlmTypeOK'
  BY <1>1 DEF LlmInv, LlmTypeOK
<1>3. HasAnswer'
  BY <1>1 DEF LlmInv, HasAnswer
<1>4. TruncatedIsTrue'
  BY <1>1 DEF LlmInv, TruncatedIsTrue
<1> QED BY <1>2, <1>3, <1>4 DEF LlmInv

LEMMA LlmInvStep == LlmInv /\ [LlmNext]_llmVars => LlmInv'
<1> SUFFICES ASSUME LlmInv, [LlmNext]_llmVars PROVE LlmInv'
  OBVIOUS
<1> USE DEF Ongoing, Results
<1>0. LlmTypeOK /\ HasAnswer
  BY DEF LlmInv
<1>1. ASSUME NEW c \in Calls, LookInCache(c) PROVE LlmInv'
  <2>1. CASE c \in UseCache /\ stored # NoAnswer
    <3>1. stored \in Answers /\ Become(c, "parsing") /\ Take(c, stored) /\ UNCHANGED <<stored, process>>
      BY <1>0, <1>1, <2>1 DEF LookInCache, LlmTypeOK
    <3> QED BY <1>0, <3>1, TakeFacts, OneCallMoves, LlmAssumption DEF LlmTypeOK
  <2>2. CASE ~(c \in UseCache /\ stored # NoAnswer)
    <3>1. Become(c, "asking") /\ UNCHANGED <<stored, process, answer, reason, cutOff>>
      BY <1>1, <2>2 DEF LookInCache
    <3> QED BY <1>0, <3>1, OneCallMoves DEF LlmTypeOK
  <2> QED BY <2>1, <2>2
<1>2. ASSUME NEW c \in Calls, NEW a \in Answers, Ask(c, a) PROVE LlmInv'
  <2>1. CASE c \in UseCache
    <3>1. /\ Become(c, "storing") /\ UNCHANGED <<stored, process, reason, cutOff>>
          /\ answer' = [answer EXCEPT ![c] = a]
      BY <1>2, <2>1 DEF Ask
    <3>2. /\ answer' \in [Calls -> Answers \cup {NoAnswer}] /\ answer'[c] # NoAnswer
          /\ \A d \in Calls \ {c} : answer'[d] = answer[d]
      BY <1>0, <3>1, LlmAssumption DEF LlmTypeOK
    <3> QED BY <1>0, <3>1, <3>2, OneCallMoves DEF LlmTypeOK
  <2>2. CASE c \notin UseCache
    <3>1. Become(c, "parsing") /\ Take(c, a) /\ UNCHANGED <<stored, process>>
      BY <1>2, <2>2 DEF Ask
    <3> QED BY <1>0, <3>1, TakeFacts, OneCallMoves, LlmAssumption DEF LlmTypeOK
  <2> QED BY <2>1, <2>2
<1>3. ASSUME NEW c \in Calls, StoreAnswer(c) PROVE LlmInv'
  <2>1. answer[c] \in Answers
    BY <1>0, <1>3 DEF StoreAnswer, LlmTypeOK, HasAnswer
  <2>2. Become(c, "parsing") /\ stored' = answer[c] /\ Take(c, answer[c]) /\ UNCHANGED process
    BY <1>3 DEF StoreAnswer
  <2> QED BY <1>0, <2>1, <2>2, TakeFacts, OneCallMoves, LlmAssumption
<1>4. ASSUME NEW c \in Calls, Parse(c) PROVE LlmInv'
  <2> DEFINE place == IF answer[c].kind \in Usable THEN "object"
                   ELSE IF answer[c].kind = "damaged" THEN "repairing" ELSE "invalid"
  <2>1. place \in Ongoing \cup Results /\ place # "truncated" /\ answer[c] # NoAnswer
    BY <1>0, <1>4 DEF Parse, HasAnswer
  <2>2. Become(c, place) /\ UNCHANGED <<stored, process, answer, reason, cutOff>>
    BY <1>4 DEF Parse
  <2> HIDE DEF place
  <2> QED BY <1>0, <2>1, <2>2, OneCallMoves DEF LlmTypeOK
<1>5. ASSUME NEW c \in Calls, NEW a \in Answers, Repair(c, a) PROVE LlmInv'
  <2> DEFINE place == IF a.kind \in Usable THEN "object"
                   ELSE IF reason'[process[c]] = "length" THEN "truncated" ELSE "invalid"
  <2>1. Take(c, a) /\ Become(c, place) /\ UNCHANGED <<stored, process>>
    BY <1>5 DEF Repair
  <2>2. place = "truncated" => a.reason = "length"
    BY <1>0, <2>1, TakeFacts
  <2>3. place \in {"object", "invalid", "truncated"}
    OBVIOUS
  <2> HIDE DEF place
  <2> QED BY <1>0, <2>1, <2>2, <2>3, TakeFacts, OneCallMoves DEF LlmTypeOK
<1>6. ASSUME NEW c \in Calls, CallFails(c) PROVE LlmInv'
  BY <1>0, <1>6, OneCallMoves DEF CallFails, LlmTypeOK
<1>7. CASE ForgetAnswer \/ UNCHANGED llmVars
  BY <1>7 DEF ForgetAnswer, llmVars, LlmInv, LlmTypeOK, HasAnswer, TruncatedIsTrue
<1> QED BY <1>1, <1>2, <1>3, <1>4, <1>5, <1>6, <1>7 DEF LlmNext

\* A call that ends as truncated was cut off itself, for any number of calls in
\* any worker processes that share the cache and the context of their process
\* (llm_service.py:231).
THEOREM TruncatedWasCutOff == LlmSpec => []TruncatedIsTrue
<1>1. LlmInv => TruncatedIsTrue
  BY DEF LlmInv
<1> QED BY <1>1, LlmInvInit, LlmInvStep, PTL DEF LlmSpec

(***************************************************************************)
(* The task page.                                                          *)
(***************************************************************************)

\* A retry that was accepted has a job left to start.
JobsCounted ==
  /\ jobs + late <= started
  /\ retrying => started < MaxJobs

PageInv == PageTypeOK /\ JobsCounted

LEMMA PageInvInit == PageInit => PageInv
<1> SUFFICES ASSUME PageInit PROVE PageInv
  OBVIOUS
<1>1. flight \in [Flights -> AnyStatus \cup {"free", "asked"}]
  BY DEF PageInit
<1>2. retrying \in BOOLEAN /\ revived \in BOOLEAN /\ slept \in BOOLEAN
  BY DEF PageInit
<1>3. /\ task \in AnyStatus /\ shown \in AnyStatus \cup {"none"} /\ button = "idle"
      /\ jobs \in 0..MaxJobs /\ late \in 0..MaxJobs /\ started \in 1..MaxJobs
      /\ jobs + late <= started
  BY PageAssumption DEF PageInit, AnyStatus, ActiveStatus, FinalStatus
<1>4. JobsCounted
  BY <1>3 DEF PageInit, JobsCounted
<1> QED BY <1>1, <1>2, <1>3, <1>4, Zenon DEF PageInv, PageTypeOK

LEMMA PageFlags ==
  ASSUME PageTypeOK, PageNext
  PROVE  retrying' \in BOOLEAN /\ revived' \in BOOLEAN /\ slept' \in BOOLEAN
<1> DEFINE Flags == retrying' \in BOOLEAN /\ revived' \in BOOLEAN /\ slept' \in BOOLEAN
<1>0. retrying \in BOOLEAN /\ revived \in BOOLEAN /\ slept \in BOOLEAN
  BY DEF PageTypeOK
<1>1. CASE JobRuns
  BY <1>1, <1>0, Zenon DEF JobRuns, Write, rowVars
<1>2. CASE JobWritesResult
  BY <1>2, <1>0, Zenon DEF JobWritesResult, Write, rowVars
<1>3. CASE JobEnds
  BY <1>3, <1>0, Zenon DEF JobEnds, Write, rowVars
<1>4. CASE RetryResets
  BY <1>4, <1>0, Zenon DEF RetryResets, Write, rowVars
<1>5. CASE CancelChecked
  BY <1>5, <1>0, Zenon DEF CancelChecked, Write, rowVars
<1>6. ASSUME NEW f \in Flights, Poll(f) PROVE Flags
  BY <1>6, <1>0, Zenon DEF Poll, Write, rowVars
<1>7. ASSUME NEW f \in Flights, ServerAnswers(f) PROVE Flags
  BY <1>7, <1>0, Zenon DEF ServerAnswers, Write, rowVars
<1>8. ASSUME NEW f \in Flights, Show(f) PROVE Flags
  BY <1>8, <1>0, Zenon DEF Show, Write, rowVars
<1>9. ASSUME NEW f \in Flights, RefreshFails(f) PROVE Flags
  BY <1>9, <1>0, Zenon DEF RefreshFails, Write, rowVars
<1>10. ASSUME NEW f \in Flights, CancelAnswered(f) PROVE Flags
  BY <1>10, <1>0, Zenon DEF CancelAnswered, Write, rowVars
<1>11. ASSUME NEW f \in Flights, RetryAnswered(f) PROVE Flags
  BY <1>11, <1>0, Zenon DEF RetryAnswered, Write, rowVars
<1>12. ASSUME NEW f \in Flights, RefreshPressed(f) PROVE Flags
  BY <1>12, <1>0, Zenon DEF RefreshPressed, Write, rowVars
<1>13. ASSUME NEW b \in {"cancel", "retry", "refresh"}, Press(b) PROVE Flags
  BY <1>13, <1>0, Zenon DEF Press, Write, rowVars
<1> QED
  BY <1>1, <1>2, <1>3, <1>4, <1>5, <1>6, <1>7, <1>8, <1>9, <1>10, <1>11, <1>12, <1>13
  DEF PageNext

LEMMA PageFlights ==
  ASSUME PageTypeOK, PageNext
  PROVE  flight' \in [Flights -> AnyStatus \cup {"free", "asked"}]
<1> DEFINE Typed == flight' \in [Flights -> AnyStatus \cup {"free", "asked"}]
<1>0. flight \in [Flights -> AnyStatus \cup {"free", "asked"}] /\ task \in AnyStatus
  BY DEF PageTypeOK
<1>1. CASE JobRuns
  BY <1>1, <1>0 DEF JobRuns, AskServer, rowVars
<1>2. CASE JobWritesResult
  BY <1>2, <1>0 DEF JobWritesResult, AskServer, rowVars
<1>3. CASE JobEnds
  BY <1>3, <1>0 DEF JobEnds, AskServer, rowVars
<1>4. CASE RetryResets
  BY <1>4, <1>0 DEF RetryResets, AskServer, rowVars
<1>5. CASE CancelChecked
  BY <1>5, <1>0 DEF CancelChecked, AskServer, rowVars
<1>6. ASSUME NEW f \in Flights, Poll(f) PROVE Typed
  BY <1>6, <1>0 DEF Poll, AskServer, rowVars
<1>7. ASSUME NEW f \in Flights, ServerAnswers(f) PROVE Typed
  BY <1>7, <1>0 DEF ServerAnswers, AskServer, rowVars
<1>8. ASSUME NEW f \in Flights, Show(f) PROVE Typed
  BY <1>8, <1>0 DEF Show, AskServer, rowVars
<1>9. ASSUME NEW f \in Flights, RefreshFails(f) PROVE Typed
  BY <1>9, <1>0 DEF RefreshFails, AskServer, rowVars
<1>10. ASSUME NEW f \in Flights, CancelAnswered(f) PROVE Typed
  BY <1>10, <1>0 DEF CancelAnswered, AskServer, rowVars
<1>11. ASSUME NEW f \in Flights, RetryAnswered(f) PROVE Typed
  BY <1>11, <1>0 DEF RetryAnswered, AskServer, rowVars
<1>12. ASSUME NEW f \in Flights, RefreshPressed(f) PROVE Typed
  BY <1>12, <1>0 DEF RefreshPressed, AskServer, rowVars
<1>13. ASSUME NEW b \in {"cancel", "retry", "refresh"}, Press(b) PROVE Typed
  BY <1>13, <1>0 DEF Press, AskServer, rowVars
<1> QED
  BY <1>1, <1>2, <1>3, <1>4, <1>5, <1>6, <1>7, <1>8, <1>9, <1>10, <1>11, <1>12, <1>13
  DEF PageNext

\* The row moves, and the number of jobs with it.
LEMMA PageCounts ==
  ASSUME PageInv, PageNext
  PROVE  /\ task' \in AnyStatus /\ shown' \in AnyStatus \cup {"none"}
         /\ jobs' \in 0..MaxJobs /\ late' \in 0..MaxJobs /\ started' \in 1..MaxJobs
         /\ button' \in {"idle", "cancel", "cancelling", "retry", "refresh"}
         /\ JobsCounted'
<1> DEFINE Counts ==
      /\ task' \in AnyStatus /\ shown' \in AnyStatus \cup {"none"}
      /\ jobs' \in 0..MaxJobs /\ late' \in 0..MaxJobs /\ started' \in 1..MaxJobs
      /\ button' \in {"idle", "cancel", "cancelling", "retry", "refresh"}
      /\ JobsCounted'
<1> USE PageAssumption DEF JobsCounted, AnyStatus, ActiveStatus, FinalStatus
<1>0. /\ task \in AnyStatus /\ shown \in AnyStatus \cup {"none"}
      /\ jobs \in 0..MaxJobs /\ late \in 0..MaxJobs /\ started \in 1..MaxJobs
      /\ button \in {"idle", "cancel", "cancelling", "retry", "refresh"}
      /\ jobs + late <= started /\ (retrying => started < MaxJobs)
  BY DEF PageInv, PageTypeOK
<1>1. CASE JobRuns
  BY <1>1, <1>0 DEF JobRuns, Write, rowVars
<1>2. CASE JobWritesResult
  BY <1>2, <1>0 DEF JobWritesResult, Write, rowVars
<1>3. CASE JobEnds
  BY <1>3, <1>0 DEF JobEnds, Write, rowVars
<1>4. CASE RetryResets
  BY <1>4, <1>0 DEF RetryResets, Write, rowVars
<1>5. CASE CancelChecked
  BY <1>5, <1>0 DEF CancelChecked, Write, rowVars
<1>6. ASSUME NEW f \in Flights, Poll(f) PROVE Counts
  BY <1>6, <1>0 DEF Poll, Write, rowVars
<1>7. ASSUME NEW f \in Flights, ServerAnswers(f) PROVE Counts
  BY <1>7, <1>0 DEF ServerAnswers, Write, rowVars
<1>8. ASSUME NEW f \in Flights, Show(f) PROVE Counts
  BY <1>8, <1>0 DEF Show, Write, rowVars
<1>9. ASSUME NEW f \in Flights, RefreshFails(f) PROVE Counts
  BY <1>9, <1>0 DEF RefreshFails, Write, rowVars
<1>10. ASSUME NEW f \in Flights, CancelAnswered(f) PROVE Counts
  BY <1>10, <1>0 DEF CancelAnswered, Write, rowVars
<1>11. ASSUME NEW f \in Flights, RetryAnswered(f) PROVE Counts
  BY <1>11, <1>0 DEF RetryAnswered, Write, rowVars
<1>12. ASSUME NEW f \in Flights, RefreshPressed(f) PROVE Counts
  BY <1>12, <1>0 DEF RefreshPressed, Write, rowVars
<1>13. ASSUME NEW b \in {"cancel", "retry", "refresh"}, Press(b) PROVE Counts
  BY <1>13, <1>0 DEF Press, Write, rowVars
<1> QED
  BY <1>1, <1>2, <1>3, <1>4, <1>5, <1>6, <1>7, <1>8, <1>9, <1>10, <1>11, <1>12, <1>13
  DEF PageNext

LEMMA PageInvStep == PageInv /\ [PageNext]_pageVars => PageInv'
<1>1. ASSUME PageInv, PageNext PROVE PageInv'
  <2>1. PageTypeOK
    BY <1>1 DEF PageInv
  <2> QED BY <1>1, <2>1, PageFlags, PageFlights, PageCounts, Zenon DEF PageInv, PageTypeOK
<1>2. ASSUME PageInv, UNCHANGED pageVars PROVE PageInv'
  BY <1>2, Zenon DEF pageVars, rowVars, PageInv, PageTypeOK, JobsCounted
<1> QED BY <1>1, <1>2

(***************************************************************************)
(* The chunker.                                                            *)
(***************************************************************************)

\* A window begins within the segment it cuts.
AtInSegment == at <= to

ChunkInv == AtInSegment /\ EveryLineIndexed /\ ChunksFit

\* Whatever the settings, a window has a line, and the next one begins after it
\* began and not beyond the line after its last one (chunker.py:95-97).
LEMMA SizesFit ==
  ASSUME ChunkTypeOK
  PROVE  /\ WindowLines \in Nat /\ WindowLines >= 1
         /\ Stride \in Nat /\ 1 <= Stride /\ Stride <= WindowLines
BY DEF ChunkTypeOK, WindowLines, Overlap, Stride, Larger, Smaller

-----------------------------------------------------------------------------

LEMMA ChunkTypeInit == ChunkInit => ChunkTypeOK
BY ChunkerAssumption DEF ChunkInit, ChunkTypeOK

\* The first piece has a line or more.
LEMMA FirstPiece ==
  ASSUME ChunkTypeOK, rest # <<>>
  PROVE  Head(rest).height \in Nat \ {0} /\ Tail(rest) \in Seq(Pieces)
<1>1. Head(rest) \in Pieces /\ Tail(rest) \in Seq(Pieces)
  BY DEF ChunkTypeOK
<1> QED BY <1>1 DEF Pieces

LEMMA ChunkTypeStep == ChunkTypeOK /\ [ChunkNext]_chunkVars => ChunkTypeOK'
<1> SUFFICES ASSUME ChunkTypeOK, [ChunkNext]_chunkVars PROVE ChunkTypeOK'
  OBVIOUS
<1>1. CASE NextPiece
  <2>1. /\ Head(rest).height \in Nat \ {0} /\ rest' \in Seq(Pieces)
        /\ to' = to + Head(rest).height /\ UNCHANGED <<python, config>>
    BY <1>1, FirstPiece DEF NextPiece
  <2>2. \/ skipped' = skipped \cup (to + 1)..to' /\ UNCHANGED <<chunks, at>>
        \/ chunks' = chunks \cup {<<to + 1, to'>>} /\ UNCHANGED <<at, skipped>>
        \/ at' = to + 1 /\ UNCHANGED <<chunks, skipped>>
    BY <1>1, <2>1 DEF NextPiece
  <2>3. to \in Nat /\ to' \in Nat
    BY <2>1 DEF ChunkTypeOK
  <2>4. chunks' \subseteq Nat \X Nat
    BY <2>2, <2>3 DEF ChunkTypeOK
  <2>5. skipped' \subseteq Nat
    <3>1. (to + 1)..to' \subseteq Nat /\ skipped \subseteq Nat
      BY <2>3 DEF ChunkTypeOK
    <3>2. skipped' = skipped \/ skipped' = skipped \cup (to + 1)..to'
      BY <2>2
    <3> QED BY <3>1, <3>2
  <2>6. at' \in Nat
    BY <2>2, <2>3 DEF ChunkTypeOK
  <2> QED BY <2>1, <2>3, <2>4, <2>5, <2>6 DEF ChunkTypeOK
<1>2. CASE WholeFile
  BY <1>2, FirstPiece DEF WholeFile, ChunkTypeOK
<1>3. CASE Window
  <2>1. Smaller(at + WindowLines - 1, to) \in Nat /\ at + Stride \in Nat
    BY <1>3, SizesFit DEF ChunkTypeOK, Smaller
  <2>2. at \in Nat /\ at' \in Nat
    BY <1>3, <2>1 DEF Window, ChunkTypeOK
  <2> QED BY <1>3, <2>1, <2>2 DEF Window, ChunkTypeOK
<1>4. CASE UNCHANGED chunkVars
  BY <1>4 DEF chunkVars, ChunkTypeOK
<1> QED BY <1>1, <1>2, <1>3, <1>4 DEF ChunkNext

-----------------------------------------------------------------------------

LEMMA ChunkInvInit == ChunkInit => ChunkInv
BY DEF ChunkInit, ChunkInv, AtInSegment, EveryLineIndexed, ChunksFit

\* A piece is left out, becomes a chunk as a whole, or is about to be cut.
LEMMA PieceKeeps ==
  ASSUME ChunkTypeOK, ChunkInv, NextPiece PROVE ChunkInv'
<1>1. /\ to \in Nat /\ Head(rest).height \in Nat \ {0} /\ at = 0
      /\ to' = to + Head(rest).height /\ config' = config
  BY FirstPiece DEF NextPiece, ChunkTypeOK
<1>2. \/ skipped' = skipped \cup (to + 1)..to' /\ UNCHANGED <<chunks, at>>
      \/ /\ chunks' = chunks \cup {<<to + 1, to'>>} /\ UNCHANGED <<at, skipped>>
         /\ Head(rest).height <= WindowLines
      \/ at' = to + 1 /\ UNCHANGED <<chunks, skipped>>
  BY <1>1 DEF NextPiece
<1>3. WindowLines' = WindowLines /\ WindowLines \in Nat
  BY <1>1, SizesFit DEF WindowLines
<1>4. AtInSegment'
  BY <1>1, <1>2 DEF AtInSegment
<1>5. ChunksFit'
  <2> SUFFICES ASSUME NEW c \in chunks'
               PROVE  1 <= c[1] /\ c[1] <= c[2] /\ c[2] <= to' /\ c[2] - c[1] < WindowLines
    BY <1>3 DEF ChunksFit
  <2>1. CASE c \in chunks
    <3>1. 1 <= c[1] /\ c[1] <= c[2] /\ c[2] <= to /\ c[2] - c[1] < WindowLines
      BY <2>1 DEF ChunkInv, ChunksFit
    <3>2. c[1] \in Nat /\ c[2] \in Nat
      BY <2>1 DEF ChunkTypeOK
    <3> QED BY <1>1, <3>1, <3>2
  <2>2. CASE c = <<to + 1, to'>> /\ Head(rest).height <= WindowLines
    BY <1>1, <1>3, <2>2
  <2> QED BY <1>2, <2>1, <2>2
<1>6. EveryLineIndexed'
  <2> SUFFICES ASSUME NEW line \in 1..to', line < at' \/ at' = 0
               PROVE  Indexed(line)' \/ line \in skipped'
    BY DEF EveryLineIndexed
  <2>1. CASE line <= to
    <3>1. Indexed(line) \/ line \in skipped
      BY <1>1, <2>1 DEF ChunkInv, EveryLineIndexed
    <3> QED BY <1>2, <3>1 DEF Indexed
  <2>2. CASE line > to
    <3>1. line \in (to + 1)..to' /\ at' # to + 1
      BY <1>1, <2>2
    <3>2. skipped' = skipped \cup (to + 1)..to' \/ <<to + 1, to'>> \in chunks'
      BY <1>2, <3>1
    <3> QED BY <3>1, <3>2 DEF Indexed
  <2> QED BY <1>1, <2>1, <2>2
<1> QED BY <1>4, <1>5, <1>6 DEF ChunkInv

\* A file that is cut as a whole has no chunk yet for its lines.
LEMMA FileKeeps ==
  ASSUME ChunkTypeOK, ChunkInv, WholeFile PROVE ChunkInv'
<1>1. /\ to \in Nat /\ Head(rest).height \in Nat \ {0} /\ at = 0 /\ at' = to + 1
      /\ to' = to + Head(rest).height /\ UNCHANGED <<config, chunks, skipped>>
  BY FirstPiece DEF WholeFile, ChunkTypeOK
<1>2. WindowLines' = WindowLines
  BY <1>1 DEF WindowLines
<1>3. AtInSegment'
  BY <1>1 DEF AtInSegment
<1>4. ChunksFit'
  <2>1. \A c \in chunks : c[2] \in Nat /\ c[2] <= to
    BY DEF ChunkTypeOK, ChunkInv, ChunksFit
  <2> QED BY <1>1, <1>2, <2>1 DEF ChunkInv, ChunksFit
<1>5. EveryLineIndexed'
  BY <1>1 DEF ChunkInv, EveryLineIndexed, Indexed
<1> QED BY <1>3, <1>4, <1>5 DEF ChunkInv

\* The window reaches the line where the next one begins, or the last line.
LEMMA WindowKeeps ==
  ASSUME ChunkTypeOK, ChunkInv, Window PROVE ChunkInv'
<1> DEFINE last == Smaller(at + WindowLines - 1, to)
<1>1. /\ at \in Nat /\ at > 0 /\ at <= to /\ to \in Nat
      /\ chunks' = chunks \cup {<<at, last>>}
      /\ at' = IF at + Stride <= to THEN at + Stride ELSE 0
      /\ UNCHANGED <<to, config, skipped>>
  BY DEF Window, ChunkTypeOK, ChunkInv, AtInSegment
<1>2. WindowLines \in Nat /\ Stride \in Nat /\ 1 <= Stride /\ Stride <= WindowLines
  BY SizesFit
<1>3. WindowLines' = WindowLines
  BY <1>1 DEF WindowLines
<1>4. /\ last \in Nat /\ at <= last /\ last <= to /\ last - at < WindowLines
      /\ last = to \/ last = at + WindowLines - 1
  BY <1>1, <1>2 DEF Smaller
<1> HIDE DEF last
<1>5. AtInSegment'
  BY <1>1, <1>2 DEF AtInSegment
<1>6. ChunksFit'
  BY <1>1, <1>3, <1>4 DEF ChunkInv, ChunksFit
<1>7. EveryLineIndexed'
  <2> SUFFICES ASSUME NEW line \in 1..to, line < at' \/ at' = 0
               PROVE  Indexed(line)' \/ line \in skipped
    BY <1>1 DEF EveryLineIndexed
  <2>1. CASE line < at
    BY <1>1, <2>1 DEF ChunkInv, EveryLineIndexed, Indexed
  <2>2. CASE line >= at
    <3>1. line <= last
      BY <1>1, <1>2, <1>4
    <3>2. <<at, last>> \in chunks'
      BY <1>1
    <3>3. <<at, last>>[1] <= line /\ line <= <<at, last>>[2]
      BY <2>2, <3>1
    <3> QED BY <3>2, <3>3 DEF Indexed
  <2> QED BY <1>1, <2>1, <2>2
<1> QED BY <1>5, <1>6, <1>7 DEF ChunkInv

LEMMA ChunkInvStep ==
  ASSUME ChunkTypeOK, ChunkInv, [ChunkNext]_chunkVars PROVE ChunkInv'
<1>1. CASE UNCHANGED chunkVars
  BY <1>1
  DEF chunkVars, ChunkInv, AtInSegment, EveryLineIndexed, Indexed, ChunksFit, WindowLines
<1> QED BY <1>1, PieceKeeps, FileKeeps, WindowKeeps DEF ChunkNext

-----------------------------------------------------------------------------

\* For every file and all settings, zero and negative ones included, each line
\* ends up in a chunk, but for what _chunk_python leaves out.
THEOREM EveryLineKept == ChunkSpec => []EveryLineIndexed
<1>1. ChunkTypeOK /\ ChunkInv /\ [ChunkNext]_chunkVars => ChunkInv'
  BY ChunkInvStep
<1>2. ChunkInv => EveryLineIndexed
  BY DEF ChunkInv
<1> QED BY <1>1, <1>2, ChunkTypeInit, ChunkTypeStep, ChunkInvInit, PTL DEF ChunkSpec

\* For every file and all settings, no chunk is longer than a window and none
\* goes beyond the file.
THEOREM ChunksAreShort == ChunkSpec => []ChunksFit
<1>1. ChunkTypeOK /\ ChunkInv /\ [ChunkNext]_chunkVars => ChunkInv'
  BY ChunkInvStep
<1>2. ChunkInv => ChunksFit
  BY DEF ChunkInv
<1> QED BY <1>1, <1>2, ChunkTypeInit, ChunkTypeStep, ChunkInvInit, PTL DEF ChunkSpec

(***************************************************************************)
(* The parts together.                                                     *)
(***************************************************************************)

PartsInv == PageInv /\ LimitTypeOK /\ LlmInv /\ ChunkTypeOK

LEMMA PartsInvInit == Init => PartsInv
BY PageInvInit, LimitTypeInit, LlmInvInit, ChunkTypeInit DEF Init, PartsInv

LEMMA PartsInvStep == PartsInv /\ [Next]_parts => PartsInv'
<1> SUFFICES ASSUME PartsInv, [Next]_parts PROVE PartsInv'
  OBVIOUS
<1>1. [PageNext]_pageVars /\ [LimitNext]_limitVars /\ [LlmNext]_llmVars /\ [ChunkNext]_chunkVars
  BY DEF Next, parts
<1> QED BY <1>1, PageInvStep, LimitTypeStep, LlmInvStep, ChunkTypeStep DEF PartsInv

\* The variables of every part keep their types, for any number of refreshes,
\* jobs, requests, calls and processes, any file and any settings.
THEOREM TypeCorrect == Spec => []TypeOK
<1>1. PartsInv => TypeOK
  BY DEF PartsInv, TypeOK, PageInv, LlmInv
<1> QED BY <1>1, PartsInvInit, PartsInvStep, PTL DEF Spec
=============================================================================
