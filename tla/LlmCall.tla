------------------------------ MODULE LlmCall ------------------------------
(***************************************************************************)
(* The calls of the agents to the model (services/llm_service.py): the     *)
(* cache of answers, the parsing with its one repair, and the finish       *)
(* reason, which is not handed on but left in a context variable that      *)
(* outlives the call: a worker process runs one job after another in the   *)
(* same context.  An answer is known by what the parser makes of it.       *)
(***************************************************************************)
EXTENDS Naturals

CONSTANTS
  Calls,      \* calls with the same messages
  UseCache,   \* those of the planner, the only ones that use the cache
  Processes,  \* worker processes
  NoAnswer    \* the cache has no such key

\* whole: a JSON object.  wrapped: one with text around it.  damaged: an opening
\* and a closing bracket, no object in between.  open: no closing bracket
\* behind the first opening one.  prose: no opening bracket.
Kinds   == {"whole", "wrapped", "damaged", "open", "prose"}
Reasons == {"stop", "length"}
Answers == [kind : Kinds, reason : Reasons]
Usable  == {"whole", "wrapped"}

ASSUME LlmAssumption == UseCache \subseteq Calls /\ NoAnswer \notin Answers

VARIABLES
  stored,   \* the cached answer
  call,     \* call -> progress or result
  process,  \* call -> the process it runs in
  answer,   \* call -> what is parsed
  reason,   \* process -> _last_llm_finish_reason
  cutOff    \* history variable: calls that got an answer cut off at the limit

llmVars == <<stored, call, process, answer, reason, cutOff>>

Ongoing == {"asking", "storing", "parsing", "repairing"}
Results == {"object", "invalid", "truncated", "error"}

LlmTypeOK ==
  /\ stored \in Answers \cup {NoAnswer}
  /\ call \in [Calls -> {"new"} \cup Ongoing \cup Results]
  /\ process \in [Calls -> Processes]
  /\ answer \in [Calls -> Answers \cup {NoAnswer}]
  /\ reason \in [Processes -> Reasons \cup {"none"}]
  /\ cutOff \subseteq Calls

LlmInit ==
  /\ stored = NoAnswer
  /\ call = [c \in Calls |-> "new"]
  /\ process \in [Calls -> Processes]
  /\ answer = [c \in Calls |-> NoAnswer]
  /\ reason = [p \in Processes |-> "none"]
  /\ cutOff = {}

Become(c, to) == call' = [call EXCEPT ![c] = to]

\* Mutant: a finish reason is only stored when there is something to say.
TakeQuietly(c, a) ==
  /\ answer' = [answer EXCEPT ![c] = a]
  /\ reason' = [reason EXCEPT ![process[c]] = IF a.reason = "length" THEN "length" ELSE @]
  /\ cutOff' = IF a.reason = "length" THEN cutOff \cup {c} ELSE cutOff

\* call_llm_messages returns: the text to its caller, the reason to the context.
Take(c, a) ==
  /\ answer' = [answer EXCEPT ![c] = a]
  /\ reason' = [reason EXCEPT ![process[c]] = a.reason]
  /\ cutOff' = IF a.reason = "length" THEN cutOff \cup {c} ELSE cutOff

\* A process works on one call at a time.
LookInCache(c) ==
  /\ call[c] = "new"
  /\ \A d \in Calls \ {c} : process[d] = process[c] => call[d] \notin Ongoing
  /\ IF c \in UseCache /\ stored # NoAnswer
     THEN Become(c, "parsing") /\ Take(c, stored)
     ELSE Become(c, "asking") /\ UNCHANGED <<answer, reason, cutOff>>
  /\ UNCHANGED <<stored, process>>

\* The answer is kept before anybody has looked at it.
Ask(c, a) ==
  /\ call[c] = "asking"
  /\ IF c \in UseCache
     THEN /\ Become(c, "storing")
          /\ answer' = [answer EXCEPT ![c] = a]
          /\ UNCHANGED <<reason, cutOff>>
     ELSE Become(c, "parsing") /\ Take(c, a)
  /\ UNCHANGED <<stored, process>>

StoreAnswer(c) ==
  /\ call[c] = "storing"
  /\ Become(c, "parsing")
  /\ stored' = answer[c]
  /\ Take(c, answer[c])
  /\ UNCHANGED process

ForgetAnswer ==
  /\ stored # NoAnswer
  /\ stored' = NoAnswer
  /\ UNCHANGED <<call, process, answer, reason, cutOff>>

\* _parse_llm_json up to its repair: without brackets nothing is repaired.
Parse(c) ==
  /\ call[c] = "parsing"
  /\ Become(c, IF answer[c].kind \in Usable THEN "object"
               ELSE IF answer[c].kind = "damaged" THEN "repairing" ELSE "invalid")
  /\ UNCHANGED <<stored, process, answer, reason, cutOff>>

\* The error is chosen by the reason of the repair, not of the answer.
Repair(c, a) ==
  /\ call[c] = "repairing"
  /\ Take(c, a)
  /\ Become(c, IF a.kind \in Usable THEN "object"
               ELSE IF reason'[process[c]] = "length" THEN "truncated" ELSE "invalid")
  /\ UNCHANGED <<stored, process>>

\* No key, a provider that fails or says nothing, or Redis fails.
CallFails(c) ==
  /\ call[c] \in {"new", "asking", "storing", "repairing"}
  /\ Become(c, "error")
  /\ UNCHANGED <<stored, process, answer, reason, cutOff>>

LlmNext ==
  \/ ForgetAnswer
  \/ \E c \in Calls :
       \/ LookInCache(c) \/ StoreAnswer(c) \/ Parse(c) \/ CallFails(c)
       \/ \E a \in Answers : Ask(c, a) \/ Repair(c, a)

LlmSpec == LlmInit /\ [][LlmNext]_llmVars

(***************************************************************************)
(* Properties.                                                             *)
(***************************************************************************)

\* A call that ends as truncated, for which the writer splits its batch, was
\* cut off itself: the reason in the context is never that of an earlier call
\* of the process or of another's cached answer (llm_service.py:231).
TruncatedIsTrue == \A c \in Calls : call[c] = "truncated" => c \in cutOff
=============================================================================
