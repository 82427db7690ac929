--------------------------- MODULE WebhookDelivery ---------------------------
(***************************************************************************)
(* The issues webhook: GitHub posts a delivery, possibly several times     *)
(* under one delivery id and at the same time, and the handler records the *)
(* id in Redis before it does anything else.  Every await, query and       *)
(* message of the handler is a step.                                       *)
(***************************************************************************)
EXTENDS Naturals, FiniteSets

CONSTANTS
  Deliveries,  \* delivery ids
  Posts,       \* requests GitHub sends; several may carry one id
  Faults       \* what may go wrong (FaultKinds)

\* invalid: a body the handler refuses.  step: the database or the broker
\* refuses a call, or the process dies.  expire: 24 hours go by.
FaultKinds == {"invalid", "step", "expire"}

ASSUME WebhookAssumption == Faults \subseteq FaultKinds

NoDelivery == "none"

ASSUME NoDeliveryAssumption == NoDelivery \notin Deliveries

VARIABLES
  recorded,  \* delivery ids whose Redis key exists
  carries,   \* post -> its delivery id
  pc,        \* post -> progress of its handler
  answered,  \* delivery ids GitHub got a success status for
  tasks,     \* task rows: the post that created each
  messages,  \* tasks whose workflow message was sent
  linked,    \* tasks whose celery_task_id is stored
  expired    \* history variable: delivery ids whose key expired

vars == <<recorded, carries, pc, answered, tasks, messages, linked, expired>>

Open == {"posted", "verifying", "creating", "sending", "linking"}
Closed == {"duplicate", "ignored", "accepted", "refused", "error"}

TypeOK ==
  /\ recorded \subseteq Deliveries
  /\ carries \in [Posts -> Deliveries \cup {NoDelivery}]
  /\ pc \in [Posts -> Open \cup Closed \cup {"unsent"}]
  /\ answered \subseteq Deliveries
  /\ tasks \subseteq Posts
  /\ messages \subseteq Posts
  /\ linked \subseteq Posts
  /\ expired \subseteq Deliveries

Init ==
  /\ recorded = {}
  /\ carries = [p \in Posts |-> NoDelivery]
  /\ pc = [p \in Posts |-> "unsent"]
  /\ answered = {}
  /\ tasks = {}
  /\ messages = {}
  /\ linked = {}
  /\ expired = {}

Goto(p, place) == pc' = [pc EXCEPT ![p] = place]

\* GitHub's answer: a duplicate, an ignored action and an accepted issue are
\* all 200.
Answer(p, place) ==
  /\ Goto(p, place)
  /\ answered' = answered \cup ({carries[p]} \ {NoDelivery})

\* GitHub, or a maintainer who presses "redeliver", sends a delivery; a post
\* without the header X-GitHub-Delivery carries NoDelivery.
Post(p, d) ==
  /\ pc[p] = "unsent"
  /\ Goto(p, "posted")
  /\ carries' = [carries EXCEPT ![p] = d]
  /\ UNCHANGED <<recorded, answered, tasks, messages, linked, expired>>

\* No webhook secret in production, or an event other than "issues".
RejectEvent(p) ==
  /\ "invalid" \in Faults
  /\ pc[p] = "posted"
  /\ Goto(p, "refused")
  /\ UNCHANGED <<recorded, carries, answered, tasks, messages, linked, expired>>

\* Mutants: the id is stored without NX, and every post counts as new; the
\* request is stored in place of the id.
RecordDeliveryAnyway(p) ==
  /\ pc[p] = "posted"
  /\ recorded' = recorded \cup ({carries[p]} \ {NoDelivery})
  /\ Goto(p, "verifying")
  /\ UNCHANGED <<carries, answered, tasks, messages, linked, expired>>

RecordDeliveryOfPost(p) ==
  /\ pc[p] = "posted"
  /\ recorded' = recorded \cup {p}
  /\ Goto(p, "verifying")
  /\ UNCHANGED <<carries, answered, tasks, messages, linked, expired>>

\* Mutant: the key is looked up after it was set.
RecordDeliveryThenLook(p) ==
  /\ pc[p] = "posted"
  /\ recorded' = recorded \cup ({carries[p]} \ {NoDelivery})
  /\ IF carries[p] \in recorded'
       THEN Answer(p, "duplicate")
       ELSE Goto(p, "verifying") /\ UNCHANGED answered
  /\ UNCHANGED <<carries, tasks, messages, linked, expired>>

\* record_webhook_delivery: SET NX EX, before the body is read.  A delivery
\* without an id counts as new.
RecordDelivery(p) ==
  /\ pc[p] = "posted"
  /\ recorded' = recorded \cup ({carries[p]} \ {NoDelivery})
  /\ IF carries[p] \in recorded
       THEN Answer(p, "duplicate")
       ELSE Goto(p, "verifying") /\ UNCHANGED answered
  /\ UNCHANGED <<carries, tasks, messages, linked, expired>>

\* The signature, the JSON, the action and the URLs.
Verify(p) ==
  /\ pc[p] = "verifying"
  /\ \/ Goto(p, "creating") /\ UNCHANGED answered
     \/ Answer(p, "ignored")
     \/ "invalid" \in Faults /\ Goto(p, "refused") /\ UNCHANGED answered
  /\ UNCHANGED <<recorded, carries, tasks, messages, linked, expired>>

CreateTask(p) ==
  /\ pc[p] = "creating"
  /\ Goto(p, "sending")
  /\ tasks' = tasks \cup {p}
  /\ UNCHANGED <<recorded, carries, answered, messages, linked, expired>>

SendMessage(p) ==
  /\ pc[p] = "sending"
  /\ Goto(p, "linking")
  /\ messages' = messages \cup {p}
  /\ UNCHANGED <<recorded, carries, answered, tasks, linked, expired>>

SetCeleryTaskId(p) ==
  /\ pc[p] = "linking"
  /\ Answer(p, "accepted")
  /\ linked' = linked \cup {p}
  /\ UNCHANGED <<recorded, carries, tasks, messages, expired>>

\* The exception leaves the handler; the Redis key stays.
StepFails(p) ==
  /\ "step" \in Faults
  /\ pc[p] \in Open
  /\ Goto(p, "error")
  /\ UNCHANGED <<recorded, carries, answered, tasks, messages, linked, expired>>

Expire(d) ==
  /\ "expire" \in Faults
  /\ d \in recorded
  /\ recorded' = recorded \ {d}
  /\ expired' = expired \cup {d}
  /\ UNCHANGED <<carries, pc, answered, tasks, messages, linked>>

Handle(p) ==
  \/ RecordDelivery(p) \/ Verify(p) \/ CreateTask(p) \/ SendMessage(p)
  \/ SetCeleryTaskId(p)

Next ==
  \/ \E p \in Posts, d \in Deliveries \cup {NoDelivery} : Post(p, d)
  \/ \E p \in Posts : RejectEvent(p) \/ Handle(p) \/ StepFails(p)
  \/ \E d \in Deliveries : Expire(d)

Spec == Init /\ [][Next]_vars

\* A request that was received is handled.
FairSpec == Spec /\ \A p \in Posts : WF_vars(Handle(p))

-----------------------------------------------------------------------------
(* Properties.                                                             *)

\* Within the life of its Redis key a delivery creates at most one task, and
\* so sends at most one workflow message, however its posts interleave and
\* whichever steps fail (webhooks.py:48-55).
OneTaskPerDelivery ==
  \A p, q \in tasks :
    carries[p] = carries[q] /\ carries[p] \notin expired \cup {NoDelivery} => p = q

\* Posts of a delivery never all drop it as a duplicate of one another: when
\* GitHub got a success status for it, one post was let through and comes to an
\* end that its sender is told.
AnsweredIsHandled ==
  \A d \in Deliveries :
    d \in answered ~> \E p \in Posts : carries[p] = d /\ pc[p] \in Closed \ {"duplicate"}
=============================================================================
