----------------------- MODULE WebhookDelivery_proofs -----------------------
(***************************************************************************)
(* The issues webhook, for any number of deliveries and posts and any of   *)
(* the faults: type correctness, and one task for each life of a delivery  *)
(* id.  The invariant follows a post from the moment SET NX let it         *)
(* through, before it has a task, to the task that outlives its handler.   *)
(***************************************************************************)
EXTENDS WebhookDelivery, TLAPS

\* The handler went past the check of the delivery id, or its task is there.
LetThrough(p) ==
  pc[p] \in {"verifying", "creating", "sending", "linking"} \/ p \in tasks

\* The id of a post that was let through has its key, unless the key expired
\* since: nothing but time removes it, and no failed step does.
IdsAreRecorded ==
  \A p \in Posts :
    LetThrough(p) => carries[p] \in recorded \cup expired \cup {NoDelivery}

\* Two posts that were let through carry different ids, but for the ids whose
\* key expired and posts without an id.
OneLetThrough ==
  \A p, q \in Posts :
    /\ LetThrough(p) /\ LetThrough(q)
    /\ carries[p] = carries[q]
    /\ carries[p] \notin expired \cup {NoDelivery}
    => p = q

\* A task belongs to a post that is past both waits, so that its id is fixed.
TasksAreOfHandled == \A p \in tasks : pc[p] \notin {"unsent", "posted"}

DeliveryInv == TypeOK /\ TasksAreOfHandled /\ IdsAreRecorded /\ OneLetThrough

-----------------------------------------------------------------------------

\* The invariant holds at the start, where no post was let through.
LEMMA DeliveryInvInit == Init => DeliveryInv
  BY DEF Init, DeliveryInv, TypeOK, TasksAreOfHandled, IdsAreRecorded, OneLetThrough,
     LetThrough, Open, Closed

\* No step of a handler, of GitHub or of the clock leaves the types.
LEMMA DeliveryTypeStep == TypeOK /\ [Next]_vars => TypeOK'
<1> SUFFICES ASSUME TypeOK, [Next]_vars PROVE TypeOK'
  OBVIOUS
<1> USE DEF TypeOK, Open, Closed, Goto, Answer
<1>1. ASSUME NEW p \in Posts, NEW d \in Deliveries \cup {NoDelivery}, Post(p, d)
      PROVE  TypeOK'
  BY <1>1 DEF Post
<1>2. ASSUME NEW p \in Posts, RejectEvent(p) PROVE TypeOK'
  BY <1>2 DEF RejectEvent
<1>3. ASSUME NEW p \in Posts, RecordDelivery(p) PROVE TypeOK'
  BY <1>3 DEF RecordDelivery
<1>4. ASSUME NEW p \in Posts, Verify(p) PROVE TypeOK'
  BY <1>4 DEF Verify
<1>5. ASSUME NEW p \in Posts, CreateTask(p) PROVE TypeOK'
  BY <1>5 DEF CreateTask
<1>6. ASSUME NEW p \in Posts, SendMessage(p) PROVE TypeOK'
  BY <1>6 DEF SendMessage
<1>7. ASSUME NEW p \in Posts, SetCeleryTaskId(p) PROVE TypeOK'
  BY <1>7 DEF SetCeleryTaskId
<1>8. ASSUME NEW p \in Posts, StepFails(p) PROVE TypeOK'
  BY <1>8 DEF StepFails
<1>9. ASSUME NEW d \in Deliveries, Expire(d) PROVE TypeOK'
  BY <1>9 DEF Expire
<1>10. CASE UNCHANGED vars
  BY <1>10 DEF vars
<1> QED
  BY <1>1, <1>2, <1>3, <1>4, <1>5, <1>6, <1>7, <1>8, <1>9, <1>10 DEF Next, Handle

-----------------------------------------------------------------------------

\* A step that lets no new post through, keeps the ids of those that were, and
\* forgets no id without the clock, keeps the three parts of the invariant: the
\* steps of the handler after SET NX differ in nothing that matters here.
LEMMA NobodyNewIsLetThrough ==
  ASSUME DeliveryInv,
         \A p \in Posts : LetThrough(p)' => LetThrough(p) /\ carries'[p] = carries[p],
         recorded \cup expired \subseteq recorded' \cup expired',
         expired \subseteq expired'
  PROVE  IdsAreRecorded' /\ OneLetThrough'
<1>1. IdsAreRecorded'
  <2> SUFFICES ASSUME NEW p \in Posts, LetThrough(p)'
               PROVE  carries'[p] \in recorded' \cup expired' \cup {NoDelivery}
    BY DEF IdsAreRecorded
  <2>1. LetThrough(p) /\ carries'[p] = carries[p]
    OBVIOUS
  <2> QED
    BY <2>1 DEF DeliveryInv, IdsAreRecorded
<1>2. OneLetThrough'
  <2> SUFFICES ASSUME NEW p \in Posts, NEW q \in Posts, LetThrough(p)', LetThrough(q)',
                      carries'[p] = carries'[q],
                      carries'[p] \notin expired' \cup {NoDelivery}
               PROVE  p = q
    BY DEF OneLetThrough
  <2>1. LetThrough(p) /\ LetThrough(q) /\ carries'[p] = carries[p] /\ carries'[q] = carries[q]
    OBVIOUS
  <2> QED
    BY <2>1 DEF DeliveryInv, OneLetThrough
<1> QED
  BY <1>1, <1>2

\* SET NX: the post goes on only if its id was not recorded, and it is
\* recorded with the same request.
LEMMA RecordKeepsInv ==
  ASSUME DeliveryInv, NEW p \in Posts, RecordDelivery(p)
  PROVE  IdsAreRecorded' /\ OneLetThrough'
<1> USE DEF DeliveryInv, TypeOK
<1>1. CASE carries[p] \in recorded
  <2>1. \A q \in Posts : LetThrough(q)' => LetThrough(q) /\ carries'[q] = carries[q]
    BY <1>1 DEF RecordDelivery, Answer, Goto, LetThrough
  <2>2. expired' = expired /\ recorded \subseteq recorded'
    BY DEF RecordDelivery
  <2> QED
    BY <2>1, <2>2, NobodyNewIsLetThrough
<1>2. CASE carries[p] \notin recorded
  <2>1. /\ recorded' = recorded \cup ({carries[p]} \ {NoDelivery})
        /\ UNCHANGED <<carries, tasks, expired>>
    BY DEF RecordDelivery
  <2>2. \A q \in Posts \ {p} : LetThrough(q)' => LetThrough(q)
    BY <1>2 DEF RecordDelivery, Goto, LetThrough
  <2>3. IdsAreRecorded'
    BY <2>1, <2>2 DEF IdsAreRecorded
  <2>4. ASSUME NEW q \in Posts \ {p}, LetThrough(q)', carries[p] = carries[q]
        PROVE  carries[p] \in expired \cup {NoDelivery}
    BY <1>2, <2>2, <2>4 DEF IdsAreRecorded
  <2>5. OneLetThrough'
    BY <2>1, <2>2, <2>4 DEF OneLetThrough
  <2> QED
    BY <2>3, <2>5
<1> QED
  BY <1>1, <1>2

\* Every step keeps the invariant.
LEMMA DeliveryInvStep == DeliveryInv /\ [Next]_vars => DeliveryInv'
<1> SUFFICES ASSUME DeliveryInv, [Next]_vars PROVE DeliveryInv'
  OBVIOUS
<1>t. TypeOK /\ TypeOK'
  BY DeliveryTypeStep DEF DeliveryInv
<1> DEFINE Kept == /\ \A q \in Posts : LetThrough(q)' => LetThrough(q) /\ carries'[q] = carries[q]
                   /\ recorded \cup expired \subseteq recorded' \cup expired'
                   /\ expired \subseteq expired'
<1>k. ASSUME Kept PROVE IdsAreRecorded' /\ OneLetThrough'
  BY <1>k, NobodyNewIsLetThrough
<1>h. TasksAreOfHandled
  BY DEF DeliveryInv
<1> USE DEF TypeOK, Goto, Answer, LetThrough, TasksAreOfHandled
<1>1. ASSUME NEW p \in Posts, NEW d \in Deliveries \cup {NoDelivery}, Post(p, d)
      PROVE  TasksAreOfHandled' /\ Kept
  BY <1>t, <1>h, <1>1 DEF Post
<1>2. ASSUME NEW p \in Posts, RejectEvent(p) PROVE TasksAreOfHandled' /\ Kept
  BY <1>t, <1>h, <1>2 DEF RejectEvent
<1>3. ASSUME NEW p \in Posts, RecordDelivery(p)
      PROVE  TasksAreOfHandled' /\ IdsAreRecorded' /\ OneLetThrough'
  <2>1. TasksAreOfHandled'
    BY <1>t, <1>h, <1>3 DEF RecordDelivery
  <2> QED
    BY <1>3, <2>1, RecordKeepsInv
<1>4. ASSUME NEW p \in Posts, Verify(p) PROVE TasksAreOfHandled' /\ Kept
  BY <1>t, <1>h, <1>4 DEF Verify
<1>5. ASSUME NEW p \in Posts, CreateTask(p) PROVE TasksAreOfHandled' /\ Kept
  BY <1>t, <1>h, <1>5 DEF CreateTask
<1>6. ASSUME NEW p \in Posts, SendMessage(p) PROVE TasksAreOfHandled' /\ Kept
  BY <1>t, <1>h, <1>6 DEF SendMessage
<1>7. ASSUME NEW p \in Posts, SetCeleryTaskId(p) PROVE TasksAreOfHandled' /\ Kept
  BY <1>t, <1>h, <1>7 DEF SetCeleryTaskId
<1>8. ASSUME NEW p \in Posts, StepFails(p) PROVE TasksAreOfHandled' /\ Kept
  BY <1>t, <1>h, <1>8 DEF StepFails, Open
<1>9. ASSUME NEW d \in Deliveries, Expire(d) PROVE TasksAreOfHandled' /\ Kept
  BY <1>t, <1>h, <1>9 DEF Expire
<1>10. ASSUME UNCHANGED vars PROVE TasksAreOfHandled' /\ Kept
  BY <1>h, <1>10 DEF vars
<1> HIDE DEF Kept
<1> QED
  BY <1>t, <1>k, <1>1, <1>2, <1>3, <1>4, <1>5, <1>6, <1>7, <1>8, <1>9, <1>10
  DEF Next, Handle, DeliveryInv

-----------------------------------------------------------------------------

\* Type correctness.
THEOREM TypeCorrect == Spec => []TypeOK
<1>1. Init => TypeOK
  BY DeliveryInvInit DEF DeliveryInv
<1> QED
  BY <1>1, DeliveryTypeStep, PTL DEF Spec

\* The invariant, for any posts, delivery ids and faults.
THEOREM DeliveryInvariant == Spec => []DeliveryInv
  BY DeliveryInvInit, DeliveryInvStep, PTL DEF Spec

\* Within the life of its Redis key a delivery creates at most one task, however
\* many posts GitHub sends under its id, whenever they arrive and whichever of
\* their steps fail (webhooks.py:48-55).
THEOREM OneTaskForEachDelivery == Spec => []OneTaskPerDelivery
<1>1. DeliveryInv => OneTaskPerDelivery
  <2> SUFFICES ASSUME DeliveryInv, NEW p \in tasks, NEW q \in tasks,
                      carries[p] = carries[q],
                      carries[p] \notin expired \cup {NoDelivery}
               PROVE  p = q
    BY DEF OneTaskPerDelivery
  <2>1. p \in Posts /\ q \in Posts /\ LetThrough(p) /\ LetThrough(q)
    BY DEF DeliveryInv, TypeOK, LetThrough
  <2> QED
    BY <2>1 DEF DeliveryInv, OneLetThrough
<1> QED
  BY <1>1, DeliveryInvariant, PTL
=============================================================================
