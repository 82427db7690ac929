----------------------------- MODULE RateLimit -----------------------------
(***************************************************************************)
(* The rate limiter of one endpoint for one client (core/rate_limit.py): a *)
(* counter in Redis that expires.  API processes handle the requests at    *)
(* the same time; each command to Redis is a step.                         *)
(***************************************************************************)
EXTENDS Naturals, FiniteSets

CONSTANTS
  Requests,  \* requests of the client to the endpoint
  Limit      \* times, or settings.RATE_LIMIT_PER_MINUTE

ASSUME LimitAssumption == Limit \in Nat \ {0} /\ IsFiniteSet(Requests)

VARIABLES
  counter,   \* value of the key, 0 when it does not exist
  expiring,  \* the key has an expiry
  window,    \* number of keys that have expired
  stage,     \* request -> progress
  count,     \* request -> what INCR answered
  counted    \* request -> the window it was counted in

limitVars == <<counter, expiring, window, stage, count, counted>>

Stages == {"new", "counted", "deciding", "passed", "refused", "crashed"}

LimitTypeOK ==
  /\ counter \in Nat
  /\ expiring \in BOOLEAN
  /\ window \in Nat
  /\ stage \in [Requests -> Stages]
  /\ count \in [Requests -> Nat]
  /\ counted \in [Requests -> Nat]

LimitInit ==
  /\ counter = 0
  /\ expiring = FALSE
  /\ window = 0
  /\ stage = [q \in Requests |-> "new"]
  /\ count = [q \in Requests |-> 0]
  /\ counted = [q \in Requests |-> 0]

Advance(q, to) == stage' = [stage EXCEPT ![q] = to]

Incr(q) ==
  /\ stage[q] = "new"
  /\ Advance(q, "counted")
  /\ counter' = counter + 1
  /\ count' = [count EXCEPT ![q] = counter + 1]
  /\ counted' = [counted EXCEPT ![q] = window]
  /\ UNCHANGED <<expiring, window>>

\* Mutant: the request after the first sets the expiry.
SetExpiryLate(q) ==
  /\ stage[q] = "counted"
  /\ Advance(q, "deciding")
  /\ expiring' = (expiring \/ count[q] = 2)
  /\ UNCHANGED <<counter, window, count, counted>>

\* EXPIRE, sent by the request that made the key.
SetExpiry(q) ==
  /\ stage[q] = "counted"
  /\ Advance(q, "deciding")
  /\ expiring' = (expiring \/ count[q] = 1)
  /\ UNCHANGED <<counter, window, count, counted>>

\* Mutant: one request too many.
DecideOneMore(q) ==
  /\ stage[q] = "deciding"
  /\ Advance(q, IF count[q] > Limit + 1 THEN "refused" ELSE "passed")
  /\ UNCHANGED <<counter, expiring, window, count, counted>>

Decide(q) ==
  /\ stage[q] = "deciding"
  /\ Advance(q, IF count[q] > Limit THEN "refused" ELSE "passed")
  /\ UNCHANGED <<counter, expiring, window, count, counted>>

\* The process dies or Redis does not answer.
CrashRequest(q) ==
  /\ stage[q] \in {"counted", "deciding"}
  /\ Advance(q, "crashed")
  /\ UNCHANGED <<counter, expiring, window, count, counted>>

ExpireKey ==
  /\ expiring
  /\ counter' = 0
  /\ expiring' = FALSE
  /\ window' = window + 1
  /\ UNCHANGED <<stage, count, counted>>

LimitNext ==
  \/ ExpireKey
  \/ \E q \in Requests : Incr(q) \/ SetExpiry(q) \/ Decide(q) \/ CrashRequest(q)

LimitSpec == LimitInit /\ [][LimitNext]_limitVars

\* Time passes, and a handler that does not crash goes on.
LimitFairness ==
  /\ WF_limitVars(ExpireKey)
  /\ \A q \in Requests : WF_limitVars(SetExpiry(q) \/ Decide(q))

(***************************************************************************)
(* Properties.                                                             *)
(***************************************************************************)

\* Within the life of a key no more than Limit requests pass, in whatever order
\* the handlers count, set the expiry, decide and crash, and however late a
\* request decides that was counted in an earlier window (rate_limit.py:34-37).
AtMostLimit ==
  \A w \in 0..window :
    Cardinality({q \in Requests : stage[q] = "passed" /\ counted[q] = w}) <= Limit

\* The request that made the key died before it set the expiry.
Orphaned ==
  ~expiring /\ \E q \in Requests :
                  stage[q] = "crashed" /\ count[q] = 1 /\ counted[q] = window

\* A client that was counted, and may have been refused, starts from zero again
\* after a while; only a crash exactly between INCR and EXPIRE locks it out for
\* good (rate_limit.py:34-36).
LetInAgain == counter > 0 ~> (counter = 0 \/ Orphaned)
=============================================================================
