----------------------------- MODULE MCServices -----------------------------
(***************************************************************************)
(* The parts beside the task row that share no state with each other, for  *)
(* TLC: the task page, the rate limiter, the calls to the model and the    *)
(* chunker.  As an interleaving of two of them shows nothing that each     *)
(* does not show alone, a behaviour moves one part, chosen at the start.   *)
(***************************************************************************)
EXTENDS TaskPage, RateLimit, LlmCall, Chunker, TLC, SequencesExt

VARIABLE part

parts == <<part, pageVars, limitVars, llmVars, chunkVars>>

\* Files of up to two pieces, windows of at most three lines.
SmallFiles ==
  BoundedSeq([kind : {"def", "other"}, height : 1..4], 2) \ {<<>>}
SmallSettings == [maxLines : -1..3, overlapLines : -1..4]

TypeOK == PageTypeOK /\ LimitTypeOK /\ LlmTypeOK /\ ChunkTypeOK

\* The parts that do not move start in one state each.
Init ==
  /\ part \in {"page", "limit", "llm", "chunker"}
  /\ PageInit /\ LimitInit /\ LlmInit /\ ChunkInit
  /\ part # "page" => flight = CHOOSE f \in [Flights -> {"free", "asked"}] : \E g \in Flights : f[g] = "asked"
  /\ part # "llm" => \A c, d \in Calls : process[c] = process[d]
  /\ part # "chunker" => /\ ~python /\ config = [maxLines |-> 1, overlapLines |-> 0]
                         /\ rest = <<[kind |-> "other", height |-> 1]>>

Next ==
  \/ part = "page" /\ PageNext /\ UNCHANGED <<part, limitVars, llmVars, chunkVars>>
  \/ part = "limit" /\ LimitNext /\ UNCHANGED <<part, pageVars, llmVars, chunkVars>>
  \/ part = "llm" /\ LlmNext /\ UNCHANGED <<part, pageVars, limitVars, chunkVars>>
  \/ part = "chunker" /\ ChunkNext /\ UNCHANGED <<part, pageVars, limitVars, llmVars>>

Spec ==
  /\ Init /\ [][Next]_parts
  /\ part = "page" => PageFairness
  /\ part = "limit" => LimitFairness
=============================================================================
