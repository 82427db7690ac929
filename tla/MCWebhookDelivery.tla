------------------------- MODULE MCWebhookDelivery -------------------------
(***************************************************************************)
(* WebhookDelivery for TLC.                                                *)
(***************************************************************************)
EXTENDS WebhookDelivery, TLC

Symmetry == Permutations(Deliveries) \cup Permutations(Posts)
=============================================================================
