----------------------------- MODULE MCWebhooks -----------------------------
(* Instances of Webhooks.                                                  *)
EXTENDS Webhooks, TLC

WebhookSymmetry == Permutations(Delivery) \cup Permutations(Nonce)
=============================================================================
