----------------------------- MODULE MCWebhooks -----------------------------
(* Instances of the webhook dispatchers for TLC. *)
EXTENDS Webhooks

=============================================================================
