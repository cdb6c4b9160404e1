-------------------------- MODULE MCWebhookDelivery --------------------------
(* WebhookDelivery for TLC. *)
EXTENDS WebhookDelivery

CONSTANTS d1, d2

(* With the queue a full limiter is handled as without it. *)
Mixed == {<<TRUE, 1>>, <<FALSE, 0>>, <<FALSE, 1>>}
=============================================================================
