------------------------- MODULE MCWebhookDelivery -------------------------
(* Two webhooks, two deliveries, up to three attempts. *)
EXTENDS WebhookDelivery
=============================================================================
