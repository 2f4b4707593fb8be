-------------------------- MODULE MCWebhookDelivery --------------------------
(* The instance of WebhookDelivery for TLC; its constants are numbers.     *)
EXTENDS WebhookDelivery, TLC
=============================================================================
