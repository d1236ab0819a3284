--------------------------- MODULE MCWebhookInbox ---------------------------
(* Instances of WebhookInbox for TLC. *)
EXTENDS WebhookInbox

CONSTANT c1

NoneRefused == {}
=============================================================================
