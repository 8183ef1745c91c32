------------------------- MODULE MCWebhookDelivery -------------------------
(* Small instances of WebhookDelivery; delays in seconds.  Calls share only
   the database and the process, so two calls and a refused one suffice. *)
EXTENDS WebhookDelivery

CONSTANTS c1, c2, c3

ShortDelays == <<0>>              \* fewer delays than retries, one not a number
=============================================================================
