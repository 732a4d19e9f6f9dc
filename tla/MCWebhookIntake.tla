--------------------------- MODULE MCWebhookIntake ---------------------------
(* Two payment.failed events, one of them with a list for notes, one of    *)
(* another type and one that is refused.                                   *)
EXTENDS WebhookIntake

CONSTANTS failed1, listnotes, captured, unsigned
=============================================================================
