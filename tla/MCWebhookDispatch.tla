------------------------- MODULE MCWebhookDispatch -------------------------
(* Instances of WebhookDispatch for TLC: one event is a message, the rest  *)
(* are receipts.                                                           *)
EXTENDS WebhookDispatch, TLC

CONSTANT Message

MCKind == [e \in Events |-> IF e = Message THEN "message" ELSE "receipt"]
Symmetry == Permutations(Urls) \cup Permutations(Secrets)
=============================================================================
