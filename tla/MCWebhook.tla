------------------------------ MODULE MCWebhook ------------------------------
(***************************************************************************)
(* Small instances of Webhook: two bodies that share an effect.            *)
(***************************************************************************)
EXTENDS Webhook, TLC

CONSTANTS ba, bb, x1, x2

\* The second body names one more asset than the first.
TriedAssets  == [b \in Bodies |-> IF b = ba THEN {x1} ELSE Assets]
TriedEffects == [b \in Bodies |-> IF b = ba THEN {"e1", "e2"} ELSE {"e2", "e3"}]
TriedKeys    == {"e1", "e2", "e3"}
OneInvalid   == [b \in Bodies |-> IF b = ba THEN "PROCESSED" ELSE "INVALID"]

Symmetry == Permutations(Workers)
==============================================================================
