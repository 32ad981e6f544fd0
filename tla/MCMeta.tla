-------------------------------- MODULE MCMeta --------------------------------
(***************************************************************************)
(* A small instance of MetaWorker: the provider drops one asset, then adds *)
(* one that is recorded elsewhere.                                         *)
(***************************************************************************)
EXTENDS MetaWorker

CONSTANTS x1, x2, x3

Listed == [v \in 1..MaxRemote |-> CASE v = 1 -> {x1, x2} [] v = 2 -> {x1} [] OTHER -> {x1, x3}]
Named  == [b \in Bodies |-> {x2}]
Found  == [b \in Bodies |-> {"e1"}]
Verdict == [b \in Bodies |-> "PROCESSED"]
==============================================================================
