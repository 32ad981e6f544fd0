------------------------ MODULE DispatchRefinement ------------------------
(***************************************************************************)
(* Dispatch implements SendOnce under the mapping that forgets leases,     *)
(* authorizations, workers and the two auxiliary tables.                   *)
(***************************************************************************)
EXTENDS Dispatch

Phase(i) == CASE intent[i].state = "NONE" -> "absent"
              [] intent[i].state \in {"QUEUED", "RESERVED"} -> "pending"
              [] intent[i].state = "BLOCKED" -> "refused"
              [] intent[i].state = "DISPATCHING" -> "committed"
              [] OTHER -> intent[i].state

Promise == INSTANCE SendOnce WITH
              Free <- Nil,
              phase <- [i \in Intents |-> Phase(i)],
              holder <- slot,
              posts <- requests,
              fate <- effect

\* Every step of the workers, clients and clock is a step of SendOnce or
\* changes nothing it can see.
Refines == Promise!Spec
==============================================================================
