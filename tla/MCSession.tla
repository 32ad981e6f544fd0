------------------------------ MODULE MCSession ------------------------------
(***************************************************************************)
(* One user with up to three sessions and a login in flight.               *)
(***************************************************************************)
EXTENDS Session, TLC

Symmetry == Permutations(Sessions) \cup Permutations(Logins)
==============================================================================
