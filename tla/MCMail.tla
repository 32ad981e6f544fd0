-------------------------------- MODULE MCMail --------------------------------
(***************************************************************************)
(* A small instance of Mail.                                               *)
(***************************************************************************)
EXTENDS Mail, TLC

Symmetry == Permutations(Workers)
==============================================================================
