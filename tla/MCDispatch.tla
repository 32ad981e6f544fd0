----------------------------- MODULE MCDispatch -----------------------------
(***************************************************************************)
(* Small instances of Dispatch.  Members are the sessions (one session per *)
(* member) and every conversation is on the same phone or on one of its    *)
(* own.                                                                    *)
(***************************************************************************)
EXTENDS DispatchInvariant, DispatchRefinement, TLC

OnePhonePerConversation == [c \in Conversations |-> c]
SamePhone == [c \in Conversations |-> CHOOSE p \in Phones : TRUE]
OneSessionPerMember == [s \in Sessions |-> s]

\* Ids are interchangeable: no definition singles one out.
Symmetry == Permutations(Intents) \cup Permutations(Authorizations)
                \cup Permutations(Workers) \cup Permutations(Keys)
==============================================================================
