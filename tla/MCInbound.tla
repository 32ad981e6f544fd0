----------------------------- MODULE MCInbound -----------------------------
(***************************************************************************)
(* The workers of what comes in, under fair scheduling: the meta worker's  *)
(* loop, and the inbox workers that materialize statuses.  A behaviour     *)
(* exercises one of the two, which the initial state chooses: where there  *)
(* is a shift of Delivery to work the meta worker rests, and with no shift *)
(* Delivery has nothing to do.                                             *)
(***************************************************************************)
EXTENDS MCMeta, MCDelivery

NoShift == [workers |-> {}, unanswered |-> {}, events |-> <<>>]
InboundShifts == SafeShifts \cup {NoShift}

InboundInit == Init /\ DeliveryInit

MetaStep(A) == shift = NoShift /\ A /\ UNCHANGED deliveryVars

InboundNext ==
    \/ MetaStep(Next)
    \/ shift # NoShift /\ DeliveryNext /\ UNCHANGED vars

\* The fairness of MetaWorker, of behaviours that exercise it, and that of Delivery,
\* which has no step to take without a shift.
InboundSpec ==
    /\ InboundInit
    /\ [][InboundNext]_<<vars, deliveryVars>>
    /\ WF_<<vars, deliveryVars>>(MetaStep(SyncAges))
    /\ WF_<<vars, deliveryVars>>(MetaStep(EventAges))
    /\ \A b \in Bodies : WF_<<vars, deliveryVars>>(MetaStep(Inbox(b)))
    /\ \A w \in Workers : WF_<<vars, deliveryVars>>(MetaStep(Step(w)))
    /\ DeliveryFairness
==============================================================================
