----------------------------- MODULE MCDelivery -----------------------------
(***************************************************************************)
(* Small histories of status webhooks.  Meta repeats facts in later events *)
(* and orders them differently in each; an event may contradict another.   *)
(***************************************************************************)
EXTENDS Delivery

CONSTANTS ma, mb

S(m, s) == [msg |-> m, status |-> s]

\* The same two facts in opposite orders, then two contradictions, for two workers.
Crossed == [workers |-> Crew, unanswered |-> {},
            events |-> <<<<S(ma, "SENT"), S(mb, "READ")>>,
                         <<S(mb, "READ"), S(ma, "SENT"), S(mb, "SENT")>>,
                         <<S(ma, "FAILED"), S(ma, "DELIVERED"), S(mb, "UNKNOWN")>>>>]

\* Reordered, repeated and contradicting statuses of two messages whose acceptances
\* one worker has yet to record.
Mixed == {[workers |-> {w}, unanswered |-> Messages,
           events |-> <<<<S(ma, "DELIVERED"), S(mb, "FAILED")>>,
                        <<S(ma, "SENT"), S(ma, "DELIVERED")>>,
                        <<S(mb, "SENT"), S(ma, "READ")>>,
                        <<S(mb, "DELIVERED")>>>>] : w \in Crew}

\* Contradicting statuses of a message, while the acceptance of another is recorded.
Elsewhere == [workers |-> Crew, unanswered |-> {mb},
              events |-> <<<<S(ma, "DELIVERED"), S(ma, "FAILED")>>, <<S(ma, "SENT")>>>>]

SafeShifts == {Crossed, Elsewhere} \cup Mixed

\* One status of a message whose acceptance one worker records meanwhile.
Racing == {[workers |-> Crew, unanswered |-> {ma}, events |-> <<<<S(ma, "DELIVERED")>>>>]}

\* What Delivery is proved right for, and what it is not.
ASSUME Boundary == (\A s \in SafeShifts : Untangled(s)) /\ \A s \in Racing : ~Untangled(s)
==============================================================================
