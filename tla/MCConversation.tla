---------------------------- MODULE MCConversation ----------------------------
(***************************************************************************)
(* Two agents at one conversation, one of them without reach beyond a      *)
(* team; events over two conversations that repeat a message and a status. *)
(***************************************************************************)
EXTENDS Conversation

CONSTANTS a1, a2, w1, w2, s, c1, c2, t1, x, y, z, rd

I(m, c, b) == [kind |-> "message", message |-> m, conv |-> c, basis |-> b]
S(m, c)    == [kind |-> "status", message |-> m, conv |-> c, basis |-> 0]
Arrived == <<<<S(rd, c1), I(x, c1, 1), I(z, c2, 1)>>, <<I(x, c1, 2), I(y, c2, 2)>>, <<S(rd, c1)>>>>

Both    == [a \in Agents |-> IF a = a1 THEN {t1, None} ELSE {t1}]
AtFirst == [a \in Agents |-> c1]

Changes == {[status |-> "SNOOZED", handoff |-> ""], [status |-> "", handoff |-> "HUMAN"]}

Duty(d, e) == [w \in Workers |-> IF w = w1 THEN d ELSE e]

\* Both agents and a worker; two workers and an agent, with all conversations to wake and
\* no faults; a worker that has an outcome to record, beside one with a claim it lost or
\* an agent; a synchronisation beside requests.
Threes ==
    {[cast |-> {a1, a2, w1}, asleep |-> {}, duty |-> Duty("none", "none"), faults |-> 0],
     [cast |-> {a1, w1, w2}, asleep |-> Conversations, duty |-> Duty("none", "none"), faults |-> 1],
     [cast |-> {w1, w2}, asleep |-> Conversations, duty |-> Duty("finish", "authorize"), faults |-> 0],
     [cast |-> {a1, w1}, asleep |-> Conversations, duty |-> Duty("finish", "none"), faults |-> 0],
     [cast |-> {a1, a2, s}, asleep |-> {}, duty |-> Duty("none", "none"), faults |-> 0]}
==============================================================================
