------------------------------ MODULE SendOnce ------------------------------
(***************************************************************************)
(* What the outbound path promises, without workers, leases, clocks or     *)
(* rows: an intent is refused, or committed to one request whose fate is   *)
(* then recorded as the provider's answer or as UNCERTAIN.                 *)
(* ADR/012 and docs/08-webhook-architecture.md:44 ("Before network I/O,    *)
(* commit DISPATCHING ... Lease expiry after DISPATCHING also means        *)
(* UNCERTAIN") state it; Dispatch implements it (see DispatchRefinement).  *)
(***************************************************************************)
EXTENDS Naturals

CONSTANTS Intents, Phones, Free     \* Free: no intent holds the phone

VARIABLES
    phase,    \* absent, pending, refused, committed, or the recorded verdict
    holder,   \* the one intent a phone was committed to
    posts,    \* requests made for the intent
    fate      \* what the provider did

vars == <<phase, holder, posts, fate>>

Verdict == {"ACCEPTED", "FAILED", "UNCERTAIN"}
Fate    == {"NONE", "ACCEPTED", "REJECTED"}

Init == /\ phase = [i \in Intents |-> "absent"]
        /\ holder = [p \in Phones |-> Free]
        /\ posts = [i \in Intents |-> 0]
        /\ fate = [i \in Intents |-> "NONE"]

Accept(i) == /\ phase[i] = "absent"
             /\ phase' = [phase EXCEPT ![i] = "pending"]
             /\ UNCHANGED <<holder, posts, fate>>

Refuse(i) == /\ phase[i] = "pending"
             /\ phase' = [phase EXCEPT ![i] = "refused"]
             /\ UNCHANGED <<holder, posts, fate>>

Commit(i, p) == /\ phase[i] = "pending"
                /\ holder[p] = Free
                /\ phase' = [phase EXCEPT ![i] = "committed"]
                /\ holder' = [holder EXCEPT ![p] = i]
                /\ UNCHANGED <<posts, fate>>

\* The only request; it may still leave after the intent was given up on.
Post(i, f) == /\ phase[i] \in {"committed", "UNCERTAIN"}
              /\ posts[i] = 0
              /\ posts' = [posts EXCEPT ![i] = 1]
              /\ fate' = [fate EXCEPT ![i] = f]
              /\ UNCHANGED <<phase, holder>>

\* A verdict is recorded; only an honest one.  FAILED without a request is a
\* text that was refused before it left.
Record(i, v) == /\ phase[i] = "committed"
                /\ v = "ACCEPTED" => fate[i] = "ACCEPTED"
                /\ v = "FAILED" => fate[i] # "ACCEPTED"
                /\ phase' = [phase EXCEPT ![i] = v]
                /\ UNCHANGED <<holder, posts, fate>>

\* A sweep gives up on a set of committed intents.
GiveUp(S) == /\ \A i \in S : phase[i] = "committed"
             /\ phase' = [i \in Intents |-> IF i \in S THEN "UNCERTAIN" ELSE phase[i]]
             /\ UNCHANGED <<holder, posts, fate>>

Next == \/ \E i \in Intents : \/ Accept(i) \/ Refuse(i)
                              \/ \E p \in Phones : Commit(i, p)
                              \/ \E f \in Fate : Post(i, f)
                              \/ \E v \in Verdict : Record(i, v)
        \/ \E S \in SUBSET Intents : GiveUp(S)

Spec == Init /\ [][Next]_vars
==============================================================================
