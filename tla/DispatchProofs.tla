--------------------------- MODULE DispatchProofs ---------------------------
(***************************************************************************)
(* Theorems about Dispatch for every number of intents, workers, sessions, *)
(* conversations and phones, every length of the leases and any bound on   *)
(* faults and policy changes.  Three parts: one request per intent and the *)
(* truth about it; the grounds of a dispatch, which is what may change     *)
(* between a submission and the worker that looks at it; and that Dispatch *)
(* implements SendOnce.                                                    *)
(***************************************************************************)
EXTENDS DispatchInvariant, DispatchRefinement, TLAPS

------------------------------------------------------------------------------
(* What an allowed decision says *)

\* An allowed send has the expected assignment, a window that outlasts the
\* margin, a policy in force and a bound sender (guard.go:113-153).
LEMMA AllowedMeans ==
    ASSUME NEW c, NEW expected, windowLeft[c] \in Nat, covered \in BOOLEAN,
           enabled \in BOOLEAN, Allowed(c, expected)
    PROVE  /\ expected = assignment[c]
           /\ windowLeft[c] > Margin
           /\ covered
           /\ enabled
           /\ bound
<1> DEFINE in == [now |-> 0, authorized |-> TRUE, sendingEnabled |-> enabled,
                  suppressed |-> FALSE, assignment |-> assignment[c],
                  expectedAssignment |-> expected, handoff |-> "WAITING_AGENT",
                  messageType |-> "TEXT", category |-> "SERVICE", currencyState |-> "UNKNOWN",
                  windowExpiry |-> windowLeft[c], trustedWindow |-> TRUE,
                  policyFrom |-> 0, policyTo |-> IF covered THEN 2 ELSE 0, reviewAt |-> 1,
                  deliveryLatest |-> 1]
<1>1. bound /\ Evaluate(in).allowed
  BY DEF Allowed
<1> HIDE DEF in
<1>2. Denials(in) = {}
  BY <1>1 DEF Evaluate
<1>3. \A k \in 1..12 : ~Applies(DenialOrder[k], in)
  BY <1>2 DEF Denials, DenialOrder
<1>4. /\ ~Applies("SENDING_DISABLED", in)
      /\ ~Applies("ASSIGNMENT_CHANGED", in)
      /\ ~Applies("TEMPLATE_REQUIRED", in)
      /\ ~Applies("PRICING_COVERAGE_MISSING", in)
      /\ ~Applies("SERVICE_WINDOW_UNKNOWN", in)
  <2>1. DenialOrder[2] = "SENDING_DISABLED" /\ DenialOrder[4] = "ASSIGNMENT_CHANGED"
        /\ DenialOrder[8] = "SERVICE_WINDOW_UNKNOWN" /\ DenialOrder[9] = "TEMPLATE_REQUIRED"
        /\ DenialOrder[10] = "PRICING_COVERAGE_MISSING"
    BY DEF DenialOrder
  <2> QED BY <1>3, <2>1
<1>5. /\ in.sendingEnabled
      /\ in.expectedAssignment = in.assignment
      /\ ~(in.now < in.policyFrom \/ in.now >= in.policyTo)
      /\ Window(in) # "UNKNOWN" /\ ~WindowTooShort(in)
  BY <1>4, Zenon DEF Applies
<1>6. enabled /\ expected = assignment[c]
  BY <1>5 DEF in
<1>7. windowLeft[c] > Margin
  BY <1>5, GuardAssumption DEF WindowTooShort, in
<1>8. covered
  BY <1>5 DEF in
<1> QED BY <1>1, <1>6, <1>7, <1>8

------------------------------------------------------------------------------
(* Type correctness *)

\* A row stays a row when a field gets another value of its type.
LEMMA StateUpdate ==
    ASSUME NEW r \in IntentRow, NEW s \in IntentState
    PROVE  [r EXCEPT !.state = s] \in IntentRow
BY DEF IntentRow

LEMMA ClaimUpdate ==
    ASSUME NEW r \in IntentRow, NEW s \in IntentState, NEW t \in Workers, NEW c \in 0..ClaimTicks
    PROVE  [r EXCEPT !.state = s, !.token = t, !.claimLeft = c] \in IntentRow
BY DEF IntentRow

LEMMA StartUpdate ==
    ASSUME NEW r \in IntentRow, NEW s \in IntentState, NEW d \in 0..StaleTicks
    PROVE  [r EXCEPT !.state = s, !.staleLeft = d] \in IntentRow
BY DEF IntentRow

LEMMA AgeUpdate ==
    ASSUME NEW r \in IntentRow, NEW c \in 0..ClaimTicks, NEW d \in 0..StaleTicks
    PROVE  [r EXCEPT !.claimLeft = c, !.staleLeft = d] \in IntentRow
BY DEF IntentRow

LEMMA AuthRowUpdate ==
    ASSUME NEW r \in AuthRow, NEW n \in 0..AuthTicks
    PROVE  [r EXCEPT !.left = n] \in AuthRow
BY DEF AuthRow

LEMMA AuthRowConsume ==
    ASSUME NEW r \in AuthRow, NEW i \in Intents
    PROVE  [r EXCEPT !.consumed = i] \in AuthRow
BY DEF AuthRow

LEMMA MessageRowUpdate ==
    ASSUME NEW r \in MessageRow, NEW b \in BOOLEAN,
           NEW d \in {"ACCEPTED", "FAILED", "UNCERTAIN"}
    PROVE  /\ [r EXCEPT !.processing = "BLOCKED"] \in MessageRow
           /\ [r EXCEPT !.delivery = d] \in MessageRow
           /\ [r EXCEPT !.provider = b, !.delivery = d] \in MessageRow
BY DEF MessageRow

LEMMA BeforeTyped == ASSUME NEW m \in Nat, NEW n \in 0..m PROVE Before(n) \in 0..m
BY DEF Before

LEMMA TypeInit == Init => TypeInv
BY DispatchAssumption, GuardAssumption
   DEF Init, TypeInv, TypeOK, Placed, IntentRow, AuthRow, MessageRow, NoIntent, NoAuth,
       NoMessage, IntentState, Outcome

LEMMA TypeStep == ASSUME TypeInv, [Next]_vars PROVE TypeInv'
<1> USE DispatchAssumption DEF TypeInv, TypeOK, Placed
<1>1. ASSUME NEW on \in BOOLEAN, SetSending(on) PROVE TypeInv'
  BY <1>1 DEF SetSending, Withdraw, Undispatched, rowVars, workerVars, netVars
<1>2. CASE RevisePolicy
  BY <1>2 DEF RevisePolicy, Withdraw, Undispatched, rowVars, workerVars, netVars
<1>3. CASE PolicyLapses
  BY <1>3 DEF PolicyLapses, Withdraw, Undispatched, rowVars, workerVars, netVars
<1>4. CASE RebindSender
  BY <1>4 DEF RebindSender, rowVars, workerVars, netVars
<1>5. ASSUME NEW s \in Sessions, RevokeSession(s) PROVE TypeInv'
  BY <1>5 DEF RevokeSession, Withdraw, Undispatched, policyVars, rowVars, workerVars, netVars
<1>6. ASSUME NEW c \in Conversations, Assign(c) PROVE TypeInv'
  BY <1>6 DEF Assign, Withdraw, Undispatched, policyVars, rowVars, workerVars, netVars
<1>7. ASSUME NEW c \in Conversations, NEW n \in 1..WindowTicks, Inbound(c, n) PROVE TypeInv'
  BY <1>7 DEF Inbound, groundVars, policyVars, rowVars, workerVars, netVars
<1>8. CASE Tick
  <2>1. windowLeft' \in [Conversations -> 0..WindowTicks]
    BY <1>8, BeforeTyped DEF Tick
  <2>2. auth' \in [Authorizations -> AuthRow]
    <3>1. ASSUME NEW a \in Authorizations
          PROVE  [auth[a] EXCEPT !.left = Before(@)] \in AuthRow
      <4>1. auth[a] \in AuthRow /\ auth[a].left \in 0..AuthTicks
        BY DEF AuthRow
      <4> QED BY <4>1, BeforeTyped, AuthRowUpdate, DispatchAssumption
    <3> QED BY <3>1, <1>8 DEF Tick
  <2>3. intent' \in [Intents -> IntentRow]
    <3>1. ASSUME NEW i \in Intents
          PROVE  [intent[i] EXCEPT !.claimLeft = Before(@), !.staleLeft = Before(@)] \in IntentRow
      <4>1. /\ intent[i] \in IntentRow
            /\ intent[i].claimLeft \in 0..ClaimTicks /\ intent[i].staleLeft \in 0..StaleTicks
        BY DEF IntentRow
      <4>2. /\ Before(intent[i].claimLeft) \in 0..ClaimTicks
            /\ Before(intent[i].staleLeft) \in 0..StaleTicks
        BY <4>1, BeforeTyped
      <4> QED BY <4>1, <4>2, AgeUpdate, Zenon
    <3> QED BY <3>1, <1>8 DEF Tick
  <2> QED BY <1>8, <2>1, <2>2, <2>3 DEF Tick, groundVars, policyVars, workerVars, netVars
<1>9. ASSUME NEW a \in Authorizations, NEW sc \in Scope, Preflight(a, sc) PROVE TypeInv'
  <2>1. sc.conv \in Conversations /\ windowLeft[sc.conv] \in Nat
    BY DEF Scope
  <2>2. windowLeft[sc.conv] > Margin
    BY <1>9, <2>1, AllowedMeans DEF Preflight
  <2>3. AuthLife(sc.conv) \in 0..AuthTicks
    BY <2>1, <2>2, GuardAssumption DEF AuthLife, Smaller
  <2>4. auth' \in [Authorizations -> AuthRow]
    BY <1>9, <2>3 DEF Preflight, AuthRow
  <2> QED BY <1>9, <2>4 DEF Preflight, groundVars, policyVars, rowVars, workerVars, netVars
<1>10. ASSUME NEW i \in Intents, NEW k \in Keys, NEW a \in Authorizations, NEW sc \in Scope,
              Submit(i, k, a, sc)
       PROVE TypeInv'
  <2>1. auth' \in [Authorizations -> AuthRow]
    <3>1. [auth[a] EXCEPT !.consumed = i] \in AuthRow
      BY AuthRowConsume
    <3> QED BY <1>10, <3>1 DEF Submit
  <2>2. intent' \in [Intents -> IntentRow]
    <3>1. [state |-> "QUEUED", scope |-> sc, auth |-> a, key |-> k, token |-> Nil,
           claimLeft |-> 0, staleLeft |-> 0] \in IntentRow
      <4>1. 0 \in 0..ClaimTicks /\ 0 \in 0..StaleTicks
        OBVIOUS
      <4> QED BY <4>1 DEF IntentRow, IntentState
    <3> QED BY <1>10, <3>1 DEF Submit
  <2>3. message' \in [Intents -> MessageRow]
    BY <1>10 DEF Submit, MessageRow, Pending
  <2> QED BY <1>10, <2>1, <2>2, <2>3 DEF Submit, groundVars, policyVars, workerVars, netVars
<1>11. ASSUME NEW w \in Workers, NEW i \in Intents, Claim(w, i) PROVE TypeInv'
  <2>1. intent' \in [Intents -> IntentRow]
    <3>1. [intent[i] EXCEPT !.state = "RESERVED", !.token = w, !.claimLeft = ClaimTicks]
             \in IntentRow
      <4>1. ClaimTicks \in 0..ClaimTicks /\ intent[i] \in IntentRow
        OBVIOUS
      <4> QED BY <4>1, ClaimUpdate DEF IntentState
    <3> QED BY <1>11, <3>1 DEF Claim
  <2> QED BY <1>11, <2>1 DEF Claim, groundVars, policyVars, netVars
<1>12. ASSUME NEW w \in Workers, LoseClaim(w) PROVE TypeInv'
  BY <1>12 DEF LoseClaim, Release, groundVars, policyVars, rowVars, netVars
<1>13. ASSUME NEW w \in Workers, Block(w) PROVE TypeInv'
  <2>1. intent' \in [Intents -> IntentRow]
    <3>1. [intent[job[w]] EXCEPT !.state = "BLOCKED"] \in IntentRow
      BY <1>13, StateUpdate DEF Block, IntentState
    <3> QED BY <1>13, <3>1 DEF Block
  <2>2. message' \in [Intents -> MessageRow]
    BY <1>13 DEF Block, MessageRow
  <2> QED BY <1>13, <2>1, <2>2 DEF Block, Release, groundVars, policyVars, netVars
<1>14. ASSUME NEW w \in Workers, Permit(w) PROVE TypeInv'
  <2>1. intent' \in [Intents -> IntentRow]
    <3>1. [intent[job[w]] EXCEPT !.state = "DISPATCHING", !.staleLeft = StaleTicks] \in IntentRow
      <4>1. StaleTicks \in 0..StaleTicks /\ intent[job[w]] \in IntentRow
        BY <1>14 DEF Permit
      <4> QED BY <4>1, StartUpdate DEF IntentState
    <3> QED BY <1>14, <3>1 DEF Permit
  <2> QED BY <1>14, <2>1 DEF Permit, groundVars, policyVars, netVars
<1>15. ASSUME NEW w \in Workers, RefuseText(w) PROVE TypeInv'
  BY <1>15 DEF RefuseText, Outcome, groundVars, policyVars, rowVars, netVars
<1>16. ASSUME NEW w \in Workers, NEW e \in {"ACCEPTED", "REJECTED", "NONE"}, Transmit(w, e)
       PROVE TypeInv'
  BY <1>16 DEF Transmit, groundVars, policyVars, rowVars
<1>17. ASSUME NEW w \in Workers, NEW o \in Outcome, Answer(w, o) PROVE TypeInv'
  BY <1>17 DEF Answer, groundVars, policyVars, rowVars, netVars
<1>18. ASSUME NEW w \in Workers, Finish(w) PROVE TypeInv'
  <2>1. job[w] \in Intents /\ outcome[w] \in Outcome
    BY <1>18 DEF Finish
  <2>2. Recorded(outcome[w]) \in {"ACCEPTED", "FAILED", "UNCERTAIN"}
    BY <2>1 DEF Recorded, Outcome
  <2>3. intent' \in [Intents -> IntentRow]
    <3>1. [intent[job[w]] EXCEPT !.state = Recorded(outcome[w])] \in IntentRow
      BY <2>1, <2>2, StateUpdate DEF IntentState
    <3> QED BY <1>18, <3>1 DEF Finish
  <2>4. message' \in [Intents -> MessageRow]
    <3>1. [message[job[w]] EXCEPT !.provider = (outcome[w] = "ACCEPTED"),
                                  !.delivery = Recorded(outcome[w])] \in MessageRow
      BY <2>1, <2>2, MessageRowUpdate
    <3> QED BY <1>18, <3>1 DEF Finish
  <2>5. attempt' \in [Intents -> Outcome \cup {"NONE", "DISPATCHING"}]
    BY <1>18, <2>1 DEF Finish
  <2> QED BY <1>18, <2>3, <2>4, <2>5 DEF Finish, Release, groundVars, policyVars, netVars
<1>19. ASSUME NEW w \in Workers, FinishFenced(w) PROVE TypeInv'
  BY <1>19 DEF FinishFenced, Release, groundVars, policyVars, rowVars, netVars
<1>20. ASSUME NEW w \in Workers, RecoverUncertain(w) PROVE TypeInv'
  <2>1. intent' \in [Intents -> IntentRow]
    <3>1. \A i \in Intents : [intent[i] EXCEPT !.state = "UNCERTAIN"] \in IntentRow
      BY StateUpdate DEF IntentState
    <3> QED BY <1>20, <3>1 DEF RecoverUncertain
  <2>2. message' \in [Intents -> MessageRow]
    <3>1. \A i \in Intents : [message[i] EXCEPT !.delivery = "UNCERTAIN"] \in MessageRow
      BY MessageRowUpdate
    <3> QED BY <1>20, <3>1 DEF RecoverUncertain
  <2>3. attempt' \in [Intents -> Outcome \cup {"NONE", "DISPATCHING"}]
    BY <1>20 DEF RecoverUncertain, Outcome
  <2> QED BY <1>20, <2>1, <2>2, <2>3
        DEF RecoverUncertain, groundVars, policyVars, workerVars, netVars
<1>21. ASSUME NEW w \in Workers, Fault(w) PROVE TypeInv'
  BY <1>21 DEF Fault, Release, groundVars, policyVars, rowVars, netVars
<1>22. CASE UNCHANGED vars
  BY <1>22 DEF vars, groundVars, policyVars, rowVars, workerVars, netVars
<1> QED
  BY <1>1, <1>2, <1>3, <1>4, <1>5, <1>6, <1>7, <1>8, <1>9, <1>10, <1>11, <1>12, <1>13, <1>14,
     <1>15, <1>16, <1>17, <1>18, <1>19, <1>20, <1>21, <1>22 DEF Next

\* Every reachable state of every instance is a state of the tables' types: in
\* particular no deadline goes negative and no authorization is issued with less
\* than no life left (guard.go:178-181, worker.go:42-245).
THEOREM TypeCorrect == Spec => []TypeOK
<1>1. Spec => []TypeInv
  BY TypeInit, TypeStep, PTL DEF Spec
<1> QED BY <1>1, PTL DEF TypeInv

------------------------------------------------------------------------------
(* One request, on the record, and truthfully reported *)

LEMMA SendInit == Init => SendInv
BY DEF Init, SendInv, WorkerInv, RowInv, Owns, Fresh, Honest, InFlight, Follows, Agrees, Truthful,
       Sent, NoIntent

\* A row keeps its promises while nothing they mention changes.
LEMMA RowFrame ==
    ASSUME NEW i \in Intents, Follows(i) /\ Agrees(i) /\ Truthful(i),
           intent'[i].state = intent[i].state, intent'[i].scope = intent[i].scope,
           intent'[i].auth = intent[i].auth, attempt'[i] = attempt[i], message'[i] = message[i],
           requests'[i] = requests[i], effect'[i] = effect[i],
           slot'[PhoneFor(i)] = slot[PhoneFor(i)]
    PROVE  (Follows(i) /\ Agrees(i) /\ Truthful(i))'
BY DEF Follows, Agrees, Truthful, PhoneFor

\* A worker keeps its promises while it rests and its intent is left alone.
LEMMA WorkerFrame ==
    ASSUME NEW w \in Workers, Owns(w) /\ Fresh(w) /\ Honest(w),
           pc'[w] = pc[w], job'[w] = job[w], outcome'[w] = outcome[w],
           InFlight(w) => /\ intent'[job[w]].token = intent[job[w]].token
                          /\ intent'[job[w]].state \in {intent[job[w]].state, "UNCERTAIN"}
                          /\ requests'[job[w]] = requests[job[w]]
                          /\ effect'[job[w]] = effect[job[w]]
    PROVE  (Owns(w) /\ Fresh(w) /\ Honest(w))'
BY DEF Owns, Fresh, Honest, InFlight

\* A worker that is not in flight has nothing to promise.
LEMMA WorkerAtRest ==
    ASSUME NEW w \in Workers, pc'[w] \in {"idle", "claimed"}
    PROVE  (Owns(w) /\ Fresh(w) /\ Honest(w))'
BY DEF Owns, Fresh, Honest, InFlight

\* Nobody is in flight for an intent that is still to be dispatched, and two
\* workers in flight have different intents.
LEMMA Exclusive ==
    ASSUME SendInv, NEW v \in Workers, InFlight(v)
    PROVE  /\ \A i \in Intents : intent[i].state \notin {"DISPATCHING", "UNCERTAIN"} => job[v] # i
           /\ \A w \in Workers \ {v} : InFlight(w) => job[v] # job[w]
BY DEF SendInv, WorkerInv, Owns

\* Nothing in SendInv mentions policies, sessions, windows or authorizations.
LEMMA SendFrame ==
    ASSUME SendInv, UNCHANGED <<rowVars, workerVars, netVars>>
    PROVE  SendInv'
BY DEF SendInv, WorkerInv, RowInv, Owns, Fresh, Honest, InFlight, Follows, Agrees, Truthful,
       PhoneFor, rowVars, workerVars, netVars


\* It is enough to look at one intent, when a step leaves the others alone, and
\* at one worker, when the others' intents are left alone.
LEMMA OneIntent ==
    ASSUME SendInv, NEW i \in Intents,
           \A j \in Intents \ {i} : /\ intent'[j] = intent[j] /\ attempt'[j] = attempt[j]
                                    /\ message'[j] = message[j] /\ requests'[j] = requests[j]
                                    /\ effect'[j] = effect[j]
                                    /\ slot'[PhoneFor(j)] \in {slot[PhoneFor(j)], i},
           \A j \in Intents \ {i} : intent[j].state \in Sent => slot'[PhoneFor(j)] = slot[PhoneFor(j)],
           (Follows(i) /\ Agrees(i) /\ Truthful(i))'
    PROVE  RowInv'
BY DEF SendInv, RowInv, Follows, Agrees, Truthful, PhoneFor

LEMMA OneWorker ==
    ASSUME SendInv, NEW w \in Workers,
           \A v \in Workers \ {w} :
              /\ pc'[v] = pc[v] /\ job'[v] = job[v] /\ outcome'[v] = outcome[v]
              /\ InFlight(v) => /\ intent'[job[v]] = intent[job[v]]
                                /\ requests'[job[v]] = requests[job[v]]
                                /\ effect'[job[v]] = effect[job[v]],
           (Owns(w) /\ Fresh(w) /\ Honest(w))'
    PROVE  WorkerInv'
<1>1. ASSUME NEW v \in Workers \ {w} PROVE (Owns(v) /\ Fresh(v) /\ Honest(v))'
  BY WorkerFrame DEF SendInv, WorkerInv
<1> QED BY <1>1 DEF WorkerInv

\* Every step keeps one request per intent, the record of it, and the agreement
\* of the tables with each other and with the provider.
LEMMA SendStep == ASSUME TypeInv, SendInv, [Next]_vars PROVE SendInv'
<1> USE DispatchAssumption
<1> DEFINE Same(i) == /\ intent'[i] = intent[i] /\ attempt'[i] = attempt[i]
                      /\ message'[i] = message[i] /\ requests'[i] = requests[i]
                      /\ effect'[i] = effect[i]
<1>a. /\ intent \in [Intents -> IntentRow] /\ attempt \in [Intents -> Outcome \cup {"NONE", "DISPATCHING"}]
      /\ message \in [Intents -> MessageRow] /\ slot \in [Phones -> Intents \cup {Nil}]
      /\ requests \in [Intents -> Nat] /\ effect \in [Intents -> {"NONE", "ACCEPTED", "REJECTED"}]
      /\ pc \in [Workers -> {"idle", "claimed", "authorized", "waiting", "answered"}]
      /\ job \in [Workers -> Intents \cup {Nil}]
      /\ outcome \in [Workers -> Outcome \cup {"NONE"}]
  BY DEF TypeInv, TypeOK
<1>b. \A w \in Workers : pc[w] # "idle" => job[w] \in Intents
  BY DEF TypeInv, Placed
<1>c. \A i \in Intents : Follows(i) /\ Agrees(i) /\ Truthful(i)
  BY DEF SendInv, RowInv
<1>d. \A w \in Workers : Owns(w) /\ Fresh(w) /\ Honest(w)
  BY DEF SendInv, WorkerInv
<1>1. ASSUME NEW on \in BOOLEAN, SetSending(on) PROVE SendInv'
  BY <1>1, SendFrame DEF SetSending
<1>2. CASE RevisePolicy
  BY <1>2, SendFrame DEF RevisePolicy
<1>3. CASE PolicyLapses
  BY <1>3, SendFrame DEF PolicyLapses
<1>4. CASE RebindSender
  BY <1>4, SendFrame DEF RebindSender
<1>5. ASSUME NEW s \in Sessions, RevokeSession(s) PROVE SendInv'
  BY <1>5, SendFrame DEF RevokeSession
<1>6. ASSUME NEW c \in Conversations, Assign(c) PROVE SendInv'
  BY <1>6, SendFrame DEF Assign
<1>7. ASSUME NEW c \in Conversations, NEW n \in 1..WindowTicks, Inbound(c, n) PROVE SendInv'
  BY <1>7, SendFrame DEF Inbound
<1>8. CASE Tick
  <2>1. \A i \in Intents : /\ intent'[i].state = intent[i].state
                           /\ intent'[i].scope = intent[i].scope
                           /\ intent'[i].auth = intent[i].auth
                           /\ intent'[i].token = intent[i].token
    <3>1. ASSUME NEW i \in Intents
          PROVE  /\ intent'[i] = [intent[i] EXCEPT !.claimLeft = Before(@), !.staleLeft = Before(@)]
                 /\ intent[i] \in IntentRow
      BY <1>8, <1>a DEF Tick
    <3> QED BY <3>1 DEF IntentRow
  <2>2. UNCHANGED <<attempt, message, slot, workerVars, netVars>>
    BY <1>8 DEF Tick
  <2>3. RowInv'
    BY <1>c, <2>1, <2>2, RowFrame DEF RowInv, netVars
  <2>4. ASSUME NEW w \in Workers PROVE (Owns(w) /\ Fresh(w) /\ Honest(w))'
    <3>1. InFlight(w) => job[w] \in Intents
      BY <1>b DEF InFlight
    <3> QED BY <1>d, <2>1, <2>2, <3>1, WorkerFrame DEF workerVars, netVars
  <2> QED BY <2>3, <2>4 DEF SendInv, WorkerInv
<1>9. ASSUME NEW a \in Authorizations, NEW sc \in Scope, Preflight(a, sc) PROVE SendInv'
  BY <1>9, SendFrame DEF Preflight
<1>10. ASSUME NEW i \in Intents, NEW k \in Keys, NEW a \in Authorizations, NEW sc \in Scope,
              Submit(i, k, a, sc)
       PROVE SendInv'
  <2>1. /\ intent'[i].state = "QUEUED" /\ intent'[i].scope = sc /\ intent'[i].auth = a
        /\ message'[i] = Pending /\ intent[i].state = "NONE"
        /\ UNCHANGED <<attempt, slot, workerVars, netVars>>
        /\ \A j \in Intents \ {i} : Same(j)
    BY <1>10, <1>a DEF Submit, netVars
  <2>2. (Follows(i) /\ Agrees(i) /\ Truthful(i))'
    BY <1>c, <2>1 DEF Follows, Agrees, Truthful, Sent, netVars
  <2>3. RowInv'
    BY <2>1, <2>2, OneIntent DEF PhoneFor
  <2>4. ASSUME NEW w \in Workers PROVE (Owns(w) /\ Fresh(w) /\ Honest(w))'
    <3>1. InFlight(w) => job[w] \in Intents \ {i}
      BY <1>b, <2>1, Exclusive DEF InFlight
    <3> QED BY <1>d, <2>1, <3>1, WorkerFrame DEF workerVars
  <2> QED BY <2>3, <2>4 DEF SendInv, WorkerInv
<1>11. ASSUME NEW w \in Workers, NEW i \in Intents, Claim(w, i) PROVE SendInv'
  <2>1. /\ intent'[i].state = "RESERVED" /\ intent'[i].scope = intent[i].scope
        /\ intent'[i].auth = intent[i].auth /\ intent[i].state \in {"QUEUED", "RESERVED"}
        /\ UNCHANGED <<attempt, message, slot, outcome, netVars>>
        /\ \A j \in Intents \ {i} : Same(j)
    BY <1>11, <1>a DEF Claim, Claimable, netVars, IntentRow
  <2>2. pc'[w] = "claimed" /\ \A v \in Workers \ {w} : pc'[v] = pc[v] /\ job'[v] = job[v]
    BY <1>11, <1>a DEF Claim
  <2>3. (Follows(i) /\ Agrees(i) /\ Truthful(i))'
    BY <1>c, <2>1 DEF Follows, Agrees, Truthful, Sent, netVars
  <2>4. RowInv'
    BY <2>1, <2>3, OneIntent DEF PhoneFor
  <2>5. \A v \in Workers : InFlight(v) => job[v] \in Intents \ {i}
    BY <1>b, <2>1, Exclusive DEF InFlight
  <2>6. (Owns(w) /\ Fresh(w) /\ Honest(w))'
    BY <2>2, WorkerAtRest
  <2>7. WorkerInv'
    BY <2>1, <2>2, <2>5, <2>6, OneWorker
  <2> QED BY <2>4, <2>7 DEF SendInv
<1>12. ASSUME NEW w \in Workers, Release(w), UNCHANGED <<rowVars, netVars>> PROVE SendInv'
  <2>1. pc'[w] = "idle" /\ \A v \in Workers \ {w} : /\ pc'[v] = pc[v] /\ job'[v] = job[v]
                                                    /\ outcome'[v] = outcome[v]
    BY <1>12, <1>a DEF Release
  <2>2. RowInv'
    BY <1>12, <1>c, RowFrame DEF RowInv, rowVars, netVars
  <2>3. (Owns(w) /\ Fresh(w) /\ Honest(w))'
    BY <2>1, WorkerAtRest
  <2>4. WorkerInv'
    BY <1>12, <2>1, <2>3, OneWorker DEF rowVars, netVars
  <2> QED BY <2>2, <2>4 DEF SendInv
<1>13. ASSUME NEW w \in Workers, Block(w) PROVE SendInv'
  <2>1. PICK i \in Intents : i = job[w]
    BY <1>13, <1>b DEF Block
  <2>2. /\ intent[i].state = "RESERVED"
        /\ intent'[i].state = "BLOCKED" /\ intent'[i].scope = intent[i].scope
        /\ intent'[i].auth = intent[i].auth /\ message'[i].processing = "BLOCKED"
        /\ UNCHANGED <<attempt, slot, netVars>>
        /\ \A j \in Intents \ {i} : Same(j)
    BY <1>13, <1>a, <2>1 DEF Block, Holds, netVars, IntentRow, MessageRow
  <2>3. pc'[w] = "idle" /\ \A v \in Workers \ {w} : /\ pc'[v] = pc[v] /\ job'[v] = job[v]
                                                    /\ outcome'[v] = outcome[v]
    BY <1>13, <1>a DEF Block, Release
  <2>4. (Follows(i) /\ Agrees(i) /\ Truthful(i))'
    BY <1>c, <2>2 DEF Follows, Agrees, Truthful, Sent, netVars
  <2>5. RowInv'
    BY <2>2, <2>4, OneIntent DEF PhoneFor
  <2>6. \A v \in Workers : InFlight(v) => job[v] \in Intents \ {i}
    BY <1>b, <2>2, Exclusive DEF InFlight
  <2>7. (Owns(w) /\ Fresh(w) /\ Honest(w))'
    BY <2>3, WorkerAtRest
  <2>8. WorkerInv'
    BY <2>2, <2>3, <2>6, <2>7, OneWorker
  <2> QED BY <2>5, <2>8 DEF SendInv
<1>14. ASSUME NEW w \in Workers, Permit(w) PROVE SendInv'
  <2>1. PICK i \in Intents : i = job[w]
    BY <1>14, <1>b DEF Permit
  <2>2. /\ intent[i].state = "RESERVED" /\ intent[i].token = w
        /\ intent'[i].state = "DISPATCHING" /\ intent'[i].scope = intent[i].scope
        /\ intent'[i].auth = intent[i].auth /\ intent'[i].token = w
        /\ attempt'[i] = "DISPATCHING"
        /\ UNCHANGED <<message, job, outcome, netVars>>
        /\ \A j \in Intents \ {i} : Same(j)
    BY <1>14, <1>a, <2>1 DEF Permit, Holds, netVars, IntentRow
  <2>3. pc'[w] = "authorized" /\ \A v \in Workers \ {w} : pc'[v] = pc[v]
    BY <1>14, <1>a DEF Permit
  <2>4. intent[i].scope \in Scope /\ requests[i] = 0 /\ effect[i] = "NONE"
    BY <1>c, <2>2 DEF Follows, Sent
  <2>5. PhoneFor(i) \in Phones
    BY <2>4 DEF PhoneFor, Scope
  <2>6. slot[PhoneFor(i)] = Nil /\ slot' = [slot EXCEPT ![PhoneFor(i)] = i]
    BY <1>14, <2>1 DEF Permit, SlotFree
  <2>7. (Follows(i) /\ Agrees(i) /\ Truthful(i))'
    <3>1. slot'[PhoneFor(i)'] = i
      BY <1>a, <2>2, <2>5, <2>6 DEF PhoneFor
    <3> QED BY <1>c, <2>2, <2>4, <3>1 DEF Follows, Agrees, Truthful, Sent, netVars
  <2>8. ASSUME NEW j \in Intents \ {i}
        PROVE  /\ slot'[PhoneFor(j)] \in {slot[PhoneFor(j)], i}
               /\ intent[j].state \in Sent => slot'[PhoneFor(j)] = slot[PhoneFor(j)]
    <3>1. PhoneFor(j) # PhoneFor(i) => slot'[PhoneFor(j)] = slot[PhoneFor(j)]
      BY <1>a, <2>5, <2>6
    <3>2. intent[j].state \in Sent => slot[PhoneFor(j)] = j
      BY <1>c DEF Follows
    <3>3. PhoneFor(j) = PhoneFor(i) => slot'[PhoneFor(j)] = i /\ slot[PhoneFor(j)] = Nil
      BY <1>a, <2>5, <2>6
    <3> QED BY <3>1, <3>2, <3>3
  <2>9. RowInv'
    <3>1. \A j \in Intents \ {i} : PhoneFor(j)' = PhoneFor(j)
      BY <2>2 DEF PhoneFor
    <3> QED BY <2>2, <2>7, <2>8, <3>1, OneIntent DEF netVars
  <2>10. \A v \in Workers : InFlight(v) => job[v] \in Intents \ {i}
    BY <1>b, <2>2, Exclusive DEF InFlight
  <2>11. (Owns(w) /\ Fresh(w) /\ Honest(w))'
    BY <2>1, <2>2, <2>3, <2>4 DEF Owns, Fresh, Honest, InFlight, netVars
  <2>12. WorkerInv'
    BY <2>2, <2>3, <2>10, <2>11, OneWorker
  <2> QED BY <2>9, <2>12 DEF SendInv
<1>15. ASSUME NEW w \in Workers, RefuseText(w) PROVE SendInv'
  <2>1. /\ UNCHANGED <<rowVars, job, netVars>>
        /\ pc'[w] = "answered" /\ outcome'[w] = "REJECTED" /\ pc[w] = "authorized"
        /\ \A v \in Workers \ {w} : pc'[v] = pc[v] /\ outcome'[v] = outcome[v]
    BY <1>15, <1>a DEF RefuseText
  <2>2. RowInv'
    BY <2>1, <1>c, RowFrame DEF RowInv, rowVars, netVars
  <2>3. (Owns(w) /\ Fresh(w) /\ Honest(w))'
    BY <1>d, <2>1 DEF Owns, Fresh, Honest, InFlight, rowVars, netVars
  <2>4. WorkerInv'
    BY <2>1, <2>3, OneWorker DEF rowVars, netVars
  <2> QED BY <2>2, <2>4 DEF SendInv
<1>16. ASSUME NEW w \in Workers, NEW e \in {"ACCEPTED", "REJECTED", "NONE"}, Transmit(w, e)
       PROVE SendInv'
  <2>1. PICK i \in Intents : i = job[w]
    BY <1>16, <1>b DEF Transmit
  <2>2. /\ UNCHANGED <<rowVars, job, outcome>>
        /\ pc[w] = "authorized" /\ pc'[w] = "waiting"
        /\ \A v \in Workers \ {w} : pc'[v] = pc[v]
        /\ requests'[i] = requests[i] + 1 /\ effect'[i] = e
        /\ \A j \in Intents \ {i} : Same(j)
    BY <1>16, <1>a, <2>1 DEF Transmit, rowVars
  <2>3. requests[i] = 0 /\ intent[i].state \in {"DISPATCHING", "UNCERTAIN"}
    BY <1>d, <2>1, <2>2 DEF Owns, Fresh, InFlight
  <2>4. (Follows(i) /\ Agrees(i) /\ Truthful(i))'
    BY <1>c, <2>2, <2>3 DEF Follows, Agrees, Truthful, Sent, rowVars, PhoneFor
  <2>5. RowInv'
    BY <2>2, <2>4, OneIntent DEF PhoneFor, rowVars
  <2>6. \A v \in Workers \ {w} : InFlight(v) => job[v] \in Intents \ {i}
    BY <1>b, <2>1, <2>2, Exclusive DEF InFlight
  <2>7. (Owns(w) /\ Fresh(w) /\ Honest(w))'
    BY <1>d, <2>1, <2>2 DEF Owns, Fresh, Honest, InFlight, rowVars
  <2>8. WorkerInv'
    BY <2>2, <2>6, <2>7, OneWorker
  <2> QED BY <2>5, <2>8 DEF SendInv
<1>17. ASSUME NEW w \in Workers, NEW o \in Outcome, Answer(w, o) PROVE SendInv'
  <2>1. /\ UNCHANGED <<rowVars, job, netVars>>
        /\ pc[w] = "waiting" /\ pc'[w] = "answered" /\ outcome'[w] = o
        /\ o \in SendText(effect[job[w]])
        /\ \A v \in Workers \ {w} : pc'[v] = pc[v] /\ outcome'[v] = outcome[v]
    BY <1>17, <1>a DEF Answer
  <2>2. RowInv'
    BY <2>1, <1>c, RowFrame DEF RowInv, rowVars, netVars
  <2>3. (Owns(w) /\ Fresh(w) /\ Honest(w))'
    BY <1>d, <2>1 DEF Owns, Fresh, Honest, InFlight, rowVars, netVars, SendText
  <2>4. WorkerInv'
    BY <2>1, <2>3, OneWorker DEF rowVars, netVars
  <2> QED BY <2>2, <2>4 DEF SendInv
<1>18. ASSUME NEW w \in Workers, Finish(w) PROVE SendInv'
  <2>1. PICK i \in Intents : i = job[w]
    BY <1>18, <1>b DEF Finish
  <2>2. outcome[w] \in Outcome
    BY <1>18 DEF Finish, TypeInv, Placed
  <2>3. Recorded(outcome[w]) \in {"ACCEPTED", "FAILED", "UNCERTAIN"}
    BY <2>2 DEF Recorded, Outcome
  <2>4. /\ intent[i].state = "DISPATCHING"
        /\ intent'[i].state = Recorded(outcome[w]) /\ intent'[i].scope = intent[i].scope
        /\ intent'[i].auth = intent[i].auth
        /\ attempt'[i] = IF attempt[i] = "DISPATCHING" THEN outcome[w] ELSE attempt[i]
        /\ message'[i].provider = (outcome[w] = "ACCEPTED")
        /\ message'[i].delivery = Recorded(outcome[w])
        /\ UNCHANGED <<slot, netVars>>
        /\ \A j \in Intents \ {i} : Same(j)
    BY <1>18, <1>a, <2>1 DEF Finish, Fence, netVars, IntentRow, MessageRow
  <2>5. pc[w] = "answered" /\ pc'[w] = "idle"
        /\ \A v \in Workers \ {w} : pc'[v] = pc[v] /\ job'[v] = job[v] /\ outcome'[v] = outcome[v]
    BY <1>18, <1>a DEF Finish, Release
  <2>6. attempt[i] = "DISPATCHING"
    BY <1>c, <2>4 DEF Agrees
  <2>7. Follows(i)'
    BY <1>c, <2>3, <2>4 DEF Follows, Sent, netVars, PhoneFor
  <2>8. Agrees(i)'
    BY <2>2, <2>4, <2>6 DEF Agrees, Recorded, Outcome
  <2>9. Truthful(i)'
    BY <1>d, <2>1, <2>2, <2>4, <2>5 DEF Honest, Truthful, Recorded, Outcome, netVars
  <2>10. RowInv'
    BY <2>4, <2>7, <2>8, <2>9, OneIntent DEF PhoneFor, netVars
  <2>11. \A v \in Workers \ {w} : InFlight(v) => job[v] \in Intents \ {i}
    BY <1>b, <2>1, <2>5, Exclusive DEF InFlight
  <2>12. (Owns(w) /\ Fresh(w) /\ Honest(w))'
    BY <2>5, WorkerAtRest
  <2>13. WorkerInv'
    BY <2>4, <2>5, <2>11, <2>12, OneWorker
  <2> QED BY <2>10, <2>13 DEF SendInv
<1>20. ASSUME NEW w \in Workers, RecoverUncertain(w) PROVE SendInv'
  <2>1. UNCHANGED <<slot, workerVars, netVars>>
    BY <1>20 DEF RecoverUncertain
  <2>2. ASSUME NEW i \in Intents
        PROVE  /\ (Follows(i) /\ Agrees(i) /\ Truthful(i))'
               /\ intent'[i].token = intent[i].token
               /\ intent'[i].state \in {intent[i].state, "UNCERTAIN"}
    <3>1. CASE i \in Stale
      <4>1. /\ intent[i].state = "DISPATCHING" /\ intent'[i].state = "UNCERTAIN"
            /\ intent'[i].scope = intent[i].scope /\ intent'[i].auth = intent[i].auth
            /\ intent'[i].token = intent[i].token
            /\ message'[i].delivery = "UNCERTAIN"
            /\ message'[i].provider = message[i].provider
            /\ attempt'[i] = IF attempt[i] = "DISPATCHING" THEN "UNCERTAIN" ELSE attempt[i]
        BY <1>20, <1>a, <3>1 DEF RecoverUncertain, Stale, IntentRow, MessageRow
      <4>2. attempt[i] = "DISPATCHING" /\ ~message[i].provider
        BY <1>c, <4>1 DEF Agrees, Pending
      <4>3. Follows(i)'
        BY <1>c, <2>1, <4>1 DEF Follows, Sent, netVars, PhoneFor
      <4>4. Agrees(i)'
        BY <4>1, <4>2 DEF Agrees, Recorded, Outcome
      <4>5. Truthful(i)'
        BY <4>1 DEF Truthful
      <4> QED BY <4>1, <4>3, <4>4, <4>5
    <3>2. CASE i \notin Stale
      <4>1. intent'[i] = intent[i] /\ attempt'[i] = attempt[i] /\ message'[i] = message[i]
        BY <1>20, <3>2 DEF RecoverUncertain
      <4> QED BY <1>c, <2>1, <4>1, RowFrame DEF netVars
    <3> QED BY <3>1, <3>2
  <2>3. ASSUME NEW v \in Workers PROVE (Owns(v) /\ Fresh(v) /\ Honest(v))'
    <3>1. InFlight(v) => job[v] \in Intents
      BY <1>b DEF InFlight
    <3> QED BY <1>d, <2>1, <2>2, <3>1, WorkerFrame DEF workerVars, netVars
  <2> QED BY <2>2, <2>3 DEF SendInv, WorkerInv, RowInv
<1>21. CASE UNCHANGED vars
  BY <1>21, SendFrame DEF vars
<1>22. ASSUME NEW w \in Workers, LoseClaim(w) \/ FinishFenced(w) \/ Fault(w) PROVE SendInv'
  BY <1>22, <1>12 DEF LoseClaim, FinishFenced, Fault
<1> QED
  BY <1>1, <1>2, <1>3, <1>4, <1>5, <1>6, <1>7, <1>8, <1>9, <1>10, <1>11, <1>13, <1>14,
     <1>15, <1>16, <1>17, <1>18, <1>20, <1>21, <1>22 DEF Next

LEMMA SendCorrect == Spec => [](TypeInv /\ SendInv)
<1>1. Init => TypeInv /\ SendInv
  BY TypeInit, SendInit
<1>2. TypeInv /\ SendInv /\ [Next]_vars => (TypeInv /\ SendInv)'
  BY TypeStep, SendStep
<1> QED BY <1>1, <1>2, PTL DEF Spec

\* The provider sees at most one request for an intent and one intent per phone,
\* through any number of crashes, stalls and lost claims (worker.go:107-155).
THEOREM OneRequest == Spec => []AtMostOneRequest
<1>1. TypeInv /\ SendInv => AtMostOneRequest
  BY DEF TypeInv, TypeOK, SendInv, RowInv, Follows, AtMostOneRequest
<1> QED BY <1>1, SendCorrect, PTL

\* Whatever instant a crash picks, a request that left is on record and its
\* intent is past claiming and blocking (worker.go:134-155).
THEOREM OnRecord == Spec => []RequestIsOnRecord
<1>1. TypeInv /\ SendInv => RequestIsOnRecord
  <2> SUFFICES ASSUME TypeInv, SendInv, NEW i \in Intents, requests[i] > 0
               PROVE  /\ attempt[i] # "NONE" /\ intent[i].state \in Sent
                      /\ slot[PhoneFor(i)] = i
    BY DEF RequestIsOnRecord, Sent
  <2>1. intent[i].state \in Sent /\ slot[PhoneFor(i)] = i
    BY DEF SendInv, RowInv, Follows
  <2>2. attempt[i] # "NONE"
    BY <2>1 DEF SendInv, RowInv, Agrees, Sent, Outcome
  <2> QED BY <2>1, <2>2
<1> QED BY <1>1, SendCorrect, PTL

\* A recorded ACCEPTED or FAILED is what the provider did (worker.go:157-198).
THEOREM Truth == Spec => []TruthfulOutcome
<1>1. SendInv => TruthfulOutcome
  BY DEF SendInv, RowInv, TruthfulOutcome
<1> QED BY <1>1, SendCorrect, PTL

\* The three tables that finishDispatch and recoverUncertain race to write agree
\* in every reachable state (worker.go:157-229).
THEOREM Agreement == Spec => []OutcomeAgreement
<1>1. SendInv => OutcomeAgreement
  BY DEF SendInv, RowInv, OutcomeAgreement
<1> QED BY <1>1, SendCorrect, PTL

------------------------------------------------------------------------------
(* The grounds of a dispatch *)

\* The authorization a submitted intent rests on.
LEMMA Grounded ==
    ASSUME TypeInv, SendInv, GroundsInv, NEW i \in Intents, intent[i].state # "NONE"
    PROVE  /\ intent[i].auth \in Authorizations /\ intent[i].scope \in Scope
           /\ auth[intent[i].auth] # NoAuth
           /\ auth[intent[i].auth] \in AuthRow
           /\ auth[intent[i].auth].consumed = i
           /\ auth[intent[i].auth].scope = intent[i].scope
           /\ auth[intent[i].auth].rev <= policyRev
           /\ intent[i].scope.assignment <= assignment[intent[i].scope.conv]
<1>1. intent[i].auth \in Authorizations /\ intent[i].scope \in Scope
  BY DEF SendInv, RowInv, Follows
<1>2. auth[intent[i].auth].consumed = i /\ auth[intent[i].auth].scope = intent[i].scope
  BY DEF GroundsInv, AuthorizationSpentOnce
<1>3. auth[intent[i].auth] # NoAuth
  BY <1>2, DispatchAssumption DEF NoAuth
<1>4. auth[intent[i].auth].rev <= policyRev
      /\ intent[i].scope.assignment <= assignment[intent[i].scope.conv]
  BY <1>1, <1>2, <1>3 DEF GroundsInv, Issued
<1> QED BY <1>1, <1>2, <1>3, <1>4 DEF TypeInv, TypeOK

LEMMA GroundsInit == Init => GroundsInv
BY DEF Init, GroundsInv, Issued, AuthorizationSpentOnce, AuthorizationInsideWindow,
       WithdrawnLapsed, WithdrawnNeverSent, ClaimCoversLife, ReclaimedLapsed,
       ReclaimedNeverSent, NoIntent, NoAuth

\* A worker's step past the claim keeps an intent's authorization, leaves the
\* claim alone, and starts no attempt for a withdrawn or reclaimed intent.
LEMMA GroundsFrame ==
    ASSUME TypeInv, SendInv, GroundsInv,
           UNCHANGED <<policyRev, covered, active, assignment, windowLeft, auth, withdrawn, reclaimed>>,
           \A i \in Intents :
              /\ intent'[i].scope = intent[i].scope /\ intent'[i].auth = intent[i].auth
              /\ intent'[i].claimLeft = intent[i].claimLeft
              /\ \/ intent'[i].state = intent[i].state
                 \/ intent[i].state # "NONE" /\ intent'[i].state \in Sent \cup {"BLOCKED"},
           \A i \in withdrawn \cup reclaimed : attempt[i] = "NONE" => attempt'[i] = "NONE"
    PROVE  GroundsInv'
<1>1. Issued' /\ AuthorizationInsideWindow'
  BY DEF GroundsInv, Issued, AuthorizationInsideWindow
<1>2. AuthorizationSpentOnce'
  BY DEF GroundsInv, AuthorizationSpentOnce
<1>3. withdrawn \subseteq Intents /\ reclaimed \subseteq Intents
  BY DEF TypeInv, TypeOK
<1>4. WithdrawnLapsed'
  BY <1>3 DEF GroundsInv, WithdrawnLapsed, Undispatched, Lapsed, Sent
<1>5. ClaimCoversLife'
  BY DEF GroundsInv, ClaimCoversLife, Sent
<1>6. ReclaimedLapsed'
  BY <1>3 DEF GroundsInv, ReclaimedLapsed, Undispatched, Sent
<1>7. WithdrawnNeverSent' /\ ReclaimedNeverSent'
  BY DEF GroundsInv, WithdrawnNeverSent, ReclaimedNeverSent
<1> QED BY <1>1, <1>2, <1>4, <1>5, <1>6, <1>7 DEF GroundsInv

\* A change of the grounds only moves revisions forwards, and withdraws intents
\* that are lapsed by it.
LEMMA GroundsMove ==
    ASSUME TypeInv, SendInv, GroundsInv,
           UNCHANGED <<windowLeft, auth, rowVars, reclaimed>>,
           policyRev' \in Nat, policyRev' >= policyRev, covered' => covered, active' \subseteq active,
           \A c \in Conversations : assignment'[c] \in Nat /\ assignment'[c] >= assignment[c],
           NEW S \in SUBSET Undispatched, withdrawn' = withdrawn \cup S,
           \A i \in S : Lapsed(i)'
    PROVE  GroundsInv'
<1>1. /\ policyRev \in Nat /\ auth \in [Authorizations -> AuthRow]
      /\ assignment \in [Conversations -> 0..MaxAssignment] /\ withdrawn \subseteq Intents
  BY DEF TypeInv, TypeOK
<1>2. UNCHANGED <<intent, attempt>>
  BY DEF rowVars
<1>3. Issued'
  <2> SUFFICES ASSUME NEW a \in Authorizations, auth[a] # NoAuth
               PROVE  /\ auth[a].scope \in Scope /\ auth[a].rev <= policyRev'
                      /\ auth[a].scope.assignment <= assignment'[auth[a].scope.conv]
    BY DEF Issued
  <2>1. /\ auth[a].scope \in Scope /\ auth[a].rev <= policyRev
        /\ auth[a].scope.assignment <= assignment[auth[a].scope.conv]
    BY DEF GroundsInv, Issued
  <2>2. /\ auth[a].rev \in Nat /\ auth[a].scope.assignment \in Nat
        /\ auth[a].scope.conv \in Conversations
    BY <1>1, <2>1, DispatchAssumption DEF AuthRow, Scope
  <2> QED BY <1>1, <2>1, <2>2, DispatchAssumption
<1>4. ASSUME NEW i \in withdrawn PROVE intent[i].state # "NONE" /\ (i \in Undispatched => Lapsed(i)')
  <2>1. intent[i].state # "NONE" /\ (i \in Undispatched => Lapsed(i))
    BY DEF GroundsInv, WithdrawnLapsed
  <2>2. /\ auth[intent[i].auth] \in AuthRow /\ intent[i].scope \in Scope
    BY <1>1, <2>1, Grounded
  <2>3. /\ auth[intent[i].auth].rev \in Nat /\ intent[i].scope.assignment \in Nat
        /\ intent[i].scope.conv \in Conversations
    BY <2>2, DispatchAssumption DEF AuthRow, Scope
  <2>4. assignment[intent[i].scope.conv] \in Nat
    BY <1>1, <2>3, DispatchAssumption
  <2> QED BY <1>1, <1>2, <2>1, <2>3, <2>4 DEF Lapsed
<1>5. WithdrawnLapsed'
  BY <1>2, <1>4 DEF WithdrawnLapsed, Undispatched
<1>6. WithdrawnNeverSent'
  <2>1. \A i \in S : attempt[i] = "NONE"
    BY DEF SendInv, RowInv, Agrees, Undispatched
  <2> QED BY <1>2, <2>1 DEF GroundsInv, WithdrawnNeverSent
<1>7. (/\ AuthorizationSpentOnce /\ AuthorizationInsideWindow /\ ClaimCoversLife
       /\ ReclaimedLapsed /\ ReclaimedNeverSent)'
  BY <1>2 DEF GroundsInv, AuthorizationSpentOnce, AuthorizationInsideWindow, ClaimCoversLife,
              ReclaimedLapsed, ReclaimedNeverSent, Undispatched
<1> QED BY <1>3, <1>5, <1>6, <1>7 DEF GroundsInv

\* Every step keeps the grounds: authorizations are issued once and spent once,
\* what withdraws an intent outlives it, and a claim outlives an authorization.
LEMMA GroundsStep == ASSUME TypeInv, SendInv, GroundsInv, [Next]_vars PROVE GroundsInv'
<1> USE DispatchAssumption
<1>a. /\ policyRev \in Nat /\ auth \in [Authorizations -> AuthRow]
      /\ assignment \in [Conversations -> 0..MaxAssignment]
      /\ windowLeft \in [Conversations -> 0..WindowTicks]
      /\ intent \in [Intents -> IntentRow] /\ attempt \in [Intents -> Outcome \cup {"NONE", "DISPATCHING"}]
      /\ withdrawn \subseteq Intents /\ reclaimed \subseteq Intents
      /\ covered \in BOOLEAN /\ enabled \in BOOLEAN
      /\ \A w \in Workers : pc[w] # "idle" => job[w] \in Intents
  BY DEF TypeInv, TypeOK, Placed
<1>b. \A c \in Conversations : assignment[c] \in Nat /\ windowLeft[c] \in Nat
  BY <1>a
<1>c. ASSUME NEW i \in Undispatched
      PROVE  /\ i \in Intents /\ intent[i].scope \in Scope /\ intent[i].scope.assignment \in Nat
             /\ intent[i].scope.conv \in Conversations
             /\ intent[i].scope.assignment <= assignment[intent[i].scope.conv]
             /\ auth[intent[i].auth].rev \in Nat /\ auth[intent[i].auth].rev <= policyRev
  <2>1. i \in Intents /\ intent[i].state # "NONE"
    BY DEF Undispatched
  <2> QED BY <2>1, Grounded DEF Scope, AuthRow
<1>1. ASSUME NEW on \in BOOLEAN, SetSending(on) PROVE GroundsInv'
  <2>1. \A i \in Undispatched : Lapsed(i)'
    BY <1>1, <1>a, <1>c DEF SetSending, Lapsed, rowVars
  <2> QED BY <1>1, <1>a, <1>b, <2>1, GroundsMove DEF SetSending, Withdraw
<1>2. CASE RevisePolicy
  <2>1. \A i \in Undispatched : Lapsed(i)'
    BY <1>2, <1>a, <1>c DEF RevisePolicy, Lapsed, rowVars
  <2> QED BY <1>2, <1>a, <1>b, <2>1, GroundsMove DEF RevisePolicy, Withdraw
<1>3. CASE PolicyLapses
  <2>1. \A i \in Undispatched : Lapsed(i)'
    BY <1>3 DEF PolicyLapses, Lapsed
  <2> QED BY <1>3, <1>a, <1>b, <2>1, GroundsMove DEF PolicyLapses, Withdraw
<1>4. ASSUME NEW s \in Sessions, RevokeSession(s) PROVE GroundsInv'
  <2>1. PICK S \in SUBSET Undispatched : S = {i \in Undispatched : intent[i].scope.session = s}
    OBVIOUS
  <2>2. \A i \in S : Lapsed(i)'
    BY <1>4, <2>1 DEF RevokeSession, Lapsed, rowVars
  <2>3. withdrawn' = withdrawn \cup S
    BY <1>4, <2>1 DEF RevokeSession, Withdraw
  <2>4. /\ UNCHANGED <<windowLeft, auth, rowVars, reclaimed, policyRev, covered, assignment>>
        /\ active' \subseteq active
    BY <1>4 DEF RevokeSession, policyVars
  <2> QED BY <1>a, <1>b, <2>2, <2>3, <2>4, GroundsMove
<1>5. ASSUME NEW c \in Conversations, Assign(c) PROVE GroundsInv'
  <2>1. PICK S \in SUBSET Undispatched : S = {i \in Intents : i \in Undispatched /\ intent[i].scope.conv = c}
    BY DEF Undispatched
  <2>2. withdrawn' = withdrawn \cup S
    BY <1>5, <1>c, <2>1 DEF Assign, Withdraw
  <2>3. \A d \in Conversations : assignment'[d] = IF d = c THEN assignment[c] + 1 ELSE assignment[d]
    BY <1>5, <1>a DEF Assign
  <2>4. \A i \in S : Lapsed(i)'
    <3> SUFFICES ASSUME NEW i \in S PROVE intent[i].scope.assignment < assignment'[intent[i].scope.conv]
      BY <1>5 DEF Assign, Lapsed, rowVars
    <3> QED BY <1>b, <1>c, <2>1, <2>3
  <2>5. \A d \in Conversations : assignment'[d] \in Nat /\ assignment'[d] >= assignment[d]
    BY <1>b, <2>3
  <2> QED BY <1>5, <1>a, <2>2, <2>4, <2>5, GroundsMove DEF Assign, policyVars
<1>6. ASSUME NEW c \in Conversations, NEW n \in 1..WindowTicks, Inbound(c, n) PROVE GroundsInv'
  <2>1. /\ UNCHANGED <<policyRev, covered, active, assignment, auth, intent, attempt, withdrawn, reclaimed>>
        /\ \A d \in Conversations : windowLeft'[d] \in Nat /\ windowLeft'[d] >= windowLeft[d]
    BY <1>6, <1>a DEF Inbound, groundVars, policyVars, rowVars
  <2>2. AuthorizationInsideWindow'
    <3> SUFFICES ASSUME NEW a \in Authorizations, auth[a].left > 0
                 PROVE  windowLeft'[auth[a].scope.conv] >= auth[a].left + Margin
      BY <2>1 DEF AuthorizationInsideWindow
    <3>1. auth[a].scope.conv \in Conversations
      BY DEF GroundsInv, Issued, NoAuth, Scope
    <3>2. windowLeft[auth[a].scope.conv] >= auth[a].left + Margin
      BY DEF GroundsInv, AuthorizationInsideWindow
    <3>3. auth[a].left \in Nat
      BY <1>a DEF AuthRow
    <3> QED BY <1>b, <2>1, <3>1, <3>2, <3>3, GuardAssumption
  <2> QED BY <2>1, <2>2 DEF GroundsInv, Issued, AuthorizationSpentOnce, WithdrawnLapsed, Undispatched,
            Lapsed, WithdrawnNeverSent, ClaimCoversLife, ReclaimedLapsed, ReclaimedNeverSent
<1>7. CASE Tick
  <2>1. UNCHANGED <<policyRev, covered, active, assignment, attempt, withdrawn, reclaimed>>
    BY <1>7 DEF Tick, groundVars, policyVars
  <2>2. ASSUME NEW i \in Intents
        PROVE  /\ intent'[i].state = intent[i].state /\ intent'[i].scope = intent[i].scope
               /\ intent'[i].auth = intent[i].auth
               /\ intent'[i].claimLeft = Before(intent[i].claimLeft) /\ intent[i].claimLeft \in Nat
    <3>1. /\ intent'[i] = [intent[i] EXCEPT !.claimLeft = Before(@), !.staleLeft = Before(@)]
          /\ intent[i] \in IntentRow
      BY <1>7, <1>a DEF Tick
    <3> QED BY <3>1 DEF IntentRow
  <2>3. ASSUME NEW a \in Authorizations
        PROVE  /\ auth'[a].scope = auth[a].scope /\ auth'[a].rev = auth[a].rev
               /\ auth'[a].consumed = auth[a].consumed
               /\ auth'[a].left = Before(auth[a].left) /\ auth[a].left \in Nat
               /\ auth[a] = NoAuth => auth'[a] = NoAuth
    <3>1. auth'[a] = [auth[a] EXCEPT !.left = Before(@)] /\ auth[a] \in AuthRow
      BY <1>7, <1>a DEF Tick
    <3> QED BY <3>1 DEF AuthRow, NoAuth, Before
  <2>4. \A i \in Intents : intent[i].state # "NONE" => intent[i].auth \in Authorizations
    BY Grounded
  <2>5. Issued'
    BY <2>1, <2>3 DEF GroundsInv, Issued
  <2>6. AuthorizationSpentOnce'
    BY <2>2, <2>3, <2>4 DEF GroundsInv, AuthorizationSpentOnce
  <2>7. AuthorizationInsideWindow'
    <3> SUFFICES ASSUME NEW a \in Authorizations, auth'[a].left > 0
                 PROVE  windowLeft'[auth[a].scope.conv] >= auth'[a].left + Margin
      BY <2>3 DEF AuthorizationInsideWindow
    <3>1. auth[a].left > 0 /\ auth'[a].left = auth[a].left - 1 /\ auth[a].left \in Nat
      BY <2>3 DEF Before
    <3>2. auth[a].scope.conv \in Conversations
      BY <3>1 DEF GroundsInv, Issued, NoAuth, Scope
    <3>3. windowLeft'[auth[a].scope.conv] = Before(windowLeft[auth[a].scope.conv])
      BY <1>7, <3>2 DEF Tick
    <3>4. windowLeft[auth[a].scope.conv] >= auth[a].left + Margin
      BY <3>1 DEF GroundsInv, AuthorizationInsideWindow
    <3> QED BY <1>b, <3>1, <3>2, <3>3, <3>4, GuardAssumption DEF Before
  <2>8. WithdrawnLapsed'
    <3> SUFFICES ASSUME NEW i \in withdrawn
                 PROVE  intent[i].state # "NONE" /\ (i \in Undispatched => Lapsed(i)')
      BY <1>a, <2>1, <2>2 DEF WithdrawnLapsed, Undispatched
    <3> QED BY <1>a, <2>1, <2>2, <2>3, <2>4 DEF GroundsInv, WithdrawnLapsed, Lapsed
  <2>9. ClaimCoversLife'
    <3> SUFFICES ASSUME NEW i \in Intents, intent[i].state = "RESERVED"
                 PROVE  Before(auth[intent[i].auth].left) <= Before(intent[i].claimLeft)
      BY <2>2, <2>3, <2>4 DEF ClaimCoversLife
    <3>1. auth[intent[i].auth].left <= intent[i].claimLeft
      BY DEF GroundsInv, ClaimCoversLife
    <3> QED BY <2>2, <2>3, <2>4, <3>1 DEF Before
  <2>10. ReclaimedLapsed'
    <3> SUFFICES ASSUME NEW i \in reclaimed
                 PROVE  /\ intent[i].state # "NONE"
                        /\ i \in Undispatched => Before(auth[intent[i].auth].left) = 0
      BY <1>a, <2>1, <2>2, <2>3, <2>4 DEF ReclaimedLapsed, Undispatched
    <3> QED BY DEF GroundsInv, ReclaimedLapsed, Before
  <2>11. WithdrawnNeverSent' /\ ReclaimedNeverSent'
    BY <2>1 DEF GroundsInv, WithdrawnNeverSent, ReclaimedNeverSent
  <2> QED BY <2>5, <2>6, <2>7, <2>8, <2>9, <2>10, <2>11 DEF GroundsInv
<1>8. ASSUME NEW a \in Authorizations, NEW sc \in Scope, Preflight(a, sc) PROVE GroundsInv'
  <2>1. /\ UNCHANGED <<policyRev, covered, active, assignment, windowLeft, intent, attempt,
                       withdrawn, reclaimed>>
        /\ auth[a] = NoAuth
        /\ \A b \in Authorizations \ {a} : auth'[b] = auth[b]
        /\ auth'[a] = [scope |-> sc, rev |-> policyRev, left |-> AuthLife(sc.conv), consumed |-> Nil]
    BY <1>8, <1>a DEF Preflight, groundVars, policyVars, rowVars
  <2>2. sc.conv \in Conversations
    BY DEF Scope
  <2>3. sc.assignment = assignment[sc.conv] /\ windowLeft[sc.conv] > Margin
    BY <1>8, <1>a, <1>b, <2>2, AllowedMeans DEF Preflight
  <2>4. AuthLife(sc.conv) \in Int /\ windowLeft[sc.conv] >= AuthLife(sc.conv) + Margin
    BY <1>b, <2>2, GuardAssumption DEF AuthLife, Smaller
  <2>5. ASSUME NEW i \in Intents, intent[i].state # "NONE"
        PROVE  intent[i].auth \in Authorizations \ {a}
    BY <2>1, <2>5, Grounded
  <2>6. Issued'
    BY <1>a, <1>b, <2>1, <2>2, <2>3 DEF GroundsInv, Issued
  <2>7. AuthorizationInsideWindow'
    BY <2>1, <2>4 DEF GroundsInv, AuthorizationInsideWindow
  <2>8. AuthorizationSpentOnce'
    BY <2>1, <2>5 DEF GroundsInv, AuthorizationSpentOnce
  <2>9. WithdrawnLapsed'
    BY <1>a, <2>1, <2>5 DEF GroundsInv, WithdrawnLapsed, Lapsed, Undispatched
  <2>10. ClaimCoversLife' /\ ReclaimedLapsed'
    BY <1>a, <2>1, <2>5 DEF GroundsInv, ClaimCoversLife, ReclaimedLapsed, Undispatched
  <2>11. WithdrawnNeverSent' /\ ReclaimedNeverSent'
    BY <2>1 DEF GroundsInv, WithdrawnNeverSent, ReclaimedNeverSent
  <2> QED BY <2>6, <2>7, <2>8, <2>9, <2>10, <2>11 DEF GroundsInv
<1>9. ASSUME NEW i \in Intents, NEW k \in Keys, NEW a \in Authorizations, NEW sc \in Scope,
             Submit(i, k, a, sc)
      PROVE  GroundsInv'
  <2>1. /\ UNCHANGED <<policyRev, covered, active, assignment, windowLeft, attempt, withdrawn, reclaimed>>
        /\ auth[a] # NoAuth /\ auth[a].scope = sc /\ auth[a].consumed = Nil
        /\ \A j \in Intents \ {i} : intent'[j] = intent[j]
        /\ intent[i].state = "NONE" /\ intent'[i].state = "QUEUED"
        /\ intent'[i].scope = sc /\ intent'[i].auth = a
    BY <1>9, <1>a DEF Submit, Presentable, groundVars, policyVars
  <2>2. ASSUME NEW b \in Authorizations
        PROVE  /\ auth'[b].scope = auth[b].scope /\ auth'[b].rev = auth[b].rev
               /\ auth'[b].left = auth[b].left
               /\ auth'[b].consumed = IF b = a THEN i ELSE auth[b].consumed
               /\ auth'[b] # NoAuth => auth[b] # NoAuth
    BY <1>9, <1>a, <2>1 DEF Submit, AuthRow
  <2>3. ASSUME NEW j \in Intents \ {i}, intent[j].state # "NONE"
        PROVE  intent[j].auth \in Authorizations \ {a}
    BY <2>1, <2>3, Grounded
  <2>4. Issued'
    BY <2>1, <2>2 DEF GroundsInv, Issued
  <2>5. AuthorizationInsideWindow'
    BY <2>1, <2>2 DEF GroundsInv, AuthorizationInsideWindow
  <2>6. AuthorizationSpentOnce'
    BY <2>1, <2>2, <2>3 DEF GroundsInv, AuthorizationSpentOnce
  <2>7. i \notin withdrawn \cup reclaimed
    BY <2>1 DEF GroundsInv, WithdrawnLapsed, ReclaimedLapsed
  <2>8. WithdrawnLapsed'
    BY <1>a, <2>1, <2>2, <2>3, <2>7 DEF GroundsInv, WithdrawnLapsed, Lapsed, Undispatched
  <2>9. ClaimCoversLife' /\ ReclaimedLapsed'
    BY <1>a, <2>1, <2>2, <2>3, <2>7 DEF GroundsInv, ClaimCoversLife, ReclaimedLapsed, Undispatched
  <2>10. WithdrawnNeverSent' /\ ReclaimedNeverSent'
    BY <2>1 DEF GroundsInv, WithdrawnNeverSent, ReclaimedNeverSent
  <2> QED BY <2>4, <2>5, <2>6, <2>8, <2>9, <2>10 DEF GroundsInv
<1>10. ASSUME NEW w \in Workers, NEW i \in Intents, Claim(w, i) PROVE GroundsInv'
  <2>1. /\ UNCHANGED <<policyRev, covered, active, assignment, windowLeft, auth, attempt, withdrawn>>
        /\ \A j \in Intents \ {i} : intent'[j] = intent[j]
        /\ intent'[i].state = "RESERVED" /\ intent'[i].scope = intent[i].scope
        /\ intent'[i].auth = intent[i].auth /\ intent'[i].claimLeft = ClaimTicks
    BY <1>10, <1>a DEF Claim, groundVars, policyVars, IntentRow
  <2>2. /\ i \in Undispatched
        /\ intent[i].state = "RESERVED" => intent[i].claimLeft = 0
        /\ reclaimed' = IF intent[i].state = "RESERVED" THEN reclaimed \cup {i} ELSE reclaimed
    BY <1>10 DEF Claim, Claimable, Undispatched
  <2>3. auth[intent[i].auth].left \in 0..AuthTicks
    BY <2>2, Grounded DEF Undispatched, AuthRow
  <2>4. Issued' /\ AuthorizationInsideWindow'
    BY <2>1 DEF GroundsInv, Issued, AuthorizationInsideWindow
  <2>5. AuthorizationSpentOnce'
    BY <2>1, <2>2 DEF GroundsInv, AuthorizationSpentOnce, Undispatched
  <2>6. WithdrawnLapsed'
    BY <1>a, <2>1, <2>2 DEF GroundsInv, WithdrawnLapsed, Lapsed, Undispatched
  <2>7. ClaimCoversLife'
    BY <2>1, <2>3, LeaseAssumption DEF GroundsInv, ClaimCoversLife
  <2>8. ReclaimedLapsed'
    <3>1. intent[i].state = "RESERVED" => auth[intent[i].auth].left = 0
      BY <2>2, <2>3 DEF GroundsInv, ClaimCoversLife
    <3> QED BY <1>a, <2>1, <2>2, <3>1 DEF GroundsInv, ReclaimedLapsed, Undispatched
  <2>9. WithdrawnNeverSent' /\ ReclaimedNeverSent'
    <3>1. attempt[i] = "NONE"
      BY <2>2 DEF SendInv, RowInv, Agrees, Undispatched
    <3> QED BY <2>1, <2>2, <3>1 DEF GroundsInv, WithdrawnNeverSent, ReclaimedNeverSent
  <2> QED BY <2>4, <2>5, <2>6, <2>7, <2>8, <2>9 DEF GroundsInv
<1>11. ASSUME NEW w \in Workers, Permit(w) PROVE GroundsInv'
  <2>1. PICK i \in Intents : i = job[w]
    BY <1>11, <1>a DEF Permit
  <2>2. /\ UNCHANGED <<policyRev, covered, active, assignment, windowLeft, auth, withdrawn, reclaimed>>
        /\ \A j \in Intents \ {i} : intent'[j] = intent[j] /\ attempt'[j] = attempt[j]
        /\ intent[i].state = "RESERVED" /\ intent'[i].state = "DISPATCHING"
        /\ intent'[i].scope = intent[i].scope /\ intent'[i].auth = intent[i].auth
        /\ intent'[i].claimLeft = intent[i].claimLeft
        /\ Authorized(i)
    BY <1>11, <1>a, <2>1 DEF Permit, Holds, groundVars, policyVars, IntentRow
  <2>3. /\ intent[i].scope.session \in active
        /\ Allowed(intent[i].scope.conv, intent[i].scope.assignment)
        /\ auth[intent[i].auth].left > 0 /\ auth[intent[i].auth].rev = policyRev
    BY <2>2 DEF Authorized
  <2>4. intent[i].scope.conv \in Conversations
    BY <2>2, Grounded DEF Scope
  <2>5. intent[i].scope.assignment = assignment[intent[i].scope.conv] /\ covered
    BY <1>a, <1>b, <2>3, <2>4, AllowedMeans
  <2>6. ~Lapsed(i)
    BY <1>a, <1>b, <2>3, <2>4, <2>5 DEF Lapsed
  <2>7. i \notin withdrawn
    BY <2>2, <2>6 DEF GroundsInv, WithdrawnLapsed, Undispatched
  <2>8. i \notin reclaimed
    BY <2>2, <2>3 DEF GroundsInv, ReclaimedLapsed, Undispatched
  <2> QED BY <1>a, <2>2, <2>7, <2>8, GroundsFrame DEF Sent
<1>12. ASSUME NEW w \in Workers, Block(w) \/ Finish(w) PROVE GroundsInv'
  <2>1. PICK i \in Intents : i = job[w]
    BY <1>12, <1>a DEF Block, Finish
  <2>2. UNCHANGED <<policyRev, covered, active, assignment, windowLeft, auth, withdrawn, reclaimed>>
    BY <1>12 DEF Block, Finish, groundVars, policyVars
  <2>3. /\ \A j \in Intents \ {i} : intent'[j] = intent[j]
        /\ intent[i].state # "NONE"
        /\ intent'[i].scope = intent[i].scope /\ intent'[i].auth = intent[i].auth
        /\ intent'[i].claimLeft = intent[i].claimLeft
    BY <1>12, <1>a, <2>1 DEF Block, Holds, Finish, Fence, IntentRow
  <2>4. intent'[i].state \in Sent \cup {"BLOCKED"}
    <3>1. Finish(w) => Recorded(outcome[w]) \in Sent
      BY DEF Finish, TypeInv, Placed, Recorded, Outcome, Sent
    <3> QED BY <1>12, <1>a, <2>1, <3>1 DEF Block, Finish, IntentRow
  <2>5. \A j \in Intents : attempt[j] = "NONE" => attempt'[j] = "NONE"
    BY <1>12, <1>a DEF Block, Finish
  <2> QED BY <1>a, <2>2, <2>3, <2>4, <2>5, GroundsFrame
<1>13. ASSUME NEW w \in Workers, RecoverUncertain(w) PROVE GroundsInv'
  <2>1. UNCHANGED <<policyRev, covered, active, assignment, windowLeft, auth, withdrawn, reclaimed>>
    BY <1>13 DEF RecoverUncertain, groundVars, policyVars
  <2>2. ASSUME NEW i \in Intents
        PROVE  /\ intent'[i].scope = intent[i].scope /\ intent'[i].auth = intent[i].auth
               /\ intent'[i].claimLeft = intent[i].claimLeft
               /\ \/ intent'[i].state = intent[i].state
                  \/ intent[i].state # "NONE" /\ intent'[i].state = "UNCERTAIN"
               /\ attempt[i] = "NONE" => attempt'[i] = "NONE"
    BY <1>13, <1>a DEF RecoverUncertain, Stale, IntentRow
  <2> QED BY <1>a, <2>1, <2>2, GroundsFrame DEF Sent
<1>14. CASE UNCHANGED <<policyRev, covered, active, assignment, windowLeft, auth, intent, attempt,
                        withdrawn, reclaimed>>
  BY <1>14, GroundsFrame
<1>15. ASSUME NEW w \in Workers,
              \/ LoseClaim(w) \/ RefuseText(w) \/ FinishFenced(w) \/ Fault(w)
              \/ \E e \in {"ACCEPTED", "REJECTED", "NONE"} : Transmit(w, e)
              \/ \E o \in Outcome : Answer(w, o)
       PROVE  GroundsInv'
  BY <1>14, <1>15 DEF LoseClaim, RefuseText, FinishFenced, Fault, Transmit, Answer, groundVars,
                      policyVars, rowVars
<1>16. CASE RebindSender
  BY <1>14, <1>16 DEF RebindSender, rowVars
<1>17. CASE UNCHANGED vars
  BY <1>14, <1>17 DEF vars, groundVars, policyVars, rowVars
<1> QED
  BY <1>1, <1>2, <1>3, <1>4, <1>5, <1>6, <1>7, <1>8, <1>9, <1>10, <1>11, <1>12, <1>13, <1>15,
     <1>16, <1>17 DEF Next

LEMMA Inductive == Spec => []IInv
<1>1. Init => IInv
  BY TypeInit, SendInit, GroundsInit DEF IInv
<1>2. IInv /\ [Next]_vars => IInv'
  BY TypeStep, SendStep, GroundsStep DEF IInv
<1> QED BY <1>1, <1>2, PTL DEF Spec

\* The kill switch does not forget: an intent whose grounds changed before its
\* dispatch is never dispatched, even when they are restored (worker.go:65-97).
THEOREM Withdrawal == Spec => []WithdrawnNeverSent
<1>1. IInv => WithdrawnNeverSent
  BY DEF IInv, GroundsInv
<1> QED BY <1>1, Inductive, PTL

\* An intent claimed a second time is never sent, because an authorization does
\* not outlive a claim (LeaseAssumption; guard.go:178, worker.go:48-53,92).
THEOREM Reclaim == Spec => []ReclaimedNeverSent
<1>1. IInv => ReclaimedNeverSent
  BY DEF IInv, GroundsInv
<1> QED BY <1>1, Inductive, PTL

\* One authorization, one intent, and the scope that was priced (guard.go:231-253).
THEOREM SingleUse == Spec => []AuthorizationSpentOnce
<1>1. IInv => AuthorizationSpentOnce
  BY DEF IInv, GroundsInv
<1> QED BY <1>1, Inductive, PTL

\* A live authorization ends before its service window does, less the margin
\* (guard.go:178-181).
THEOREM InsideWindow == Spec => []AuthorizationInsideWindow
<1>1. IInv => AuthorizationInsideWindow
  BY DEF IInv, GroundsInv
<1> QED BY <1>1, Inductive, PTL

------------------------------------------------------------------------------
(* Dispatch implements SendOnce *)

PhaseMap == [i \in Intents |-> Phase(i)]

\* Steps that leave every intent's state alone, or move it between the two
\* states a client cannot tell apart, are invisible to SendOnce.
LEMMA Invisible ==
    ASSUME \A i \in Intents : \/ intent'[i].state = intent[i].state
                              \/ /\ intent[i].state \in {"QUEUED", "RESERVED"}
                                 /\ intent'[i].state \in {"QUEUED", "RESERVED"},
           UNCHANGED <<slot, requests, effect>>
    PROVE  UNCHANGED Promise!vars
BY DEF Promise!vars, Phase

\* The phases move with the one intent a step writes.
LEMMA PhaseStep ==
    ASSUME NEW i \in Intents, \A j \in Intents \ {i} : intent'[j].state = intent[j].state
    PROVE  PhaseMap' = [PhaseMap EXCEPT ![i] = Phase(i)']
BY DEF PhaseMap, Phase

LEMMA InitRefines == Init => Promise!Init
BY DEF Init, Promise!Init, Phase, NoIntent

LEMMA StepRefines ==
    ASSUME TypeInv, SendInv, [Next]_vars PROVE [Promise!Next]_(Promise!vars)
<1> USE DispatchAssumption
<1>a. /\ intent \in [Intents -> IntentRow] /\ slot \in [Phones -> Intents \cup {Nil}]
      /\ requests \in [Intents -> Nat] /\ effect \in [Intents -> {"NONE", "ACCEPTED", "REJECTED"}]
  BY DEF TypeInv, TypeOK
<1>b. \A w \in Workers : pc[w] # "idle" => job[w] \in Intents
  BY DEF TypeInv, Placed
<1>c. \A i \in Intents : Follows(i) /\ Agrees(i) /\ Truthful(i)
  BY DEF SendInv, RowInv
<1>d. \A w \in Workers : Owns(w) /\ Fresh(w) /\ Honest(w)
  BY DEF SendInv, WorkerInv
<1>1. CASE UNCHANGED <<intent, slot, requests, effect>>
  BY <1>1, Invisible
<1>2. CASE Tick
  <2>1. ASSUME NEW i \in Intents PROVE intent'[i].state = intent[i].state
    <3>1. /\ intent'[i] = [intent[i] EXCEPT !.claimLeft = Before(@), !.staleLeft = Before(@)]
          /\ intent[i] \in IntentRow
      BY <1>2, <1>a DEF Tick
    <3> QED BY <3>1 DEF IntentRow
  <2> QED BY <1>2, <2>1, Invisible DEF Tick, netVars
<1>3. ASSUME NEW i \in Intents, NEW k \in Keys, NEW a \in Authorizations, NEW sc \in Scope,
             Submit(i, k, a, sc)
      PROVE  Promise!Next
  <2>1. /\ intent[i].state = "NONE" /\ intent'[i].state = "QUEUED"
        /\ \A j \in Intents \ {i} : intent'[j].state = intent[j].state
        /\ UNCHANGED <<slot, requests, effect>>
    BY <1>3, <1>a DEF Submit, netVars
  <2>2. PhaseMap[i] = "absent" /\ Phase(i)' = "pending"
    BY <2>1 DEF Phase, PhaseMap
  <2>3. PhaseMap' = [PhaseMap EXCEPT ![i] = "pending"]
    BY <2>1, <2>2, PhaseStep
  <2>4. Promise!Accept(i)
    BY <2>1, <2>2, <2>3 DEF Promise!Accept, PhaseMap
  <2> QED BY <2>4 DEF Promise!Next
<1>4. ASSUME NEW w \in Workers, NEW i \in Intents, Claim(w, i) PROVE UNCHANGED Promise!vars
  <2>1. /\ intent[i].state \in {"QUEUED", "RESERVED"} /\ intent'[i].state = "RESERVED"
        /\ \A j \in Intents \ {i} : intent'[j].state = intent[j].state
        /\ UNCHANGED <<slot, requests, effect>>
    BY <1>4, <1>a DEF Claim, Claimable, netVars, IntentRow
  <2> QED BY <2>1, Invisible
<1>5. ASSUME NEW w \in Workers, Block(w) PROVE Promise!Next
  <2>1. PICK i \in Intents : i = job[w]
    BY <1>5, <1>b DEF Block
  <2>2. /\ intent[i].state = "RESERVED" /\ intent'[i].state = "BLOCKED"
        /\ \A j \in Intents \ {i} : intent'[j].state = intent[j].state
        /\ UNCHANGED <<slot, requests, effect>>
    BY <1>5, <1>a, <2>1 DEF Block, Holds, netVars, IntentRow
  <2>3. PhaseMap[i] = "pending" /\ Phase(i)' = "refused"
    BY <2>2 DEF Phase, PhaseMap
  <2>4. PhaseMap' = [PhaseMap EXCEPT ![i] = "refused"]
    BY <2>2, <2>3, PhaseStep
  <2>5. Promise!Refuse(i)
    BY <2>2, <2>3, <2>4 DEF Promise!Refuse, PhaseMap
  <2> QED BY <2>5 DEF Promise!Next
<1>6. ASSUME NEW w \in Workers, Permit(w) PROVE Promise!Next
  <2>1. PICK i \in Intents : i = job[w]
    BY <1>6, <1>b DEF Permit
  <2>2. /\ intent[i].state = "RESERVED" /\ intent'[i].state = "DISPATCHING"
        /\ \A j \in Intents \ {i} : intent'[j].state = intent[j].state
        /\ UNCHANGED <<requests, effect>>
        /\ slot[PhoneFor(i)] = Nil /\ slot' = [slot EXCEPT ![PhoneFor(i)] = i]
    BY <1>6, <1>a, <2>1 DEF Permit, Holds, SlotFree, netVars, IntentRow
  <2>3. PhoneFor(i) \in Phones
    BY <1>c, <2>2 DEF Follows, PhoneFor, Scope
  <2>4. PhaseMap[i] = "pending" /\ Phase(i)' = "committed"
    BY <2>2 DEF Phase, PhaseMap
  <2>5. PhaseMap' = [PhaseMap EXCEPT ![i] = "committed"]
    BY <2>2, <2>4, PhaseStep
  <2>6. Promise!Commit(i, PhoneFor(i))
    BY <2>2, <2>4, <2>5 DEF Promise!Commit, PhaseMap
  <2> QED BY <2>3, <2>6 DEF Promise!Next
<1>7. ASSUME NEW w \in Workers, NEW e \in {"ACCEPTED", "REJECTED", "NONE"}, Transmit(w, e)
      PROVE  Promise!Next
  <2>1. PICK i \in Intents : i = job[w]
    BY <1>7, <1>b DEF Transmit
  <2>2. requests[i] = 0 /\ intent[i].state \in {"DISPATCHING", "UNCERTAIN"}
    BY <1>7, <1>d, <2>1 DEF Transmit, Owns, Fresh, InFlight
  <2>3. PhaseMap[i] \in {"committed", "UNCERTAIN"}
    BY <2>2 DEF Phase, PhaseMap
  <2>4. UNCHANGED <<PhaseMap, slot>>
    BY <1>7 DEF Transmit, rowVars, PhaseMap, Phase
  <2>5. /\ requests' = [requests EXCEPT ![i] = 1]
        /\ effect' = [effect EXCEPT ![i] = e]
    BY <1>7, <1>a, <2>1, <2>2 DEF Transmit
  <2>6. Promise!Post(i, e)
    BY <2>2, <2>3, <2>4, <2>5 DEF Promise!Post, PhaseMap
  <2> QED BY <2>6 DEF Promise!Next, Promise!Fate
<1>8. ASSUME NEW w \in Workers, Finish(w) PROVE Promise!Next
  <2>1. PICK i \in Intents : i = job[w]
    BY <1>8, <1>b DEF Finish
  <2> DEFINE v == Recorded(outcome[w])
  <2>2. outcome[w] \in Outcome
    BY <1>8 DEF Finish, TypeInv, Placed
  <2>3. v \in {"ACCEPTED", "FAILED", "UNCERTAIN"}
    BY <2>2 DEF Recorded, Outcome
  <2>4. /\ intent[i].state = "DISPATCHING" /\ intent'[i].state = v
        /\ \A j \in Intents \ {i} : intent'[j].state = intent[j].state
        /\ UNCHANGED <<slot, requests, effect>>
    BY <1>8, <1>a, <2>1 DEF Finish, Fence, netVars, IntentRow
  <2>5. (v = "ACCEPTED" => effect[i] = "ACCEPTED") /\ (v = "FAILED" => effect[i] # "ACCEPTED")
    BY <1>8, <1>d, <2>1, <2>2 DEF Finish, Honest, Recorded, Outcome
  <2>6. PhaseMap[i] = "committed" /\ Phase(i)' = v
    BY <2>3, <2>4 DEF Phase, PhaseMap
  <2>7. PhaseMap' = [PhaseMap EXCEPT ![i] = v]
    BY <2>4, <2>6, PhaseStep
  <2>8. Promise!Record(i, v)
    BY <2>4, <2>5, <2>6, <2>7 DEF Promise!Record, PhaseMap
  <2> HIDE DEF v
  <2> QED BY <2>3, <2>8 DEF Promise!Next, Promise!Verdict
<1>9. ASSUME NEW w \in Workers, RecoverUncertain(w) PROVE Promise!Next
  <2>1. UNCHANGED <<slot, requests, effect>>
    BY <1>9 DEF RecoverUncertain, netVars
  <2>2. ASSUME NEW i \in Intents
        PROVE  intent'[i].state = IF i \in Stale THEN "UNCERTAIN" ELSE intent[i].state
    BY <1>9, <1>a DEF RecoverUncertain, IntentRow
  <2>3. \A i \in Stale : PhaseMap[i] = "committed"
    BY DEF Stale, PhaseMap, Phase
  <2>4. PhaseMap' = [i \in Intents |-> IF i \in Stale THEN "UNCERTAIN" ELSE PhaseMap[i]]
    BY <2>2 DEF PhaseMap, Phase
  <2>5. Stale \in SUBSET Intents
    BY DEF Stale
  <2>6. Promise!GiveUp(Stale)
    BY <2>1, <2>3, <2>4 DEF Promise!GiveUp, PhaseMap
  <2> QED BY <2>5, <2>6 DEF Promise!Next
<1>10. CASE UNCHANGED vars
  BY <1>1, <1>10 DEF vars, rowVars, netVars
<1>11. CASE \/ \E on \in BOOLEAN : SetSending(on)
            \/ RevisePolicy \/ PolicyLapses \/ RebindSender
            \/ \E s \in Sessions : RevokeSession(s)
            \/ \E c \in Conversations : Assign(c) \/ \E n \in 1..WindowTicks : Inbound(c, n)
            \/ \E a \in Authorizations, sc \in Scope : Preflight(a, sc)
  BY <1>1, <1>11 DEF SetSending, RevisePolicy, PolicyLapses, RebindSender, RevokeSession, Assign,
                     Inbound, Preflight, rowVars, netVars
<1>12. ASSUME NEW w \in Workers,
              \/ LoseClaim(w) \/ RefuseText(w) \/ (\E o \in Outcome : Answer(w, o))
              \/ FinishFenced(w) \/ Fault(w)
       PROVE  UNCHANGED Promise!vars
  <2>1. UNCHANGED <<intent, slot, requests, effect>>
    BY <1>12 DEF LoseClaim, RefuseText, Answer, FinishFenced, Fault, rowVars, netVars
  <2> QED BY <2>1, Invisible
<1> QED
  BY <1>2, <1>3, <1>4, <1>5, <1>6, <1>7, <1>8, <1>9, <1>10, <1>11, <1>12 DEF Next

\* The worker's transactions, leases, authorizations and recovery together are
\* the one-request promise of ADR/012 and docs/08-webhook-architecture.md:44.
THEOREM Implements == Spec => Refines
<1>1. Spec => []([Promise!Next]_(Promise!vars))
  BY SendCorrect, StepRefines, PTL DEF Spec
<1> QED BY InitRefines, <1>1, PTL DEF Spec, Refines, Promise!Spec
=============================================================================
