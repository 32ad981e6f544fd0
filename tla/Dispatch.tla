------------------------------ MODULE Dispatch ------------------------------
(***************************************************************************)
(* The guarded outbound path of the Inbox: an agent's preflight issues a   *)
(* one-minute pricing authorization, a submission turns it into a queued   *)
(* intent, and inbox workers claim the intent, re-authorize it, commit     *)
(* DISPATCHING, make at most one request to the provider and record the    *)
(* outcome.  Sources: backend/internal/inbox/{guard,worker,operations}.go, *)
(* backend/internal/meta/send.go, identity/domain_boundary.go and the      *)
(* tables, unique keys and triggers of 00004_guarded_inbox.sql.            *)
(*                                                                         *)
(* Each action is one database transaction or one network step; a worker   *)
(* may stall, crash or meet a database error between any two of them.      *)
(* Deadlines (claim_until, expires_at, dispatch_started_at, the service    *)
(* window) are ticks left before they pass; a transaction takes no tick.   *)
(* XMutant before X is a plausible bug in X that the runs must detect.     *)
(***************************************************************************)
EXTENDS Guard

CONSTANTS
    Intents,          \* ids of outbound_intents rows, created or not
    Authorizations,   \* ids of pricing_authorizations rows, issued or not
    Workers,          \* inbox worker processes; a worker's current claim token
                      \* is its own id, since it holds one job at a time
    Sessions,         \* agent login sessions
    Members,          \* organization members
    Conversations,
    Phones,           \* sending phone numbers
    Texts,            \* message bodies
    Keys,             \* client idempotency keys
    PhoneOf,          \* the phone a conversation belongs to
    ActorOf,          \* the member behind a session
    AuthTicks,        \* life of an authorization: 60 s
    ClaimTicks,       \* life of a claim: 1 minute
    StaleTicks,       \* DISPATCHING age that recovery waits for: 1 minute
    WindowTicks,      \* longest time a service window stays open: 24 h
    MaxPolicyRev,     \* bound on policy changes
    MaxAssignment,    \* bound on reassignments of a conversation
    SenderMayChange,  \* whether the run lets the sender binding come and go
    MaxFaults         \* bound on crashes and failed transactions

ASSUME DispatchAssumption ==
    /\ PhoneOf \in [Conversations -> Phones]
    /\ ActorOf \in [Sessions -> Members]
    /\ AuthTicks \in Nat /\ ClaimTicks \in Nat /\ StaleTicks \in Nat /\ WindowTicks \in Nat
    /\ MaxPolicyRev \in Nat /\ MaxAssignment \in Nat /\ MaxFaults \in Nat
    /\ SenderMayChange \in BOOLEAN
    /\ Nil \notin Intents \cup Authorizations \cup Workers

\* An authorization does not outlive a claim taken after it was issued:
\* guard.go:178 and worker.go:53 both say one minute.
ASSUME LeaseAssumption == AuthTicks <= ClaimTicks

VARIABLES
    enabled,      \* inbox_settings.sending_enabled
    policyRev,    \* inbox_settings.policy_revision
    covered,      \* the zero-cost policy is in force and covers the horizon
    bound,        \* phone, WABA and webhook still are the approved sender's
    active,       \* the sessions LockDomainSession still accepts
    assignment,   \* conversations.assignment_revision
    windowLeft,   \* ticks to conversations.window_expires_at
    auth,         \* pricing_authorizations
    intent,       \* outbound_intents
    attempt,      \* send_attempts.state of the intent's only row, or NONE
    message,      \* the intent's outbound message
    slot,         \* test_send_slots: the intent that took the phone's slot
    pc, job, outcome,    \* a worker's place in DispatchOnce and its locals
    requests,     \* POSTs that left for the provider, per intent
    effect,       \* what the provider did with the message (external)
    withdrawn,    \* history: intents whose grounds changed before dispatch
    reclaimed,    \* history: intents claimed a second time
    faults        \* crashes and failed transactions so far

policyVars == <<enabled, policyRev, covered, bound>>
groundVars == <<policyVars, active, assignment>>
rowVars    == <<intent, attempt, message, slot>>
workerVars == <<pc, job, outcome>>
netVars    == <<requests, effect>>
vars == <<groundVars, windowLeft, auth, rowVars, workerVars, netVars,
          withdrawn, reclaimed, faults>>

\* What scopeHash covers, as the tuple itself: a hash without collisions.
Scope == [session : Sessions, conv : Conversations, text : Texts,
          assignment : 0..MaxAssignment]

IntentState == {"NONE", "QUEUED", "RESERVED", "DISPATCHING",
                "ACCEPTED", "FAILED", "UNCERTAIN", "BLOCKED"}
Outcome == {"ACCEPTED", "REJECTED", "UNCERTAIN"}

IntentRow == [state : IntentState, scope : Scope \cup {Nil},
              auth : Authorizations \cup {Nil}, key : Keys \cup {Nil},
              token : Workers \cup {Nil},
              claimLeft : 0..ClaimTicks, staleLeft : 0..StaleTicks]
AuthRow == [scope : Scope \cup {Nil}, rev : 0..MaxPolicyRev, left : 0..AuthTicks,
            consumed : Intents \cup {Nil}]
MessageRow == [processing : {"MATERIALIZED", "BLOCKED"}, provider : BOOLEAN,
               delivery : {"NONE", "PENDING_LOCAL", "ACCEPTED", "FAILED", "UNCERTAIN"}]

NoIntent  == [state |-> "NONE", scope |-> Nil, auth |-> Nil, key |-> Nil, token |-> Nil,
              claimLeft |-> 0, staleLeft |-> 0]
NoAuth    == [scope |-> Nil, rev |-> 0, left |-> 0, consumed |-> Nil]
NoMessage == [processing |-> "MATERIALIZED", provider |-> FALSE, delivery |-> "NONE"]
Pending   == [processing |-> "MATERIALIZED", provider |-> FALSE, delivery |-> "PENDING_LOCAL"]

Init ==
    /\ enabled = TRUE /\ policyRev = 0 /\ covered = TRUE /\ bound = TRUE
    /\ active = Sessions
    /\ assignment = [c \in Conversations |-> 0]
    /\ windowLeft = [c \in Conversations |-> 0]
    /\ auth = [a \in Authorizations |-> NoAuth]
    /\ intent = [i \in Intents |-> NoIntent]
    /\ attempt = [i \in Intents |-> "NONE"]
    /\ message = [i \in Intents |-> NoMessage]
    /\ slot = [p \in Phones |-> Nil]
    /\ pc = [w \in Workers |-> "idle"]
    /\ job = [w \in Workers |-> Nil]
    /\ outcome = [w \in Workers |-> "NONE"]
    /\ requests = [i \in Intents |-> 0]
    /\ effect = [i \in Intents |-> "NONE"]
    /\ withdrawn = {} /\ reclaimed = {} /\ faults = 0

------------------------------------------------------------------------------
(* The guard, and what may change under an intent's feet *)

\* evaluate: the sender binding, and Evaluate on the facts locked for
\* conversation c.  The controlled recipient is the process's configuration:
\* every conversation here is with it.
Allowed(c, expected) ==
    /\ bound
    /\ Evaluate([now |-> 0, authorized |-> TRUE, sendingEnabled |-> enabled,
                 suppressed |-> FALSE, assignment |-> assignment[c],
                 expectedAssignment |-> expected, handoff |-> "WAITING_AGENT",
                 messageType |-> "TEXT", category |-> "SERVICE", currencyState |-> "UNKNOWN",
                 windowExpiry |-> windowLeft[c], trustedWindow |-> TRUE,
                 policyFrom |-> 0, policyTo |-> IF covered THEN 2 ELSE 0, reviewAt |-> 1,
                 deliveryLatest |-> 1]).allowed

Undispatched == {i \in Intents : intent[i].state \in {"QUEUED", "RESERVED"}}

\* Note the undispatched intents whose grounds have just changed.
Withdraw(S) == withdrawn' = withdrawn \cup S

\* PATCH /inbox/settings: compare-and-set on policy_revision.
SetSending(on) ==
    /\ policyRev < MaxPolicyRev
    /\ enabled' = on
    /\ policyRev' = policyRev + 1
    /\ Withdraw(Undispatched)
    /\ UNCHANGED <<covered, bound, active, assignment, windowLeft, auth, rowVars, workerVars,
                   netVars, reclaimed, faults>>

\* A rate publication or recorded billing currency also moves the revision.
RevisePolicy ==
    /\ policyRev < MaxPolicyRev
    /\ policyRev' = policyRev + 1
    /\ Withdraw(Undispatched)
    /\ UNCHANGED <<enabled, covered, bound, active, assignment, windowLeft, auth, rowVars, workerVars,
                   netVars, reclaimed, faults>>

\* The reviewed policy reaches its review date or no longer covers now + TTL;
\* no code path publishes another SERVICE_ZERO policy.
PolicyLapses ==
    /\ covered
    /\ covered' = FALSE
    /\ Withdraw(Undispatched)
    /\ UNCHANGED <<enabled, policyRev, bound, active, assignment, windowLeft, auth, rowVars, workerVars,
                   netVars, reclaimed, faults>>

\* Synchronisation finds the phone or WABA gone, unsubscribed, or back again:
\* unlike the other grounds this one leaves no revision behind.
RebindSender ==
    /\ SenderMayChange
    /\ bound' = ~bound
    /\ UNCHANGED <<enabled, policyRev, covered, active, assignment, windowLeft, auth, rowVars,
                   workerVars, netVars, withdrawn, reclaimed, faults>>

\* Logout, expiry, a new password, a changed role, a deactivated member: each
\* leaves the session row with a revision or flag LockDomainSession rejects.  A
\* role that runs out denies the same session in require instead.
RevokeSession(s) ==
    /\ s \in active
    /\ active' = active \ {s}
    /\ Withdraw({i \in Undispatched : intent[i].scope.session = s})
    /\ UNCHANGED <<policyVars, assignment, windowLeft, auth, rowVars, workerVars,
                   netVars, reclaimed, faults>>

\* PUT /conversations/{id}/assignment: compare-and-set on assignment_revision.
Assign(c) ==
    /\ assignment[c] < MaxAssignment
    /\ assignment' = [assignment EXCEPT ![c] = @ + 1]
    /\ Withdraw({i \in Undispatched : intent[i].scope.conv = c})
    /\ UNCHANGED <<policyVars, active, windowLeft, auth, rowVars, workerVars,
                   netVars, reclaimed, faults>>

\* An eligible inbound text moves the window, forwards only.
Inbound(c, n) ==
    /\ n > windowLeft[c]
    /\ windowLeft' = [windowLeft EXCEPT ![c] = n]
    /\ UNCHANGED <<groundVars, auth, rowVars, workerVars, netVars, withdrawn, reclaimed, faults>>

Smaller(m, n) == IF m <= n THEN m ELSE n
Before(n) == IF n = 0 THEN 0 ELSE n - 1

\* One tick of the database clock.
Tick ==
    /\ \/ \E c \in Conversations : windowLeft[c] > 0
       \/ \E a \in Authorizations : auth[a].left > 0
       \/ \E i \in Intents : intent[i].claimLeft > 0 \/ intent[i].staleLeft > 0
    /\ windowLeft' = [c \in Conversations |-> Before(windowLeft[c])]
    /\ auth' = [a \in Authorizations |-> [auth[a] EXCEPT !.left = Before(@)]]
    /\ intent' = [i \in Intents |-> [intent[i] EXCEPT !.claimLeft = Before(@),
                                                      !.staleLeft = Before(@)]]
    /\ UNCHANGED <<groundVars, attempt, message, slot, workerVars, netVars,
                   withdrawn, reclaimed, faults>>

------------------------------------------------------------------------------
(* Agent requests *)

\* expires_at: a minute, but never past the window less the safety margin.
AuthLifeMutant(c) == AuthTicks
AuthLife(c) == Smaller(AuthTicks, windowLeft[c] - Margin)

\* POST /pricing/preflight, allowed: a fresh single-use authorization.
Preflight(a, sc) ==
    /\ sc.session \in active
    /\ Allowed(sc.conv, sc.assignment)
    /\ auth[a] = NoAuth
    /\ auth' = [auth EXCEPT ![a] = [scope |-> sc, rev |-> policyRev,
                                    left |-> AuthLife(sc.conv), consumed |-> Nil]]
    /\ UNCHANGED <<groundVars, windowLeft, rowVars, workerVars, netVars,
                   withdrawn, reclaimed, faults>>

\* The key already names an intent of this actor; such a request creates
\* nothing: it returns the old intent or fails on a different scope.
KeyTaken(s, k) == \E j \in Intents : /\ intent[j].state # "NONE"
                                     /\ intent[j].key = k
                                     /\ ActorOf[intent[j].scope.session] = ActorOf[s]

\* The authorization a submission presents.
PresentableMutant(a, sc) ==
    /\ auth[a] # NoAuth /\ auth[a].scope = sc
    /\ auth[a].rev = policyRev /\ auth[a].left > 0
Presentable(a, sc) ==
    /\ auth[a] # NoAuth /\ auth[a].scope = sc
    /\ auth[a].rev = policyRev /\ auth[a].left > 0
    /\ auth[a].consumed = Nil

\* POST /outbound-intents, accepted: message, intent and consumption commit
\* together.  UNIQUE(organization_id, actor_member_id, client_key) makes the
\* test of KeyTaken atomic with the insertion.
Submit(i, k, a, sc) ==
    /\ intent[i].state = "NONE"
    /\ sc.session \in active
    /\ ~KeyTaken(sc.session, k)
    /\ Allowed(sc.conv, sc.assignment)
    /\ Presentable(a, sc)
    /\ message' = [message EXCEPT ![i] = Pending]
    /\ intent' = [intent EXCEPT ![i] = [state |-> "QUEUED", scope |-> sc, auth |-> a, key |-> k,
                                        token |-> Nil, claimLeft |-> 0, staleLeft |-> 0]]
    /\ auth' = [auth EXCEPT ![a].consumed = i]
    /\ UNCHANGED <<groundVars, windowLeft, attempt, slot, workerVars, netVars,
                   withdrawn, reclaimed, faults>>

------------------------------------------------------------------------------
(* The worker: DispatchOnce *)

\* First transaction.  SKIP LOCKED lets a worker pass over older rows that
\* another transaction holds, so any claimable intent may come up.
RequeueMutant(i) == \/ intent[i].state = "QUEUED"
                    \/ intent[i].state \in {"RESERVED", "DISPATCHING"} /\ intent[i].claimLeft = 0
EagerClaimMutant(i) == intent[i].state \in {"QUEUED", "RESERVED"}
NoReclaimMutant(i) == intent[i].state = "QUEUED"
Claimable(i) == \/ intent[i].state = "QUEUED"
                \/ intent[i].state = "RESERVED" /\ intent[i].claimLeft = 0

Claim(w, i) ==
    /\ pc[w] = "idle"
    /\ Claimable(i)
    /\ intent' = [intent EXCEPT ![i].state = "RESERVED", ![i].token = w,
                                ![i].claimLeft = ClaimTicks]
    /\ reclaimed' = IF intent[i].state = "RESERVED" THEN reclaimed \cup {i} ELSE reclaimed
    /\ pc' = [pc EXCEPT ![w] = "claimed"]
    /\ job' = [job EXCEPT ![w] = i]
    /\ UNCHANGED <<groundVars, windowLeft, auth, attempt, message, slot, outcome, netVars,
                   withdrawn, faults>>

\* The row lock on the intent: still reserved, and by this claim.
Holds(w) == intent[job[w]].state = "RESERVED" /\ intent[job[w]].token = w

\* Second transaction, every check but the slot.  The conjuncts are the
\* denials ACTOR_AUTHORIZATION_REVOKED, those of evaluate, and
\* PRICING_AUTHORIZATION_EXPIRED, PRICING_POLICY_CHANGED, INTENT_SCOPE_CHANGED.
AuthorizedMutant(i) ==
    LET a == auth[intent[i].auth] IN
    /\ intent[i].scope.session \in active
    /\ Allowed(intent[i].scope.conv, a.scope.assignment)
    /\ a.left > 0
    /\ a.consumed = i /\ a.scope = intent[i].scope
Authorized(i) ==
    LET a == auth[intent[i].auth] IN
    /\ intent[i].scope.session \in active
    /\ Allowed(intent[i].scope.conv, a.scope.assignment)
    /\ a.left > 0
    /\ a.rev = policyRev
    /\ a.consumed = i /\ a.scope = intent[i].scope

PhoneFor(i) == PhoneOf[intent[i].scope.conv]

\* INSERT .. ON CONFLICT DO NOTHING into test_send_slots inserts a row.
SlotFreeMutant(i) == TRUE
SlotFree(i) == slot[PhoneFor(i)] = Nil

Release(w) == /\ pc' = [pc EXCEPT ![w] = "idle"]
              /\ job' = [job EXCEPT ![w] = Nil]
              /\ outcome' = [outcome EXCEPT ![w] = "NONE"]

\* Another worker has reclaimed the intent: this one changes nothing.
LoseClaim(w) ==
    /\ pc[w] = "claimed"
    /\ ~Holds(w)
    /\ Release(w)
    /\ UNCHANGED <<groundVars, windowLeft, auth, rowVars, netVars,
                   withdrawn, reclaimed, faults>>

\* Some denial: the intent ends BLOCKED and never reaches the network.
Block(w) ==
    LET i == job[w] IN
    /\ pc[w] = "claimed"
    /\ Holds(w)
    /\ ~(Authorized(i) /\ SlotFree(i))
    /\ intent' = [intent EXCEPT ![i].state = "BLOCKED"]
    /\ message' = [message EXCEPT ![i].processing = "BLOCKED"]
    /\ Release(w)
    /\ UNCHANGED <<groundVars, windowLeft, auth, attempt, slot, netVars,
                   withdrawn, reclaimed, faults>>

\* Authorization commits: slot, attempt row and DISPATCHING, before the request.
Permit(w) ==
    LET i == job[w] IN
    /\ pc[w] = "claimed"
    /\ Holds(w)
    /\ Authorized(i) /\ SlotFree(i)
    /\ slot' = [slot EXCEPT ![PhoneFor(i)] = i]
    /\ attempt' = [attempt EXCEPT ![i] = "DISPATCHING"]
    /\ intent' = [intent EXCEPT ![i].state = "DISPATCHING", ![i].staleLeft = StaleTicks]
    /\ pc' = [pc EXCEPT ![w] = "authorized"]
    /\ UNCHANGED <<groundVars, windowLeft, auth, message, job, outcome, netVars,
                   withdrawn, reclaimed, faults>>

\* SendText refuses a malformed phone, recipient or text without a request.
RefuseText(w) ==
    /\ pc[w] = "authorized"
    /\ outcome' = [outcome EXCEPT ![w] = "REJECTED"]
    /\ pc' = [pc EXCEPT ![w] = "answered"]
    /\ UNCHANGED <<groundVars, windowLeft, auth, rowVars, job, netVars,
                   withdrawn, reclaimed, faults>>

\* SendText's POST leaves; the provider accepts the message, rejects it, or
\* never sees it.
Transmit(w, e) ==
    /\ pc[w] = "authorized"
    /\ requests' = [requests EXCEPT ![job[w]] = @ + 1]
    /\ effect' = [effect EXCEPT ![job[w]] = e]
    /\ pc' = [pc EXCEPT ![w] = "waiting"]
    /\ UNCHANGED <<groundVars, windowLeft, auth, rowVars, job, outcome,
                   withdrawn, reclaimed, faults>>

\* SendText returns.  Timeout, lost or malformed answer and unclassified error
\* are all UNCERTAIN; the other two answers are the provider's own.
SendTextMutant(e) == {IF e = "ACCEPTED" THEN e ELSE "REJECTED", "REJECTED"}
SendText(e) == {IF e = "NONE" THEN "UNCERTAIN" ELSE e, "UNCERTAIN"}

Answer(w, o) ==
    /\ pc[w] = "waiting"
    /\ o \in SendText(effect[job[w]])
    /\ outcome' = [outcome EXCEPT ![w] = o]
    /\ pc' = [pc EXCEPT ![w] = "answered"]
    /\ UNCHANGED <<groundVars, windowLeft, auth, rowVars, job, netVars,
                   withdrawn, reclaimed, faults>>

\* finishDispatch's mapping of a SendOutcome to intent and delivery states.
Recorded(o) == IF o = "REJECTED" THEN "FAILED" ELSE o

\* The conditional update of finishDispatch hits its row.
FenceMutant(w) == intent[job[w]].token = w
Fence(w) == intent[job[w]].state = "DISPATCHING" /\ intent[job[w]].token = w

Finish(w) ==
    LET i == job[w]  o == outcome[w] IN
    /\ pc[w] = "answered"
    /\ Fence(w)
    /\ intent' = [intent EXCEPT ![i].state = Recorded(o)]
    /\ attempt' = [attempt EXCEPT ![i] = IF @ = "DISPATCHING" THEN o ELSE @]
    /\ message' = [message EXCEPT ![i].provider = (o = "ACCEPTED"),
                                  ![i].delivery = Recorded(o)]
    /\ Release(w)
    /\ UNCHANGED <<groundVars, windowLeft, auth, slot, netVars, withdrawn, reclaimed, faults>>

\* Recovery was faster: zero rows, the outcome is dropped.
FinishFenced(w) ==
    /\ pc[w] = "answered"
    /\ ~Fence(w)
    /\ Release(w)
    /\ UNCHANGED <<groundVars, windowLeft, auth, rowVars, netVars, withdrawn, reclaimed, faults>>

\* recoverUncertain, run by every worker between jobs.
Stale == {i \in Intents : intent[i].state = "DISPATCHING" /\ intent[i].staleLeft = 0}

RecoverUncertain(w) ==
    /\ pc[w] = "idle"
    /\ intent' = [i \in Intents |->
                    IF i \in Stale THEN [intent[i] EXCEPT !.state = "UNCERTAIN"] ELSE intent[i]]
    /\ attempt' = [i \in Intents |->
                    IF i \in Stale /\ attempt[i] = "DISPATCHING" THEN "UNCERTAIN" ELSE attempt[i]]
    /\ message' = [i \in Intents |->
                    IF i \in Stale THEN [message[i] EXCEPT !.delivery = "UNCERTAIN"]
                                   ELSE message[i]]
    /\ UNCHANGED <<groundVars, windowLeft, auth, slot, workerVars, netVars,
                   withdrawn, reclaimed, faults>>

\* The process dies, or the transaction of the authorization or of the outcome
\* is rolled back (lock timeout, deadlock, lost connection): DispatchOnce
\* returns the error and the worker's locals are gone.
Fault(w) ==
    /\ pc[w] # "idle"
    /\ faults < MaxFaults
    /\ faults' = faults + 1
    /\ Release(w)
    /\ UNCHANGED <<groundVars, windowLeft, auth, rowVars, netVars, withdrawn, reclaimed>>

Next ==
    \/ \E on \in BOOLEAN : SetSending(on)
    \/ RevisePolicy
    \/ PolicyLapses
    \/ RebindSender
    \/ \E s \in Sessions : RevokeSession(s)
    \/ \E c \in Conversations : Assign(c) \/ \E n \in 1..WindowTicks : Inbound(c, n)
    \/ Tick
    \/ \E a \in Authorizations, sc \in Scope : Preflight(a, sc)
    \/ \E i \in Intents, k \in Keys, a \in Authorizations, sc \in Scope : Submit(i, k, a, sc)
    \/ \E w \in Workers :
          \/ \E i \in Intents : Claim(w, i)
          \/ LoseClaim(w) \/ Block(w) \/ Permit(w)
          \/ RefuseText(w) \/ \E e \in {"ACCEPTED", "REJECTED", "NONE"} : Transmit(w, e)
          \/ \E o \in Outcome : Answer(w, o)
          \/ Finish(w) \/ FinishFenced(w)
          \/ RecoverUncertain(w)
          \/ Fault(w)

Spec == Init /\ [][Next]_vars

\* RunWorker calls recovery and DispatchOnce every second, SendText is bounded
\* by its 25 s timeout, and the clock does not stop.  Nothing is assumed of
\* agents, of policy writers, or of which faults happen.  Strong fairness of the
\* second transaction says that a worker does not, for ever, stall past its
\* one-minute claim between two transactions that take milliseconds: with weak
\* fairness alone two workers that always stall would take the intent from each
\* other in turns.
Fairness ==
    /\ WF_vars(Tick)
    /\ \A w \in Workers :
          /\ WF_vars(\E i \in Intents : Claim(w, i))
          /\ WF_vars(LoseClaim(w))
          /\ SF_vars(Block(w) \/ Permit(w))
          /\ WF_vars(RefuseText(w) \/ \E e \in {"ACCEPTED", "REJECTED", "NONE"} : Transmit(w, e))
          /\ WF_vars(\E o \in Outcome : Answer(w, o))
          /\ WF_vars(Finish(w) \/ FinishFenced(w))
          /\ WF_vars(RecoverUncertain(w))

LiveSpec == Spec /\ Fairness

------------------------------------------------------------------------------
(* Properties *)

TypeOK ==
    /\ enabled \in BOOLEAN /\ policyRev \in 0..MaxPolicyRev /\ covered \in BOOLEAN /\ bound \in BOOLEAN
    /\ active \subseteq Sessions
    /\ assignment \in [Conversations -> 0..MaxAssignment]
    /\ windowLeft \in [Conversations -> 0..WindowTicks]
    /\ auth \in [Authorizations -> AuthRow]
    /\ intent \in [Intents -> IntentRow]
    /\ attempt \in [Intents -> Outcome \cup {"NONE", "DISPATCHING"}]
    /\ message \in [Intents -> MessageRow]
    /\ slot \in [Phones -> Intents \cup {Nil}]
    /\ pc \in [Workers -> {"idle", "claimed", "authorized", "waiting", "answered"}]
    /\ job \in [Workers -> Intents \cup {Nil}]
    /\ outcome \in [Workers -> Outcome \cup {"NONE"}]
    /\ requests \in [Intents -> Nat]
    /\ effect \in [Intents -> {"NONE", "ACCEPTED", "REJECTED"}]
    /\ withdrawn \subseteq Intents /\ reclaimed \subseteq Intents
    /\ faults \in 0..MaxFaults

\* However workers stall, die, are superseded or are recovered from, the
\* provider sees at most one request for an intent and one intent per phone:
\* "Immutable text intents commit DISPATCHING before one network attempt"
\* (ADR/012, worker.go:107-155, send_attempts and test_send_slots keys).
AtMostOneRequest ==
    \A i \in Intents :
        /\ requests[i] <= 1
        /\ \A j \in Intents :
              requests[i] > 0 /\ requests[j] > 0 /\ PhoneFor(i) = PhoneFor(j) => i = j

\* A request is only ever made for an intent whose attempt row is committed and
\* that can no longer be claimed or blocked: whatever instant a crash picks,
\* what is left in the tables admits that the message may be out
\* (worker.go:134-155).
RequestIsOnRecord ==
    \A i \in Intents :
        requests[i] > 0 => /\ attempt[i] # "NONE"
                           /\ intent[i].state \in {"DISPATCHING", "ACCEPTED", "FAILED", "UNCERTAIN"}
                           /\ slot[PhoneFor(i)] = i

Truthful(i) ==
    /\ intent[i].state = "ACCEPTED" => effect[i] = "ACCEPTED"
    /\ intent[i].state = "FAILED" => effect[i] # "ACCEPTED"

\* A definite outcome is the provider's: ACCEPTED is never invented and FAILED
\* never hides a message that went out (send.go:27-54, worker.go:162-171).
TruthfulOutcome == \A i \in Intents : Truthful(i)

Agrees(i) ==
    CASE intent[i].state = "NONE" -> attempt[i] = "NONE" /\ message[i] = NoMessage
      [] intent[i].state \in {"QUEUED", "RESERVED"} ->
            attempt[i] = "NONE" /\ message[i] = Pending
      [] intent[i].state = "BLOCKED" ->
            attempt[i] = "NONE" /\ message[i].processing = "BLOCKED"
      [] intent[i].state = "DISPATCHING" ->
            attempt[i] = "DISPATCHING" /\ message[i] = Pending
      [] OTHER ->
            /\ attempt[i] \in Outcome /\ Recorded(attempt[i]) = intent[i].state
            /\ message[i].delivery = intent[i].state
            /\ message[i].provider <=> intent[i].state = "ACCEPTED"

\* finishDispatch and recoverUncertain each write three tables and race for the
\* same intent; intent, attempt and message never tell different stories.
OutcomeAgreement == \A i \in Intents : Agrees(i)

\* The kill switch does not forget: an intent submitted before sending was
\* disabled, the policy revised, the conversation reassigned or the session
\* revoked is never dispatched afterwards, even when the setting is restored
\* before a worker looks at it (worker.go:65-97, operations.go:92).
WithdrawnNeverSent == \A i \in withdrawn : attempt[i] = "NONE"

\* An intent whose first claim was lost is never sent: by the time its claim
\* has run out its authorization has too, so a stalled worker and its successor
\* cannot both reach the provider, and a claim lost to a crash always surfaces
\* as BLOCKED (guard.go:178, worker.go:48-53,92).
ReclaimedNeverSent == \A i \in reclaimed : attempt[i] = "NONE"

\* An authorization stands for exactly one intent, and for the very scope that
\* was priced, however many submissions present it (guard.go:231-253).
AuthorizationSpentOnce ==
    \A i \in Intents : intent[i].state # "NONE" =>
        LET a == auth[intent[i].auth] IN a.consumed = i /\ a.scope = intent[i].scope

\* A live authorization never outlasts its service window, whatever inbound
\* messages arrive in between (guard.go:178-181, materialize.go:199-203).
AuthorizationInsideWindow ==
    \A a \in Authorizations : auth[a].left > 0 =>
        windowLeft[auth[a].scope.conv] >= auth[a].left + Margin

Settled(i) == intent[i].state \in {"ACCEPTED", "FAILED", "UNCERTAIN", "BLOCKED"}

\* A submitted intent reaches an end, however its workers fail meanwhile.
EventuallySettled == \A i \in Intents : intent[i].state = "QUEUED" ~> Settled(i)

\* docs/17-testing-strategy.md:49: "Stale worker loses fence but later positive
\* response can reconcile the existing attempt."
LateAcceptanceReconciles ==
    [][\A w \in Workers :
          (Finish(w) \/ FinishFenced(w)) /\ outcome[w] = "ACCEPTED"
              => attempt'[job[w]] = "ACCEPTED"]_vars
==============================================================================
