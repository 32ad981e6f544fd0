------------------------------ MODULE Delivery ------------------------------
(***************************************************************************)
(* Delivery statuses of outbound messages, statement by statement: inbox   *)
(* workers materialize webhook events (MaterializeOnce, materializeStatus, *)
(* correlateStatus in backend/internal/inbox/materialize.go) while other   *)
(* workers record accepted sends (finishDispatch, worker.go:172-192).      *)
(*                                                                         *)
(* Transactions are READ COMMITTED.  Each statement is one step; it sees   *)
(* what is committed and what its own transaction wrote.  A row lock or a  *)
(* conflicting uncommitted unique key makes a statement wait; the database *)
(* breaks a cycle of waits by aborting a transaction.  XMutant before X is *)
(* a plausible bug in X that the runs must detect.                         *)
(***************************************************************************)
EXTENDS Naturals, Sequences, FiniteSets

CONSTANTS
    None,
    Crew,           \* the workers of the inbox
    Messages,       \* outbound messages, each with its provider id
    Shifts,         \* what may be to do, and who does it
    MaxInterrupts   \* bound on crashes and lost connections

Status == {"SENT", "DELIVERED", "READ", "FAILED", "UNKNOWN"}
Fact   == [msg : Messages, status : Status]    \* equal facts have equal fact_hash

\* The workers that run, the messages whose acceptance is still to be recorded, and the
\* processed webhook events in the order of received_at, each with its statuses in
\* payload order.
Shift  == [workers : SUBSET Crew, unanswered : SUBSET Messages, events : Seq(Seq(Fact))]

ASSUME DeliveryAssumption ==
    /\ Shifts \subseteq Shift
    /\ MaxInterrupts \in Nat
    /\ None \notin Crew \cup Nat \cup Messages

VARIABLES
    shift,
    reported,     \* message_statuses, committed
    row,          \* messages, committed: provider id set, delivery_state
    draft,        \* messages as the holder of the row lock has rewritten them
    lock,         \* the transaction that holds the message's row lock
    done,         \* inbox_materializations
    unanswered,   \* accepted sends that no worker has begun to record
    stage, seen, taken, pos, target, mine,   \* a worker and its open transaction
    woken,        \* waiting statements whose wait has just ended
    interrupts

dataVars == <<reported, row, done>>
txVars   == <<stage, seen, taken, pos, target, mine>>
deliveryVars == <<shift, dataVars, draft, lock, unanswered, txVars, woken, interrupts>>

Events == DOMAIN shift.events

------------------------------------------------------------------------------
(* deliveryProjection *)

DeliveryState == {"PENDING_LOCAL", "ACCEPTED", "SENT", "DELIVERED", "READ",
                  "FAILED", "UNKNOWN_CONFLICT"}

Rank(s) == CASE s = "ACCEPTED" -> 1 [] s = "SENT" -> 2 [] s = "DELIVERED" -> 3
             [] s = "READ" -> 4 [] OTHER -> 0

ProjectionMutant(current, statuses) ==
    IF "FAILED" \in statuses \/ current = "FAILED" THEN "FAILED"
    ELSE CHOOSE s \in statuses \cup {current} :
             \A t \in statuses \cup {current} : Rank(t) <= Rank(s)
Projection(current, statuses) ==
    LET higher  == {s \in statuses : Rank(s) > Rank(current)}
        best    == IF higher = {} THEN current
                   ELSE CHOOSE s \in higher : \A t \in higher : Rank(t) <= Rank(s)
        failed  == current = "FAILED" \/ "FAILED" \in statuses
        unknown == current = "UNKNOWN_CONFLICT" \/ "UNKNOWN" \in statuses
    IN  CASE unknown \/ (failed /\ Rank(best) >= 3) -> "UNKNOWN_CONFLICT"
          [] ~unknown /\ failed /\ Rank(best) < 3 -> "FAILED"
          [] OTHER -> best

DeliveryInit ==
    /\ shift \in Shifts
    /\ reported = {}
    /\ row = [m \in Messages |-> [known |-> m \notin shift.unanswered,
                                  state |-> IF m \in shift.unanswered THEN "PENDING_LOCAL"
                                                                       ELSE "ACCEPTED"]]
    /\ draft = row
    /\ lock = [m \in Messages |-> None]
    /\ done = {}
    /\ unanswered = shift.unanswered
    /\ stage = [w \in Crew |-> "idle"]
    /\ seen = [w \in Crew |-> {}]
    /\ taken = [w \in Crew |-> None]
    /\ pos = [w \in Crew |-> 0]
    /\ target = [w \in Crew |-> None]
    /\ mine = [w \in Crew |-> {}]
    /\ woken = {}
    /\ interrupts = 0

------------------------------------------------------------------------------
(* Statements and transactions *)

Goto(w, where) == stage' = [stage EXCEPT ![w] = where]

Current(w) == shift.events[taken[w]][pos[w]]
Exhausted(w) == pos[w] > Len(shift.events[taken[w]])
Advance(w) == pos' = [pos EXCEPT ![w] = @ + 1]

\* Crew whose uncommitted insert of the same fact this one waits for.
Inserting(w) == {v \in Crew \ {w} : Current(w) \in mine[v]}

\* Whom a waiting statement waits for.
Blockers(w) ==
    CASE stage[w] = "status" /\ ~Exhausted(w) -> Inserting(w)
      [] stage[w] = "correlate" /\ row[Current(w).msg].known -> {lock[Current(w).msg]} \ {None, w}
      [] OTHER -> {}

\* A lock is granted in order of arrival: a statement does not overtake one that
\* was waiting for the same thing.
Wanted(w) == IF stage[w] = "status" THEN Current(w) ELSE Current(w).msg
MyTurn(w) == w \in woken \/ \A v \in woken : stage[v] # stage[w] \/ Wanted(v) # Wanted(w)

\* The end of a transaction: its locks and locals are gone.
End(w) ==
    /\ Goto(w, "idle")
    /\ lock' = [m \in Messages |-> IF lock[m] = w THEN None ELSE lock[m]]
    /\ seen' = [seen EXCEPT ![w] = {}]
    /\ taken' = [taken EXCEPT ![w] = None]
    /\ pos' = [pos EXCEPT ![w] = 0]
    /\ target' = [target EXCEPT ![w] = None]
    /\ mine' = [mine EXCEPT ![w] = {}]
    /\ woken' = (woken \cup {v \in Crew : w \in Blockers(v)}) \ {w}

Commit(w) ==
    /\ reported' = reported \cup mine[w]
    /\ row' = [m \in Messages |-> IF lock[m] = w THEN draft[m] ELSE row[m]]
    /\ End(w)
    /\ UNCHANGED draft

Rollback(w) ==
    /\ draft' = [m \in Messages |-> IF lock[m] = w THEN row[m] ELSE draft[m]]
    /\ End(w)
    /\ UNCHANGED dataVars

\* The statuses of m that a statement of w's transaction sees.
StatusesSeenMutant(w, m) == {f.status : f \in {g \in mine[w] : g.msg = m}}
StatusesSeen(w, m) == {f.status : f \in {g \in reported \cup mine[w] : g.msg = m}}

\* UPDATE messages SET delivery_state, under the row lock.
Project(w, m) ==
    draft' = [draft EXCEPT ![m].state = Projection(@, StatusesSeen(w, m))]

------------------------------------------------------------------------------
(* MaterializeOnce *)

\* The claim's snapshot.  The NOT EXISTS test is made on it, so another worker
\* may commit the same event before the row is locked below.
TakeSnapshot(w) ==
    /\ w \in shift.workers /\ stage[w] = "idle"
    /\ seen' = [seen EXCEPT ![w] = Events \ done]
    /\ Goto(w, "claim")
    /\ UNCHANGED <<dataVars, draft, lock, unanswered, taken, pos, target, mine, woken, interrupts>>

Lockable(w) == {e \in seen[w] : \A v \in Crew : taken[v] # e}

\* FOR UPDATE SKIP LOCKED LIMIT 1 in the order of received_at.
ClaimEvent(w) ==
    /\ stage[w] = "claim"
    /\ Lockable(w) # {}
    /\ taken' = [taken EXCEPT ![w] = CHOOSE e \in Lockable(w) : \A d \in Lockable(w) : e <= d]
    /\ pos' = [pos EXCEPT ![w] = 1]
    /\ Goto(w, "status")
    /\ UNCHANGED <<dataVars, draft, lock, unanswered, seen, target, mine, woken, interrupts>>

NoEvent(w) ==
    /\ stage[w] = "claim"
    /\ Lockable(w) = {}
    /\ Rollback(w)
    /\ UNCHANGED <<unanswered, interrupts>>

\* INSERT .. ON CONFLICT (fact_hash) DO NOTHING: a known fact changes nothing.
KnownFact(w) == Current(w) \in reported \cup mine[w]

InsertFact(w) ==
    /\ stage[w] = "status"
    /\ ~Exhausted(w)
    /\ Inserting(w) = {} /\ MyTurn(w)
    /\ woken' = woken \ {w}
    /\ \/ /\ KnownFact(w)
          /\ Advance(w)
          /\ UNCHANGED <<mine, stage>>
       \/ /\ ~KnownFact(w)
          /\ mine' = [mine EXCEPT ![w] = @ \cup {Current(w)}]
          /\ Goto(w, "correlate")
          /\ UNCHANGED pos
    /\ UNCHANGED <<dataVars, draft, lock, unanswered, seen, taken, target, interrupts>>

\* correlateStatus: SELECT .. FOR UPDATE by provider id.  A message whose
\* provider id is not committed yet is not there to be waited for.
NoSuchMessage(w) ==
    /\ stage[w] = "correlate"
    /\ ~row[Current(w).msg].known
    /\ Advance(w)
    /\ Goto(w, "status")
    /\ UNCHANGED <<dataVars, draft, lock, unanswered, seen, taken, target, mine, woken, interrupts>>

LockMessage(w) ==
    LET m == Current(w).msg IN
    /\ stage[w] = "correlate"
    /\ row[m].known
    /\ lock[m] \in {None, w} /\ MyTurn(w)
    /\ woken' = woken \ {w}
    /\ lock' = [lock EXCEPT ![m] = w]
    /\ Goto(w, "project")
    /\ UNCHANGED <<dataVars, draft, unanswered, seen, taken, pos, target, mine, interrupts>>

\* .. then read its facts, project and update.
ProjectStatus(w) ==
    /\ stage[w] = "project"
    /\ Project(w, Current(w).msg)
    /\ Advance(w)
    /\ Goto(w, "status")
    /\ UNCHANGED <<dataVars, lock, unanswered, seen, taken, target, mine, woken, interrupts>>

RecordEventMutant(w) ==
    /\ stage[w] = "status"
    /\ Exhausted(w)
    /\ Commit(w)
    /\ UNCHANGED <<done, unanswered, interrupts>>
\* The materialization row and the commit; UNIQUE(event_id) refuses a second one.
RecordEvent(w) ==
    /\ stage[w] = "status"
    /\ Exhausted(w)
    /\ \/ /\ taken[w] \notin done
          /\ done' = done \cup {taken[w]}
          /\ Commit(w)
       \/ /\ taken[w] \in done
          /\ Rollback(w)
    /\ UNCHANGED <<unanswered, interrupts>>

------------------------------------------------------------------------------
(* finishDispatch, for an ACCEPTED outcome whose fence holds *)

SetProviderId(w, m) ==
    /\ w \in shift.workers /\ stage[w] = "idle"
    /\ m \in unanswered
    /\ unanswered' = unanswered \ {m}
    /\ lock' = [lock EXCEPT ![m] = w]
    /\ draft' = [draft EXCEPT ![m] = [known |-> TRUE, state |-> "ACCEPTED"]]
    /\ target' = [target EXCEPT ![w] = m]
    /\ Goto(w, "accepted")
    /\ UNCHANGED <<dataVars, seen, taken, pos, mine, woken, interrupts>>

CorrelateAccepted(w) ==
    /\ stage[w] = "accepted"
    /\ Project(w, target[w])
    /\ Goto(w, "correlated")
    /\ UNCHANGED <<dataVars, lock, unanswered, seen, taken, pos, target, mine, woken, interrupts>>

CommitAccepted(w) ==
    /\ stage[w] = "correlated"
    /\ Commit(w)
    /\ UNCHANGED <<done, unanswered, interrupts>>

------------------------------------------------------------------------------
(* Failures *)

\* The deadlock detector aborts one of two transactions that wait for each other.
DeadlockDetected(w) ==
    /\ \E v \in Blockers(w) : w \in Blockers(v)
    /\ Rollback(w)
    /\ UNCHANGED <<unanswered, interrupts>>

\* A crash or a lost connection rolls the open transaction back.
Interrupt(w) ==
    /\ stage[w] # "idle"
    /\ interrupts < MaxInterrupts
    /\ interrupts' = interrupts + 1
    /\ Rollback(w)
    /\ UNCHANGED unanswered

Proceed(w) ==
    \/ TakeSnapshot(w) \/ ClaimEvent(w) \/ NoEvent(w)
    \/ InsertFact(w) \/ NoSuchMessage(w) \/ LockMessage(w) \/ ProjectStatus(w)
    \/ RecordEvent(w)
    \/ CorrelateAccepted(w) \/ CommitAccepted(w)
    \/ DeadlockDetected(w)

DeliveryNext ==
    /\ \E w \in Crew : \/ Proceed(w)
                       \/ \E m \in Messages : SetProviderId(w, m)
                       \/ Interrupt(w)
    /\ UNCHANGED shift

DeliverySpec == DeliveryInit /\ [][DeliveryNext]_deliveryVars

\* A worker's loop never ends and its statements are answered; locks are granted
\* in order, so a statement whose wait is over stays able to go on.
DeliveryFairness == \A w \in Crew : WF_deliveryVars(Proceed(w) /\ UNCHANGED shift)

------------------------------------------------------------------------------
(* Properties *)

\* What a set of observations says of an accepted message, in no order at all.
Told(statuses) ==
    CASE \/ "UNKNOWN" \in statuses
         \/ "FAILED" \in statuses /\ statuses \cap {"DELIVERED", "READ"} # {}
                -> "UNKNOWN_CONFLICT"
      [] "FAILED" \in statuses /\ statuses \subseteq {"FAILED", "SENT"} -> "FAILED"
      [] "READ" \in statuses /\ {"FAILED", "UNKNOWN"} \cap statuses = {} -> "READ"
      [] "DELIVERED" \in statuses /\ {"FAILED", "UNKNOWN", "READ"} \cap statuses = {}
                -> "DELIVERED"
      [] statuses = {"SENT"} -> "SENT"
      [] OTHER -> "ACCEPTED"

Observed(m) == {f.status : f \in {g \in reported : g.msg = m}}

\* docs/28-sprint-3-evidence.md:35, "Sanitized immutable status facts support
\* orphan, duplicate and out-of-order correlation": once a message's acceptance
\* is recorded its delivery state is what all committed facts say together,
\* whatever order and however often they came (materialize.go:253-281,
\* worker.go:189).
StatusesReflected == \A m \in Messages : row[m].known => row[m].state = Told(Observed(m))

\* No status races the recording of its acceptance: one worker does all, or no event
\* is about a message whose acceptance is still to be recorded.
Reported(s, m) == \E e \in DOMAIN s.events : \E i \in DOMAIN s.events[e] : s.events[e][i].msg = m
Untangled(s) == \/ \A w, v \in s.workers : w = v
                \/ \A m \in s.unanswered : ~Reported(s, m)

\* Every processed event is materialized in the end, in spite of deadlocks
\* between workers and of lost connections (materialize.go:92-157).
EventuallyMaterialized == <>(Events \subseteq done)
==============================================================================
