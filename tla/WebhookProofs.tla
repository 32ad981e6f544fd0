---------------------------- MODULE WebhookProofs ----------------------------
(***************************************************************************)
(* What becomes of a webhook body, for any bodies, assets, workers and any *)
(* bounds.  The argument: a worker writes only under the token of the row, *)
(* and whoever holds the token holds the generation and the number that    *)
(* the row counts; so each number of a generation is written once, by its  *)
(* own attempt, and the row says what the last of them came to.            *)
(***************************************************************************)
EXTENDS Webhook, TLAPS

Types ==
    /\ event \in [Bodies -> EventRow]
    /\ at \in [Workers -> Place]
    /\ attempts \subseteq Attempt

\* A token stands for a processing row, and its holder works on what the row counts.
Fenced ==
    /\ \A b \in Bodies : event[b].token # Nil => event[b].state = "PROCESSING"
    /\ \A w \in Workers :
          at[w].pc # "idle" =>
             /\ at[w].job \in Bodies
             /\ event[at[w].job].token = w => /\ at[w].gen = event[at[w].job].gen
                                              /\ at[w].no = event[at[w].job].count

\* Attempts belong to what the row has counted so far, and no two have one number.
Counted ==
    /\ \A a \in attempts : /\ a.gen <= event[a.body].gen
                           /\ a.gen = event[a.body].gen => a.no <= event[a.body].count
    /\ \A a, c \in attempts : a.body = c.body /\ a.gen = c.gen /\ a.no = c.no => a = c

\* A row that waits for another attempt has one left.
RetriesLeft == \A b \in Bodies : event[b].state = "RETRY_WAIT" => event[b].count < MaxAttempts

\* What was admitted names known assets, for good.
Known == \A b \in Bodies : event[b].state \notin {"NONE", "QUARANTINED"} => AssetsOf[b] \subseteq known

Inv == Types /\ Fenced /\ Counted /\ RetriesLeft /\ Known /\ AttemptsExplainState
       /\ FactsAreAllOrNothing /\ AdmittedStaysAdmitted

------------------------------------------------------------------------------
(* Rows *)

LEMMA Bounds ==
    /\ 0 \in 0..LeaseTicks /\ LeaseTicks \in 0..LeaseTicks
    /\ 0 \in 0..RetryTicks /\ RetryTicks \in 0..RetryTicks
    /\ 0 \in Count /\ \A n \in Count : Next1(n) \in Count
    /\ 0 \in 0..MaxReplays
    /\ \A n \in 0..LeaseTicks : Before(n) \in 0..LeaseTicks
    /\ \A n \in 0..RetryTicks : Before(n) \in 0..RetryTicks
<1>1. LeaseTicks \in Nat /\ RetryTicks \in Nat /\ MaxAttempts \in Nat /\ MaxReplays \in Nat
    BY WebhookAssumption
<1>2. \A n \in Count : Next1(n) \in Count BY <1>1 DEF Count, Next1
<1>3. ASSUME NEW m \in Nat, NEW n \in 0..m PROVE Before(n) \in 0..m BY DEF Before
<1> QED BY <1>1, <1>2, <1>3 DEF Count

\* A row after one of its fields, or several, moved.
LEMMA RowAfterClaim ==
    ASSUME NEW r \in EventRow, NEW w \in Workers
    PROVE  [r EXCEPT !.state = "PROCESSING", !.count = Next1(r.count), !.token = w,
                     !.leaseLeft = LeaseTicks] \in EventRow
<1>1. Next1(r.count) \in Count BY Bounds DEF EventRow
<1> QED BY <1>1, Bounds DEF EventRow, EventState

LEMMA RowAfterConclude ==
    ASSUME NEW r \in EventRow, NEW s \in EventState
    PROVE  [r EXCEPT !.state = s, !.token = Nil, !.leaseLeft = 0, !.waitLeft = RetryTicks] \in EventRow
<1>1. ASSUME NEW t \in Workers \cup {Nil}, NEW l \in 0..LeaseTicks, NEW d \in 0..RetryTicks
      PROVE  [r EXCEPT !.state = s, !.token = t, !.leaseLeft = l, !.waitLeft = d] \in EventRow
    BY DEF EventRow
<1> QED BY <1>1, Bounds

LEMMA NewRow ==
    ASSUME NEW s \in EventState, NEW g \in 0..MaxReplays
    PROVE  [NoEvent EXCEPT !.state = s, !.gen = g] \in EventRow
BY Bounds DEF EventRow, NoEvent

\* The attempts of the others, and what is known of them, do not move.
LEMMA ConsistentStays ==
    ASSUME NEW c, Consistent(c), UNCHANGED <<event[c].state, event[c].gen, event[c].count>>,
           \A a : a.body = c => (a \in attempts' <=> a \in attempts)
    PROVE  Consistent(c)'
<1>1. OfRow(c)' = OfRow(c) BY DEF OfRow
<1> QED BY <1>1 DEF Consistent

\* The facts, one by one.
LEMMA FactsMean ==
    FactsAreAllOrNothing <=>
        \A e : e \in facts <=> \E a \in attempts : a.result \in Written /\ e \in EffectsOf[a.body]
BY DEF FactsAreAllOrNothing

------------------------------------------------------------------------------
(* Steps that leave the rows alone *)

\* Assets become known, evidence ages, the inbox reads.
LEMMA LearnStep ==
    ASSUME Inv, known \subseteq known', UNCHANGED <<event, attempts, facts, at>>
    PROVE  Inv'
<1>1. \A b \in Bodies : Consistent(b)' BY ConsistentStays DEF Inv, AttemptsExplainState
<1> QED BY <1>1 DEF Inv, Types, Fenced, Counted, RetriesLeft, Known, AttemptsExplainState,
                    FactsAreAllOrNothing, AdmittedStaysAdmitted

\* A worker opens its transaction, loses, or dies.
LEMMA WorkerStep ==
    ASSUME Inv, NEW w \in Workers, Begin(w) \/ Lose(w) \/ Fault(w)
    PROVE  Inv'
<1>1. UNCHANGED <<event, attempts, facts, known>> BY DEF Begin, Lose, Fault, rowVars
<1>2. Idle \in Place BY Bounds DEF Idle, Place
<1>3. /\ at' \in [Workers -> Place] /\ \A v \in Workers \ {w} : at'[v] = at[v]
      /\ at'[w].pc # "idle" => /\ at[w].pc # "idle"
                               /\ UNCHANGED <<at[w].job, at[w].gen, at[w].no>>
    <2>1. CASE Begin(w)
        <3> DEFINE p == [at[w] EXCEPT !.pc = "open", !.inTime = event[at[w].job].leaseLeft > 0]
        <3>1. at[w] \in Place /\ at \in [Workers -> Place] BY DEF Inv, Types
        <3>2. p \in Place
            <4>1. \A t \in BOOLEAN : [at[w] EXCEPT !.pc = "open", !.inTime = t] \in Place
                BY <3>1 DEF Place
            <4>2. (event[at[w].job].leaseLeft > 0) \in BOOLEAN OBVIOUS
            <4> QED BY <4>1, <4>2, Zenon
        <3>3. at' = [at EXCEPT ![w] = p] BY <2>1, <3>1 DEF Begin
        <3>4. UNCHANGED <<at[w].job, at[w].gen, at[w].no>> BY <3>1, <3>3 DEF Place
        <3> HIDE DEF p
        <3> QED BY <2>1, <3>1, <3>2, <3>3, <3>4 DEF Begin
    <2>2. CASE Lose(w) \/ Fault(w)
        <3>1. at' = [at EXCEPT ![w] = Idle] /\ at \in [Workers -> Place]
            BY <2>2 DEF Lose, Fault, Inv, Types
        <3>2. at'[w].pc = "idle" BY <3>1 DEF Idle
        <3> QED BY <1>2, <3>1, <3>2
    <2> QED BY <2>1, <2>2
<1>4. Fenced' BY <1>1, <1>3 DEF Inv, Fenced
<1>5. \A b \in Bodies : Consistent(b)' BY <1>1, ConsistentStays DEF Inv, AttemptsExplainState
<1> QED BY <1>1, <1>3, <1>4, <1>5 DEF Inv, Types, Counted, RetriesLeft, Known, AttemptsExplainState,
                                      FactsAreAllOrNothing, AdmittedStaysAdmitted

------------------------------------------------------------------------------
(* Steps that write a row and no attempt *)

LEMMA ReceiveStep == ASSUME Inv, NEW b \in Bodies, Receive(b) PROVE Inv'
<1>1. UNCHANGED <<attempts, facts, at, known>> /\ event' = [event EXCEPT ![b] = Stored(b)]
    BY DEF Receive
<1>2. CASE event[b] # NoEvent
    <2>1. event' = event BY <1>1, <1>2 DEF Stored, Inv, Types
    <2> QED BY <1>1, <2>1, LearnStep
<1>3. CASE event[b] = NoEvent
    <2>1. Admitted(b) \in EventState BY DEF Admitted, EventState
    <2>2. event'[b] = [NoEvent EXCEPT !.state = Admitted(b)] BY <1>1, <1>3 DEF Stored, Inv, Types
    <2>3. /\ event'[b].state = Admitted(b) /\ event'[b].token = Nil
          /\ UNCHANGED <<event[b].gen, event[b].count>> /\ event[b].state = "NONE"
          /\ event'[b] \in EventRow
        BY <1>3, <2>1, <2>2, Bounds DEF NoEvent, EventRow
    <2>4. \A c \in Bodies \ {b} : event'[c] = event[c] BY <1>1
    <2>5. Types' BY <1>1, <2>3 DEF Inv, Types
    <2>6. Fenced' BY <1>1, <2>3, <2>4, WebhookAssumption DEF Inv, Fenced
    <2>7. Counted' BY <1>1, <2>3, <2>4 DEF Inv, Counted, Types, Attempt
    <2>8. RetriesLeft' BY <2>3, <2>4 DEF Inv, RetriesLeft, Admitted
    <2>9. Known' BY <1>1, <2>3, <2>4 DEF Inv, Known, Admitted
    <2>10. \A c \in Bodies : Consistent(c)'
        <3>1. OfRow(b)' = OfRow(b) BY <1>1, <2>3 DEF OfRow
        <3>2. Consistent(b)' BY <2>3, <3>1 DEF Inv, AttemptsExplainState, Consistent, Admitted
        <3> QED BY <1>1, <2>4, <3>2, ConsistentStays DEF Inv, AttemptsExplainState
    <2> QED BY <1>1, <2>5, <2>6, <2>7, <2>8, <2>9, <2>10
            DEF Inv, AttemptsExplainState, FactsAreAllOrNothing, AdmittedStaysAdmitted
<1> QED BY <1>2, <1>3

LEMMA ReplayStep == ASSUME Inv, NEW b \in Bodies, Replay(b) PROVE Inv'
<1>1. /\ UNCHANGED <<attempts, facts, at, known>> /\ event[b].state \in Ended
      /\ event' = [event EXCEPT ![b] = [NoEvent EXCEPT !.state = "QUEUED", !.gen = event[b].gen + 1]]
      /\ event[b].gen < MaxReplays /\ event[b] \in EventRow
    BY DEF Replay, Generation, Inv, Types
<1>2. event[b].gen + 1 \in 0..MaxReplays BY <1>1, WebhookAssumption DEF EventRow
<1>3. /\ event'[b] \in EventRow /\ event'[b].state = "QUEUED" /\ event'[b].token = Nil
      /\ event'[b].gen = event[b].gen + 1
    BY <1>1, <1>2, NewRow DEF Inv, Types, NoEvent, EventState
<1>4. \A c \in Bodies \ {b} : event'[c] = event[c] BY <1>1
<1>5. Types' BY <1>1, <1>3 DEF Inv, Types
<1>6. Fenced' BY <1>1, <1>3, <1>4, WebhookAssumption DEF Inv, Fenced
<1>7. \A a \in attempts : a.body = b => a.gen < event'[b].gen
    BY <1>1, <1>3 DEF Inv, Counted, Types, Attempt, EventRow
<1>8. Counted' BY <1>1, <1>3, <1>4, <1>7 DEF Inv, Counted, Types, Attempt, EventRow
<1>9. RetriesLeft' BY <1>3, <1>4 DEF Inv, RetriesLeft
<1>10. Known' BY <1>1, <1>3, <1>4 DEF Inv, Known, Ended, Written
<1>11. \A c \in Bodies : Consistent(c)'
    <2>1. OfRow(b)' = {} BY <1>1, <1>3, <1>7 DEF OfRow, Inv, Types, Attempt, EventRow
    <2>2. Consistent(b)' BY <1>3, <2>1 DEF Consistent
    <2> QED BY <1>1, <1>4, <2>2, ConsistentStays DEF Inv, AttemptsExplainState
<1> QED BY <1>1, <1>5, <1>6, <1>8, <1>9, <1>10, <1>11
        DEF Inv, AttemptsExplainState, FactsAreAllOrNothing, AdmittedStaysAdmitted

LEMMA TickStep == ASSUME Inv, Tick PROVE Inv'
<1>1. UNCHANGED <<attempts, facts, at, known>> BY DEF Tick
<1>2. \A b \in Bodies : /\ event'[b] \in EventRow
                        /\ UNCHANGED <<event[b].state, event[b].gen, event[b].count, event[b].token>>
    <2> TAKE b \in Bodies
    <2>1. event[b] \in EventRow BY DEF Inv, Types
    <2>2. event'[b] = [event[b] EXCEPT !.leaseLeft = Before(event[b].leaseLeft),
                                       !.waitLeft = Before(event[b].waitLeft)]
        BY <2>1 DEF Tick, EventRow
    <2>3. Before(event[b].leaseLeft) \in 0..LeaseTicks /\ Before(event[b].waitLeft) \in 0..RetryTicks
        BY <2>1, Bounds DEF EventRow
    <2> QED BY <2>1, <2>2, <2>3 DEF EventRow
<1>3. Types'
    <2>1. event' = [b \in Bodies |-> event'[b]] BY DEF Tick
    <2> QED BY <1>1, <1>2, <2>1 DEF Inv, Types
<1>4. Fenced' /\ RetriesLeft' /\ Known' BY <1>1, <1>2 DEF Inv, Fenced, RetriesLeft, Known
<1>5. Counted' BY <1>1, <1>2 DEF Inv, Counted, Types, Attempt
<1>6. \A b \in Bodies : Consistent(b)' BY <1>1, <1>2, ConsistentStays DEF Inv, AttemptsExplainState
<1> QED BY <1>1, <1>3, <1>4, <1>5, <1>6
        DEF Inv, AttemptsExplainState, FactsAreAllOrNothing, AdmittedStaysAdmitted

LEMMA ClaimStep == ASSUME Inv, NEW w \in Workers, NEW b \in Bodies, Claim(w, b) PROVE Inv'
<1> DEFINE row == [event[b] EXCEPT !.state = "PROCESSING", !.count = Next1(event[b].count), !.token = w,
                                   !.leaseLeft = LeaseTicks]
           p == [pc |-> "claimed", job |-> b, gen |-> event[b].gen, no |-> Next1(event[b].count),
                 sealed |-> evidence[b] # "PURGED", inTime |-> FALSE]
<1>1. UNCHANGED <<attempts, facts, known>> /\ event[b] \in EventRow /\ Due(b)
      /\ event \in [Bodies -> EventRow] /\ at \in [Workers -> Place]
    BY DEF Claim, Inv, Types
<1>2. event' = [event EXCEPT ![b] = row] /\ at' = [at EXCEPT ![w] = p]
    BY <1>1 DEF Claim, EventRow
<1>3. row \in EventRow BY <1>1, RowAfterClaim
<1>4. p \in Place BY <1>1, Bounds DEF Place, EventRow
<1>5. /\ row.state = "PROCESSING" /\ row.token = w /\ row.gen = event[b].gen
      /\ row.count = Next1(event[b].count)
      /\ p.job = b /\ p.gen = row.gen /\ p.no = row.count
    BY <1>1 DEF EventRow
<1> HIDE DEF row, p
<1>6. /\ event'[b] = row /\ at'[w] = p
      /\ \A c \in Bodies \ {b} : event'[c] = event[c]
      /\ \A v \in Workers \ {w} : at'[v] = at[v]
    BY <1>1, <1>2
<1>7. Types' BY <1>1, <1>2, <1>3, <1>4 DEF Inv, Types
<1>8. Fenced' BY <1>5, <1>6 DEF Inv, Fenced
<1>9. event[b].count <= Next1(event[b].count) /\ Next1(event[b].count) \in Count
    BY <1>1, Bounds, WebhookAssumption DEF Next1, EventRow, Count
<1>10. Counted'
    <2>1. \A a \in attempts : a \in Attempt BY DEF Inv, Types
    <2>2. \A a \in attempts : /\ a.gen <= event'[a.body].gen
                              /\ a.gen = event'[a.body].gen => a.no <= event'[a.body].count
        BY <1>1, <1>5, <1>6, <1>9, <2>1, WebhookAssumption DEF Inv, Counted, Attempt, EventRow, Count
    <2> QED BY <1>1, <2>2 DEF Inv, Counted
<1>11. RetriesLeft' BY <1>5, <1>6 DEF Inv, RetriesLeft
<1>12. Known' BY <1>1, <1>5, <1>6 DEF Inv, Known, Due
<1>13. \A c \in Bodies : Consistent(c)'
    <2>1. OfRow(b)' = OfRow(b) BY <1>1, <1>5, <1>6 DEF OfRow
    <2>2. \A a \in OfRow(b) : a.result = "RETRY_WAIT" /\ a.no < Next1(event[b].count)
        <3>1. Consistent(b) BY DEF Inv, AttemptsExplainState
        <3>2. CASE event[b].state = "QUEUED" BY <3>1, <3>2 DEF Consistent
        <3>3. CASE event[b].state = "PROCESSING"
            BY <1>1, <1>9, <3>1, <3>3, WebhookAssumption DEF Consistent, OfRow, Inv, Types, Attempt, Count, EventRow
        <3>4. CASE event[b].state = "RETRY_WAIT"
            <4>1. event[b].count < Next1(event[b].count)
                BY <1>1, <3>4, WebhookAssumption DEF Inv, RetriesLeft, Next1, EventRow, Count
            <4>2. PICK a \in OfRow(b) : a.no = event[b].count /\ a.result = "RETRY_WAIT"
                BY <3>1, <3>4 DEF Consistent
            <4>3. \A c \in OfRow(b) : c.no <= event[b].count /\ (c.no < event[b].count => c.result = "RETRY_WAIT")
                BY <3>1, <3>4 DEF Consistent
            <4>4. \A c \in OfRow(b) : c.no = event[b].count => c = a
                BY <4>2 DEF OfRow, Inv, Counted
            <4> QED BY <1>1, <1>9, <4>1, <4>2, <4>3, <4>4, WebhookAssumption
                    DEF OfRow, Inv, Types, Attempt, Count, EventRow
        <3> QED BY <1>1, <3>2, <3>3, <3>4 DEF Due
    <2>3. Consistent(b)' BY <1>5, <1>6, <2>1, <2>2 DEF Consistent
    <2> QED BY <1>1, <1>6, <2>3, ConsistentStays DEF Inv, AttemptsExplainState
<1> QED BY <1>1, <1>7, <1>8, <1>10, <1>11, <1>12, <1>13
        DEF Inv, AttemptsExplainState, FactsAreAllOrNothing, AdmittedStaysAdmitted

------------------------------------------------------------------------------
(* The second transaction *)

\* A worker whose token is the row's concludes the attempt the row counts.
LEMMA ConcludeStep ==
    ASSUME Inv, NEW w \in Workers, NEW err \in BOOLEAN,
           at[w].pc = "open", Matches(w), ~Numbered(w), Conclude(w, err)
    PROVE  Inv'
<1>0. PICK b : b = at[w].job OBVIOUS
<1> DEFINE s == Verdict(w, err)
           new == [body |-> b, gen |-> at[w].gen, no |-> at[w].no, result |-> s]
           row == [event[b] EXCEPT !.state = s, !.token = Nil, !.leaseLeft = 0, !.waitLeft = RetryTicks]
<1>1. /\ event \in [Bodies -> EventRow] /\ at \in [Workers -> Place] /\ attempts \subseteq Attempt
      /\ at[w] \in Place /\ b \in Bodies /\ event[b] \in EventRow
      /\ event[b].token = w /\ event[b].state = "PROCESSING"
      /\ at[w].gen = event[b].gen /\ at[w].no = event[b].count
    BY <1>0, WebhookAssumption DEF Inv, Types, Fenced, Matches
<1>2. AssetsOf[b] \subseteq known BY <1>1 DEF Inv, Known
<1>3. /\ s \in Ended \cup {"RETRY_WAIT"}
      /\ s = "RETRY_WAIT" => at[w].no < MaxAttempts
    <2>1. Classified(w) \in Ended BY <1>0, <1>1, WebhookAssumption DEF Classified, Ended, Written
    <2>2. Written \subseteq Ended BY DEF Ended
    <2>3. at[w].no \in Nat /\ MaxAttempts \in Nat BY <1>1, WebhookAssumption DEF Place, Count
    <2>4. CASE Classified(w) \notin Written
        <3>1. s = Classified(w) BY <1>0, <1>2, <2>4 DEF Verdict
        <3> QED BY <2>1, <3>1 DEF Ended, Written
    <2>5. CASE Classified(w) \in Written /\ ~err
        <3>1. s = Classified(w) BY <1>0, <1>2, <2>5 DEF Verdict
        <3> QED BY <2>1, <3>1 DEF Ended, Written
    <2>6. CASE Classified(w) \in Written /\ err
        <3>1. s = IF at[w].no >= MaxAttempts THEN "DEAD_LETTER" ELSE "RETRY_WAIT"
            BY <1>0, <1>2, <2>6 DEF Verdict
        <3> QED BY <2>3, <3>1 DEF Ended
    <2> QED BY <2>4, <2>5, <2>6
<1>4. s \in EventState /\ s \notin {"NONE", "QUEUED", "PROCESSING", "QUARANTINED"}
    BY <1>3 DEF Ended, Written, EventState
<1>5. /\ facts' = facts \cup IF s \in Written THEN EffectsOf[b] ELSE {}
      /\ attempts' = attempts \cup {new}
      /\ at' = [at EXCEPT ![w] = Idle] /\ known' = known
    BY <1>0 DEF Conclude, Recorded
<1>6. event' = [event EXCEPT ![b] = row] BY <1>0, <1>1 DEF Conclude, EventRow
<1>7. /\ row \in EventRow /\ row.state = s /\ row.token = Nil
      /\ row.gen = event[b].gen /\ row.count = event[b].count
    BY <1>1, <1>4, RowAfterConclude DEF EventRow
<1>8. /\ new \in Attempt /\ new.body = b /\ new.gen = event[b].gen /\ new.no = event[b].count
      /\ new.result = s
    BY <1>1, <1>4 DEF Attempt, Place
<1>9. \A a \in attempts : ~(a.body = b /\ a.gen = event[b].gen /\ a.no = event[b].count)
    BY <1>0, <1>1 DEF Numbered
<1>10. Consistent(b) BY <1>1 DEF Inv, AttemptsExplainState
<1> HIDE DEF s, new, row
<1>11. /\ event'[b] = row /\ \A c \in Bodies \ {b} : event'[c] = event[c]
       /\ at'[w] = Idle /\ \A v \in Workers \ {w} : at'[v] = at[v]
    BY <1>1, <1>5, <1>6
<1>12. Types'
    <2>1. Idle \in Place BY Bounds DEF Idle, Place
    <2> QED BY <1>1, <1>5, <1>6, <1>7, <1>8, <2>1 DEF Types
<1>13. Fenced' BY <1>7, <1>11, WebhookAssumption DEF Inv, Fenced, Idle
<1>14. Counted'
    <2>1. \A a \in attempts : a.body \in Bodies BY <1>1 DEF Attempt
    <2>2. \A a \in attempts' : /\ a.gen <= event'[a.body].gen
                               /\ a.gen = event'[a.body].gen => a.no <= event'[a.body].count
        <3>1. event[b].gen <= event[b].gen /\ event[b].count <= event[b].count
            BY <1>1, WebhookAssumption DEF EventRow, Count
        <3> QED BY <1>5, <1>7, <1>8, <1>11, <2>1, <3>1 DEF Inv, Counted
    <2>3. \A a, c \in attempts' : a.body = c.body /\ a.gen = c.gen /\ a.no = c.no => a = c
        BY <1>5, <1>8, <1>9 DEF Inv, Counted
    <2> QED BY <2>2, <2>3 DEF Counted
<1>15. RetriesLeft' BY <1>1, <1>3, <1>7, <1>11 DEF Inv, RetriesLeft
<1>16. Known' BY <1>2, <1>5, <1>11 DEF Inv, Known
<1>17. \A c \in Bodies : Consistent(c)'
    <2>1. OfRow(b)' = OfRow(b) \cup {new} BY <1>5, <1>7, <1>8, <1>11 DEF OfRow
    <2>2. \A a \in OfRow(b) : a.result = "RETRY_WAIT" /\ a.no < event[b].count
        BY <1>1, <1>10 DEF Consistent
    <2>3. event[b].count \in Nat /\ \A a \in OfRow(b) : a.no \in Nat
        BY <1>1, WebhookAssumption DEF EventRow, Count, OfRow, Attempt
    <2>4. /\ event'[b].count = event[b].count /\ event'[b].state = s
        BY <1>7, <1>11
    <2>5. \E a \in OfRow(b)' : a.no = event'[b].count /\ a.result = event'[b].state
        BY <1>8, <2>1, <2>4
    <2>6. \A a \in OfRow(b)' : a.no < event'[b].count => a.result = "RETRY_WAIT"
        BY <1>8, <2>1, <2>2, <2>3, <2>4
    <2>7. \A a \in OfRow(b)' : a.no <= event'[b].count
        BY <1>8, <2>1, <2>2, <2>3, <2>4
    <2>8. Consistent(b)' BY <1>4, <2>4, <2>5, <2>6, <2>7 DEF Consistent
    <2>9. ASSUME NEW c \in Bodies \ {b} PROVE Consistent(c)'
        <3>1. \A a : a.body = c => (a \in attempts' <=> a \in attempts) BY <1>5, <1>8
        <3> QED BY <1>11, <3>1, ConsistentStays DEF Inv, AttemptsExplainState
    <2> QED BY <2>8, <2>9
<1>18. FactsAreAllOrNothing'
    <2>1. \A e : e \in facts <=> \E a \in attempts : a.result \in Written /\ e \in EffectsOf[a.body]
        BY FactsMean DEF Inv
    <2>2. \A e : e \in facts' <=> \E a \in attempts' : a.result \in Written /\ e \in EffectsOf[a.body]
        BY <1>5, <1>8, <2>1
    <2> QED BY <2>2 DEF FactsAreAllOrNothing
<1>19. AdmittedStaysAdmitted' BY <1>4, <1>5, <1>8 DEF Inv, AdmittedStaysAdmitted
<1> QED BY <1>12, <1>13, <1>14, <1>15, <1>16, <1>17, <1>18, <1>19 DEF Inv, AttemptsExplainState

------------------------------------------------------------------------------
(* The theorems *)

LEMMA InitInv == ASSUME Init PROVE Inv
<1>1. \A b \in Bodies : event[b] = NoEvent BY DEF Init
<1>2. \A w \in Workers : at[w] = Idle BY DEF Init
<1>3. NoEvent \in EventRow /\ Idle \in Place BY Bounds DEF NoEvent, Idle, EventRow, Place, EventState
<1>4. Types BY <1>3 DEF Init, Types
<1>5. Fenced /\ RetriesLeft /\ Known
    BY <1>1, <1>2 DEF NoEvent, Idle, Fenced, RetriesLeft, Known
<1>6. Counted /\ FactsAreAllOrNothing /\ AdmittedStaysAdmitted
    BY DEF Init, Counted, FactsAreAllOrNothing, AdmittedStaysAdmitted
<1>7. AttemptsExplainState
    BY <1>1 DEF Init, AttemptsExplainState, Consistent, OfRow, NoEvent
<1> QED BY <1>4, <1>5, <1>6, <1>7 DEF Inv

LEMMA NextInv == ASSUME Inv, [Next]_vars PROVE Inv'
<1>1. ASSUME \/ \E x \in Assets : Discover(x)
             \/ \E b \in Bodies : Expire(b) \/ Materialize(b)
             \/ Purge \/ UNCHANGED vars
      PROVE  Inv'
    BY <1>1, LearnStep DEF Discover, Expire, Materialize, Purge, vars, rowVars
<1>2. ASSUME NEW w \in Workers, Finish(w) \/ FinishError(w) PROVE Inv'
    BY <1>2, ConcludeStep DEF Finish, FinishError
<1> QED BY <1>1, <1>2, ReceiveStep, ReplayStep, TickStep, ClaimStep, WorkerStep DEF Next

\* The inductive invariant: what stands behind the statements below.
THEOREM Invariant == Spec => []Inv
BY InitInv, NextInv, PTL DEF Spec

\* Whoever stalls, dies or is overtaken, the attempts of a generation tell how
\* the event got where it is (processor.go:138-204).
THEOREM Explained == Spec => []AttemptsExplainState
<1>1. Inv => AttemptsExplainState BY DEF Inv
<1> QED BY <1>1, Invariant, PTL

\* The facts are those of the attempts that wrote them, whole (processor.go:145-202).
THEOREM WholeFacts == Spec => []FactsAreAllOrNothing
<1>1. Inv => FactsAreAllOrNothing BY DEF Inv
<1> QED BY <1>1, Invariant, PTL

\* No attempt quarantines what the callback admitted (processor.go:150-170).
THEOREM NoneForeign == Spec => []AdmittedStaysAdmitted
<1>1. Inv => AdmittedStaysAdmitted BY DEF Inv
<1> QED BY <1>1, Invariant, PTL

Reopens ==
    \A b \in Bodies :
        event[b].state \in Ended \cup {"QUARANTINED"} /\ event'[b] # event[b] =>
            \/ event'[b].gen = event[b].gen + 1 /\ event'[b].state = "QUEUED"
            \/ event'[b].state = event[b].state /\ event'[b].count = event[b].count

LEMMA StepReopens == ASSUME Inv, [Next]_vars PROVE Reopens
<1> SUFFICES ASSUME NEW b \in Bodies, event[b].state \in Ended \cup {"QUARANTINED"}, event'[b] # event[b]
             PROVE  \/ event'[b].gen = event[b].gen + 1 /\ event'[b].state = "QUEUED"
                    \/ event'[b].state = event[b].state /\ event'[b].count = event[b].count
    BY DEF Reopens
<1>1. event \in [Bodies -> EventRow] /\ event[b] \in EventRow BY DEF Inv, Types
<1>2. event[b] # NoEvent /\ event[b].state \notin {"QUEUED", "RETRY_WAIT", "PROCESSING"}
    BY DEF NoEvent, Ended, Written
<1>3. event' # event BY <1>1
<1>4. ASSUME NEW c \in Bodies, Receive(c) PROVE FALSE
    BY <1>1, <1>2, <1>4 DEF Receive, Stored
<1>5. ASSUME NEW c \in Bodies, Replay(c)
      PROVE  event'[b].gen = event[b].gen + 1 /\ event'[b].state = "QUEUED"
    BY <1>1, <1>5 DEF Replay, Generation, NoEvent
<1>6. ASSUME Tick PROVE event'[b].state = event[b].state /\ event'[b].count = event[b].count
    BY <1>1, <1>6 DEF Tick, EventRow
<1>7. ASSUME NEW w \in Workers, NEW c \in Bodies, Claim(w, c) PROVE FALSE
    BY <1>1, <1>2, <1>7 DEF Claim, Due
<1>8. ASSUME NEW w \in Workers, Finish(w) \/ FinishError(w) PROVE FALSE
    <2>1. event[at[w].job].state = "PROCESSING"
        BY <1>8, WebhookAssumption DEF Finish, FinishError, Matches, Inv, Fenced
    <2>2. PICK err \in BOOLEAN : Conclude(w, err) BY <1>8 DEF Finish, FinishError
    <2> QED BY <1>1, <1>2, <2>1, <2>2 DEF Conclude
<1> QED BY <1>3, <1>4, <1>5, <1>6, <1>7, <1>8
        DEF Next, Discover, Expire, Materialize, Purge, Begin, Lose, Fault, rowVars, vars

\* A concluded event is left alone but by a replay (processor.go:138-144,
\* webhook.go:196, service.go:185).
THEOREM ReplayAlone == Spec => OnlyReplayReopens
<1>1. Inv /\ [Next]_vars => [Reopens]_vars BY StepReopens
<1> QED BY <1>1, Invariant, PTL DEF Spec, OnlyReplayReopens, Reopens
=============================================================================
