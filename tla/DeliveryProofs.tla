--------------------------- MODULE DeliveryProofs ---------------------------
(***************************************************************************)
(* A message's delivery state is what all committed facts say of it, for   *)
(* any workers, messages, events and crashes, unless a status races the     *)
(* recording of its acceptance (run delivery_orphan).  The argument: a     *)
(* draft says what its holder has projected; the facts that its holder has *)
(* inserted and not projected are none but the last; and a projection from *)
(* what some statuses say gives what all of them say.                      *)
(***************************************************************************)
EXTENDS Delivery, WellFoundedInduction, TLAPS

------------------------------------------------------------------------------
(* The projection *)

\* The highest of some statuses that is above the current state, or the current state.
Best(current, statuses) ==
    LET higher == {s \in statuses : Rank(s) > Rank(current)}
    IN  IF higher = {} THEN current ELSE CHOOSE s \in higher : \A t \in higher : Rank(t) <= Rank(s)

LEMMA Ranks ==
    /\ Rank("ACCEPTED") = 1 /\ Rank("SENT") = 2 /\ Rank("DELIVERED") = 3 /\ Rank("READ") = 4
    /\ Rank("FAILED") = 0 /\ Rank("UNKNOWN") = 0 /\ Rank("UNKNOWN_CONFLICT") = 0
BY DEF Rank

LEMMA BestIs ==
    ASSUME NEW B \in SUBSET Status, NEW c, Rank(c) \in Nat
    PROVE  /\ "READ" \in B /\ Rank(c) < 4 => Best(c, B) = "READ"
           /\ "READ" \notin B /\ "DELIVERED" \in B /\ Rank(c) < 3 => Best(c, B) = "DELIVERED"
           /\ B \cap {"READ", "DELIVERED"} = {} /\ "SENT" \in B /\ Rank(c) < 2 => Best(c, B) = "SENT"
           /\ (\A s \in B : Rank(s) <= Rank(c)) => Best(c, B) = c
<1> DEFINE higher == {s \in B : Rank(s) > Rank(c)}
           top(s) == s \in higher /\ \A t \in higher : Rank(t) <= Rank(s)
<1>1. \A s \in B : s \in {"SENT", "DELIVERED", "READ", "FAILED", "UNKNOWN"} BY DEF Status
<1>2. \A s, t \in B : Rank(s) = Rank(t) /\ Rank(s) > 0 => s = t
    BY <1>1, Ranks
<1>3. ASSUME NEW s, top(s) PROVE Best(c, B) = s
    <2>1. \A t : top(t) => t = s
        <3> TAKE t
        <3> HAVE top(t)
        <3>1. Rank(t) \in Nat /\ Rank(s) \in Nat BY <1>1, <1>3, Ranks
        <3>2. Rank(t) = Rank(s) BY <1>3, <3>1
        <3> QED BY <1>2, <1>3, <3>1, <3>2
    <2> QED BY <1>3, <2>1 DEF Best
<1>4. "READ" \in B /\ Rank(c) < 4 => top("READ") BY <1>1, Ranks
<1>5. "READ" \notin B /\ "DELIVERED" \in B /\ Rank(c) < 3 => top("DELIVERED") BY <1>1, Ranks
<1>6. B \cap {"READ", "DELIVERED"} = {} /\ "SENT" \in B /\ Rank(c) < 2 => top("SENT") BY <1>1, Ranks
<1>7. (\A s \in B : Rank(s) <= Rank(c)) => higher = {} BY <1>1, Ranks
<1> HIDE DEF higher, top
<1>8. higher = {} => Best(c, B) = c BY DEF Best, higher
<1> QED BY <1>3, <1>4, <1>5, <1>6, <1>7, <1>8

\* What the statuses say together is one of these.
LEMMA ToldIs ==
    ASSUME NEW B \in SUBSET Status
    PROVE  /\ "UNKNOWN" \in B => Told(B) = "UNKNOWN_CONFLICT"
           /\ "FAILED" \in B /\ ("DELIVERED" \in B \/ "READ" \in B) => Told(B) = "UNKNOWN_CONFLICT"
           /\ "FAILED" \in B /\ "UNKNOWN" \notin B /\ "DELIVERED" \notin B /\ "READ" \notin B =>
                 Told(B) = "FAILED"
           /\ "FAILED" \notin B /\ "UNKNOWN" \notin B /\ "READ" \in B => Told(B) = "READ"
           /\ "FAILED" \notin B /\ "UNKNOWN" \notin B /\ "READ" \notin B /\ "DELIVERED" \in B =>
                 Told(B) = "DELIVERED"
           /\ "FAILED" \notin B /\ "UNKNOWN" \notin B /\ "READ" \notin B /\ "DELIVERED" \notin B
              /\ "SENT" \in B => Told(B) = "SENT"
           /\ B = {} => Told(B) = "ACCEPTED"
BY DEF Told, Status

LEMMA ProjectionIs ==
    ASSUME NEW c, NEW B, Rank(Best(c, B)) \in Nat
    PROVE  /\ c = "UNKNOWN_CONFLICT" \/ "UNKNOWN" \in B => Projection(c, B) = "UNKNOWN_CONFLICT"
           /\ (c = "FAILED" \/ "FAILED" \in B) /\ Rank(Best(c, B)) >= 3 =>
                 Projection(c, B) = "UNKNOWN_CONFLICT"
           /\ c # "UNKNOWN_CONFLICT" /\ "UNKNOWN" \notin B /\ (c = "FAILED" \/ "FAILED" \in B)
              /\ Rank(Best(c, B)) < 3 => Projection(c, B) = "FAILED"
           /\ c # "UNKNOWN_CONFLICT" /\ "UNKNOWN" \notin B /\ c # "FAILED" /\ "FAILED" \notin B =>
                 Projection(c, B) = Best(c, B)
BY DEF Projection, Best

\* Projecting again, from what some of the statuses say, gives what all of them say.
LEMMA ProjectionTells ==
    ASSUME NEW B \in SUBSET Status, NEW A \in SUBSET B
    PROVE  Projection(Told(A), B) = Told(B)
<1>1. A \in SUBSET Status /\ B \in SUBSET Status OBVIOUS
<1>2. \A s \in B : s \in {"SENT", "DELIVERED", "READ", "FAILED", "UNKNOWN"} BY DEF Status
<1>3. CASE "UNKNOWN" \in B
    <2>1. Told(B) = "UNKNOWN_CONFLICT" BY <1>3, ToldIs
    <2>2. \A c : Projection(c, B) = "UNKNOWN_CONFLICT" BY <1>3 DEF Projection
    <2> QED BY <2>1, <2>2
<1>4. CASE "UNKNOWN" \notin B /\ "FAILED" \in A /\ ("DELIVERED" \in A \/ "READ" \in A)
    <2>1. Told(A) = "UNKNOWN_CONFLICT" BY <1>1, <1>4, ToldIs
    <2>2. Told(B) = "UNKNOWN_CONFLICT" BY <1>4, ToldIs
    <2> QED BY <2>1, <2>2 DEF Projection
<1>5. CASE "UNKNOWN" \notin B /\ "FAILED" \in A /\ "DELIVERED" \notin A /\ "READ" \notin A
    <2>1. Told(A) = "FAILED" BY <1>1, <1>5, ToldIs
    <2>2. CASE "DELIVERED" \in B \/ "READ" \in B
        <3>1. Best("FAILED", B) \in {"DELIVERED", "READ"} BY <2>2, Ranks, BestIs
        <3>2. Rank(Best("FAILED", B)) \in Nat /\ Rank(Best("FAILED", B)) >= 3 BY <3>1, Ranks
        <3>3. Told(B) = "UNKNOWN_CONFLICT" BY <1>5, <2>2, ToldIs
        <3> QED BY <2>1, <3>2, <3>3, ProjectionIs
    <2>3. CASE "DELIVERED" \notin B /\ "READ" \notin B
        <3>1. "SENT" \in B => Best("FAILED", B) = "SENT" BY <2>3, Ranks, BestIs
        <3>2. "SENT" \notin B => Best("FAILED", B) = "FAILED" BY <1>2, <1>5, <2>3, Ranks, BestIs
        <3>3. Rank(Best("FAILED", B)) \in Nat /\ Rank(Best("FAILED", B)) < 3 BY <3>1, <3>2, Ranks
        <3>4. Told(B) = "FAILED" BY <1>5, <2>3, ToldIs
        <3> QED BY <1>5, <2>1, <3>3, <3>4, ProjectionIs
    <2> QED BY <2>2, <2>3
<1>6. CASE "UNKNOWN" \notin B /\ "FAILED" \notin A
    <2> DEFINE c == Told(A)
    <2>1. /\ "READ" \in A => c = "READ"
          /\ "READ" \notin A /\ "DELIVERED" \in A => c = "DELIVERED"
          /\ "READ" \notin A /\ "DELIVERED" \notin A /\ "SENT" \in A => c = "SENT"
          /\ "READ" \notin A /\ "DELIVERED" \notin A /\ "SENT" \notin A => c = "ACCEPTED"
        <3>1. "READ" \notin A /\ "DELIVERED" \notin A /\ "SENT" \notin A => A = {}
            BY <1>2, <1>6
        <3> QED BY <1>1, <1>6, <3>1, ToldIs
    <2> HIDE DEF c
    <2>2. /\ c \in {"READ", "DELIVERED", "SENT", "ACCEPTED"} /\ Rank(c) \in Nat
          /\ c = "READ" => "READ" \in B
          /\ c = "DELIVERED" => "DELIVERED" \in B
          /\ c = "SENT" => "SENT" \in B
        BY <2>1, Ranks
    <2>3. "READ" \in B => Best(c, B) = "READ"
        <3>1. CASE c = "READ" BY <1>2, <3>1, Ranks, BestIs
        <3>2. CASE c # "READ" BY <2>2, <3>2, Ranks, BestIs
        <3> QED BY <3>1, <3>2
    <2>4. "READ" \notin B /\ "DELIVERED" \in B => Best(c, B) = "DELIVERED"
        <3> HAVE "READ" \notin B /\ "DELIVERED" \in B
        <3>1. CASE c = "DELIVERED"
            <4>1. \A s \in B : Rank(s) <= Rank(c) BY <1>2, <3>1, Ranks
            <4> QED BY <3>1, <4>1, <2>2, BestIs
        <3>2. CASE c # "DELIVERED" BY <2>2, <3>2, Ranks, BestIs
        <3> QED BY <3>1, <3>2
    <2>5. "READ" \notin B /\ "DELIVERED" \notin B /\ "SENT" \in B => Best(c, B) = "SENT"
        <3> HAVE "READ" \notin B /\ "DELIVERED" \notin B /\ "SENT" \in B
        <3>1. CASE c = "SENT"
            <4>1. \A s \in B : Rank(s) <= Rank(c) BY <1>2, <3>1, Ranks
            <4> QED BY <3>1, <4>1, <2>2, BestIs
        <3>2. CASE c # "SENT" BY <2>2, <3>2, Ranks, BestIs
        <3> QED BY <3>1, <3>2
    <2>6. "READ" \notin B /\ "DELIVERED" \notin B /\ "SENT" \notin B => Best(c, B) = "ACCEPTED"
        <3> HAVE "READ" \notin B /\ "DELIVERED" \notin B /\ "SENT" \notin B
        <3>1. c = "ACCEPTED" BY <2>2
        <3>2. \A s \in B : Rank(s) <= Rank(c) BY <1>2, <3>1, Ranks
        <3> QED BY <3>1, <3>2, <2>2, BestIs
    <2>7. Rank(Best(c, B)) \in Nat BY <2>3, <2>4, <2>5, <2>6, Ranks
    <2>8. c # "UNKNOWN_CONFLICT" /\ c # "FAILED" BY <2>2
    <2>9. CASE "FAILED" \notin B
        <3>1. Projection(c, B) = Best(c, B) BY <1>6, <2>7, <2>8, <2>9, ProjectionIs
        <3>2. "READ" \notin B /\ "DELIVERED" \notin B /\ "SENT" \notin B => B = {} BY <1>2, <1>6, <2>9
        <3>3. Told(B) = Best(c, B) BY <1>6, <2>3, <2>4, <2>5, <2>6, <2>9, <3>2, ToldIs
        <3> QED BY <3>1, <3>3 DEF c
    <2>10. CASE "FAILED" \in B /\ ("DELIVERED" \in B \/ "READ" \in B)
        <3>1. Rank(Best(c, B)) >= 3 BY <2>3, <2>4, <2>10, Ranks
        <3>2. Projection(c, B) = "UNKNOWN_CONFLICT" BY <2>7, <2>10, <3>1, ProjectionIs
        <3> QED BY <2>10, <3>2, ToldIs DEF c
    <2>11. CASE "FAILED" \in B /\ "DELIVERED" \notin B /\ "READ" \notin B
        <3>1. Rank(Best(c, B)) < 3 BY <2>5, <2>6, <2>11, Ranks
        <3>2. Projection(c, B) = "FAILED" BY <1>6, <2>7, <2>8, <2>11, <3>1, ProjectionIs
        <3> QED BY <1>6, <2>11, <3>2, ToldIs DEF c
    <2> QED BY <2>9, <2>10, <2>11
<1> QED BY <1>3, <1>4, <1>5, <1>6

------------------------------------------------------------------------------
(* The invariant *)

RowType == [known : BOOLEAN, state : DeliveryState]
Phase == {"idle", "claim", "status", "correlate", "project", "accepted", "correlated"}
InEvent(w)    == stage[w] \in {"status", "correlate", "project"}
InDispatch(w) == stage[w] \in {"accepted", "correlated"}

Types ==
    /\ shift \in Shift
    /\ reported \subseteq Fact
    /\ row \in [Messages -> RowType] /\ draft \in [Messages -> RowType]
    /\ lock \in [Messages -> Crew \cup {None}]
    /\ stage \in [Crew -> Phase]
    /\ mine \in [Crew -> SUBSET Fact]
    /\ seen \in [Crew -> SUBSET Events]
    /\ taken \in [Crew -> Events \cup {None}]
    /\ pos \in [Crew -> Nat]
    /\ target \in [Crew -> Messages \cup {None}]
    /\ unanswered \subseteq Messages

\* Where a worker is in its event or dispatch.
Places ==
    \A w \in Crew :
        /\ w \notin shift.workers => stage[w] = "idle"
        /\ InEvent(w) => taken[w] \in Events /\ pos[w] > 0
        /\ stage[w] \in {"correlate", "project"} => ~Exhausted(w) /\ Current(w) \in mine[w]
        /\ ~InEvent(w) => mine[w] = {}
        /\ InDispatch(w) => target[w] \in Messages

\* The fact that its holder has inserted but not yet projected.
Pending(w) == IF stage[w] \in {"correlate", "project"} THEN {Current(w)} ELSE {}

\* Whose message is locked.
Locks ==
    /\ \A m \in Messages : lock[m] = None => draft[m] = row[m]
    /\ \A m \in Messages, w \in Crew : lock[m] = w =>
          /\ InEvent(w) \/ InDispatch(w)
          /\ InEvent(w) => row[m].known
          /\ InDispatch(w) => m = target[w]
          /\ draft[m].known
    /\ \A w \in Crew : InDispatch(w) => lock[target[w]] = w
    /\ \A w \in Crew : stage[w] = "project" => lock[Current(w).msg] = w
    /\ \A m \in unanswered : ~row[m].known /\ lock[m] = None

\* Uncommitted facts of a message that is on record are under its lock, but the last.
Covered ==
    \A w \in Crew : \A f \in mine[w] \ Pending(w) : row[f.msg].known => lock[f.msg] = w

\* No worker has facts of a message whose acceptance another one records.
Apart ==
    /\ unanswered \subseteq shift.unanswered
    /\ \A w \in Crew : InDispatch(w) => target[w] \in shift.unanswered
    /\ \/ \A w, v \in shift.workers : w = v
       \/ /\ \A m \in shift.unanswered : ~Reported(shift, m)
          /\ \A w \in Crew : \A f \in mine[w] : f.msg \notin shift.unanswered

Says(F, m) == {f.status : f \in {g \in F : g.msg = m}}

\* A draft says what its holder has projected.
Drafts ==
    \A m \in Messages, w \in Crew : lock[m] = w =>
        IF stage[w] = "accepted" THEN draft[m].state = "ACCEPTED"
        ELSE draft[m].state = Told(Says(reported \cup (mine[w] \ Pending(w)), m))

Inv == Types /\ Places /\ Locks /\ Covered /\ Apart /\ Drafts /\ StatusesReflected

------------------------------------------------------------------------------
(* Statements that move one worker *)

\* What a worker is at, of an event.
LEMMA CurrentFact ==
    ASSUME Types, NEW w \in Crew, taken[w] \in Events, pos[w] > 0, ~Exhausted(w)
    PROVE  Current(w) \in Fact /\ Reported(shift, Current(w).msg)
<1>1. shift.events \in Seq(Seq(Fact)) BY DEF Types, Shift
<1>2. shift.events[taken[w]] \in Seq(Fact) BY <1>1 DEF Events
<1>3. pos[w] \in Nat BY DEF Types
<1>4. pos[w] \in 1..Len(shift.events[taken[w]]) BY <1>2, <1>3 DEF Exhausted
<1> QED BY <1>2, <1>4 DEF Current, Events, Reported

\* A status statement is about a fact.
LEMMA FactAtHand ==
    ASSUME Types, Places, NEW w \in Crew,
           \/ stage[w] \in {"correlate", "project"}
           \/ stage[w] = "status" /\ ~Exhausted(w)
    PROVE  Current(w) \in Fact /\ Reported(shift, Current(w).msg)
<1>1. taken[w] \in Events /\ pos[w] > 0 /\ ~Exhausted(w) BY DEF Places, InEvent
<1> QED BY <1>1, CurrentFact

LEMMA SaysStatus == ASSUME NEW F \in SUBSET Fact, NEW m PROVE Says(F, m) \in SUBSET Status
BY DEF Says, Fact

\* What is not under a lock of w has no fact of w's but the last one.
LEMMA NotMine ==
    ASSUME Covered, NEW w \in Crew, NEW m, row[m].known, lock[m] # w
    PROVE  \A f \in mine[w] \ Pending(w) : f.msg # m
BY DEF Covered

\* The end of a transaction, of which the rows become new and the facts more.
LEMMA EndStep ==
    ASSUME Inv, NEW w \in Crew, End(w), UNCHANGED <<shift, unanswered>>,
           \/ reported' = reported /\ row' = row
              /\ draft' = [m \in Messages |-> IF lock[m] = w THEN row[m] ELSE draft[m]]
           \/ /\ reported' = reported \cup mine[w] /\ draft' = draft
              /\ row' = [m \in Messages |-> IF lock[m] = w THEN draft[m] ELSE row[m]]
              /\ stage[w] \in {"status", "correlated"}
    PROVE  Inv'
<1>1. /\ stage' = [stage EXCEPT ![w] = "idle"] /\ mine' = [mine EXCEPT ![w] = {}]
      /\ taken' = [taken EXCEPT ![w] = None] /\ pos' = [pos EXCEPT ![w] = 0]
      /\ target' = [target EXCEPT ![w] = None] /\ seen' = [seen EXCEPT ![w] = {}]
      /\ lock' = [m \in Messages |-> IF lock[m] = w THEN None ELSE lock[m]]
    BY DEF End, Goto
<1>2. /\ stage \in [Crew -> Phase] /\ mine \in [Crew -> SUBSET Fact]
      /\ taken \in [Crew -> Events \cup {None}] /\ pos \in [Crew -> Nat]
      /\ target \in [Crew -> Messages \cup {None}] /\ seen \in [Crew -> SUBSET Events]
      /\ lock \in [Messages -> Crew \cup {None}] /\ reported \subseteq Fact
      /\ row \in [Messages -> RowType] /\ draft \in [Messages -> RowType] /\ None \notin Crew
    BY DeliveryAssumption DEF Inv, Types
<1>3. \A v \in Crew \ {w} : /\ UNCHANGED <<stage[v], mine[v], taken[v], pos[v], target[v]>>
                               /\ Exhausted(v)' = Exhausted(v) /\ Current(v)' = Current(v)
                               /\ Pending(v)' = Pending(v)
                               /\ InEvent(v)' = InEvent(v) /\ InDispatch(v)' = InDispatch(v)
    BY <1>1, <1>2 DEF Exhausted, Current, Pending, InEvent, InDispatch
<1>4. stage'[w] = "idle" /\ mine'[w] = {} /\ ~InEvent(w)' /\ ~InDispatch(w)'
    BY <1>1, <1>2 DEF InEvent, InDispatch
<1>5. Types' BY <1>1, <1>2 DEF Inv, Types, Phase, Events
<1>6. Places'
    <2>1. ASSUME NEW v \in Crew \ {w}
          PROVE  /\ v \notin shift.workers => stage'[v] = "idle"
                 /\ InEvent(v)' => taken'[v] \in Events' /\ pos'[v] > 0
                 /\ stage'[v] \in {"correlate", "project"} => ~Exhausted(v)' /\ Current(v)' \in mine'[v]
                 /\ ~InEvent(v)' => mine'[v] = {}
                 /\ InDispatch(v)' => target'[v] \in Messages
        BY <1>3 DEF Inv, Places, Events
    <2> QED BY <1>4, <2>1 DEF Places
<1>7. \A m \in Messages : \/ lock[m] = w /\ lock'[m] = None /\ draft'[m] = row'[m]
                          \/ lock[m] # w /\ UNCHANGED <<lock[m], row[m], draft[m]>>
    BY <1>1, <1>2
<1>8. \A m \in Messages : \/ row'[m].known = row[m].known
                          \/ lock[m] = w /\ InDispatch(w)
    <2> TAKE m \in Messages
    <2>1. CASE lock[m] # w BY <1>7, <2>1
    <2>2. CASE lock[m] = w
        <3>1. InEvent(w) \/ InDispatch(w) BY <2>2 DEF Inv, Locks
        <3>2. InEvent(w) => row[m].known /\ draft[m].known BY <1>2, <2>2 DEF Inv, Locks
        <3>3. row'[m] = row[m] \/ row'[m] = draft[m] BY <1>1, <1>2, <2>2
        <3>4. row[m].known \in BOOLEAN /\ draft[m].known \in BOOLEAN BY <1>2 DEF RowType
        <3> QED BY <2>2, <3>1, <3>2, <3>3, <3>4
    <2> QED BY <2>1, <2>2
<1>9. Locks'
    <2>1. ASSUME NEW m \in Messages, NEW v \in Crew, lock'[m] = v
          PROVE  /\ InEvent(v)' \/ InDispatch(v)'
                 /\ InEvent(v)' => row'[m].known
                 /\ InDispatch(v)' => m = target'[v]
                 /\ draft'[m].known
        <3>1. v # w /\ lock[m] = v /\ UNCHANGED <<row[m], draft[m]>> BY <1>2, <1>7, <2>1
        <3> QED BY <1>3, <3>1 DEF Inv, Locks
    <2>2. \A m \in Messages : lock'[m] = None => draft'[m] = row'[m]
        BY <1>7 DEF Inv, Locks
    <2>6. \A v \in Crew : InDispatch(v)' => lock'[target'[v]] = v
        <3> TAKE v \in Crew
        <3> HAVE InDispatch(v)'
        <3>1. v # w /\ InDispatch(v) /\ target'[v] = target[v] BY <1>3, <1>4
        <3>2. target[v] \in Messages /\ lock[target[v]] = v BY <3>1 DEF Inv, Places, Locks
        <3> QED BY <1>7, <3>1, <3>2
    <2>7. \A v \in Crew : stage'[v] = "project" => lock'[Current(v)'.msg] = v
        <3> TAKE v \in Crew
        <3> HAVE stage'[v] = "project"
        <3>1. v # w /\ stage[v] = "project" /\ Current(v)' = Current(v) BY <1>3, <1>4
        <3>2. Current(v).msg \in Messages
            <4>1. stage[v] \in {"correlate", "project"} BY <3>1
            <4>2. Types /\ Places BY DEF Inv
            <4>3. Current(v) \in Fact BY <4>1, <4>2, FactAtHand
            <4> QED BY <4>3 DEF Fact
        <3>3. lock[Current(v).msg] = v BY <3>1 DEF Inv, Locks
        <3> QED BY <1>7, <3>1, <3>2, <3>3
    <2>8. \A m \in unanswered' : ~row'[m].known /\ lock'[m] = None
        <3> TAKE m \in unanswered'
        <3>1. m \in Messages /\ ~row[m].known /\ lock[m] = None BY DEF Inv, Types, Locks
        <3> QED BY <1>2, <1>7, <3>1
    <2> QED BY <2>1, <2>2, <2>6, <2>7, <2>8 DEF Locks
<1>10. ASSUME NEW u \in Crew, NEW x \in Crew \ {u}, InDispatch(u), stage[x] # "idle"
       PROVE  \A f \in mine[x] : f.msg # target[u]
    <2>1. u \in shift.workers /\ x \in shift.workers BY <1>10 DEF Inv, Places, InDispatch
    <2>2. \A f \in mine[x] : f.msg \notin shift.unanswered BY <2>1 DEF Inv, Apart
    <2> QED BY <1>10, <2>2 DEF Inv, Apart
<1>11. Covered'
    <2> SUFFICES ASSUME NEW v \in Crew, NEW g \in mine'[v] \ Pending(v)', row'[g.msg].known
                 PROVE  lock'[g.msg] = v
        BY DEF Covered
    <2>1. v # w /\ g \in mine[v] \ Pending(v) BY <1>3, <1>4
    <2>2. g.msg \in Messages BY <1>2, <2>1 DEF Fact
    <2>3. CASE row[g.msg].known
        <3>1. lock[g.msg] = v BY <2>1, <2>3 DEF Inv, Covered
        <3> QED BY <1>7, <2>1, <2>2, <3>1
    <2>4. CASE ~row[g.msg].known
        <3>1. InDispatch(w) /\ lock[g.msg] = w BY <1>8, <2>2, <2>4
        <3>2. g.msg = target[w] BY <2>2, <3>1 DEF Inv, Locks
        <3>3. stage[v] # "idle" BY <2>1 DEF Inv, Places, InEvent
        <3> QED BY <1>10, <2>1, <3>1, <3>2, <3>3
    <2> QED BY <2>3, <2>4
<1>12. Apart'
    <2>1. \A v \in Crew : InDispatch(v)' => InDispatch(v) /\ target'[v] = target[v] BY <1>3, <1>4
    <2>2. \A v \in Crew : mine'[v] \subseteq mine[v] BY <1>3, <1>4
    <2> QED BY <2>1, <2>2 DEF Inv, Apart
<1>13. ASSUME NEW m \in Messages, lock[m] # w,
              row[m].known \/ \E v \in Crew : lock[m] = v /\ InDispatch(v)
       PROVE  Says(reported', m) = Says(reported, m)
    <2>1. CASE reported' = reported BY <2>1
    <2>2. CASE reported' = reported \cup mine[w] /\ stage[w] \in {"status", "correlated"}
        <3>1. Pending(w) = {} BY <2>2 DEF Pending
        <3>2. \A g \in mine[w] : g.msg # m
            <4>1. CASE row[m].known BY <1>13, <3>1, <4>1, NotMine DEF Inv
            <4>2. CASE ~row[m].known
                <5>1. PICK v \in Crew \ {w} : InDispatch(v) /\ lock[m] = v BY <1>13, <4>2
                <5>2. m = target[v] BY <5>1 DEF Inv, Locks
                <5>3. stage[w] # "idle" BY <2>2
                <5> QED BY <1>10, <5>1, <5>2, <5>3
            <4> QED BY <4>1, <4>2
        <3> QED BY <2>2, <3>2 DEF Says
    <2> QED BY <2>1, <2>2
<1>14. Drafts'
    <2> SUFFICES ASSUME NEW m \in Messages, NEW v \in Crew, lock'[m] = v
                 PROVE  IF stage'[v] = "accepted" THEN draft'[m].state = "ACCEPTED"
                        ELSE draft'[m].state = Told(Says(reported' \cup (mine'[v] \ Pending(v)'), m))
        BY DEF Drafts
    <2>1. v # w /\ lock[m] = v /\ draft'[m] = draft[m] BY <1>2, <1>7
    <2>3. /\ stage'[v] = stage[v] /\ mine'[v] = mine[v] /\ Pending(v)' = Pending(v) BY <1>3, <2>1
    <2>4. row[m].known \/ InDispatch(v) BY <2>1 DEF Inv, Locks
    <2>5. Says(reported', m) = Says(reported, m) BY <1>13, <2>1, <2>4
    <2>7. IF stage[v] = "accepted" THEN draft[m].state = "ACCEPTED"
          ELSE draft[m].state = Told(Says(reported \cup (mine[v] \ Pending(v)), m))
        BY <2>1 DEF Inv, Drafts
    <2>8. Says(reported' \cup (mine'[v] \ Pending(v)'), m) = Says(reported \cup (mine[v] \ Pending(v)), m)
        <3>1. PICK X : X = mine[v] \ Pending(v) OBVIOUS
        <3>2. Says(reported' \cup X, m) = Says(reported', m) \cup Says(X, m) BY DEF Says
        <3>3. Says(reported \cup X, m) = Says(reported, m) \cup Says(X, m) BY DEF Says
        <3>4. Says(reported' \cup X, m) = Says(reported \cup X, m) BY <2>5, <3>2, <3>3
        <3> QED BY <2>3, <3>1, <3>4
    <2> QED BY <2>1, <2>3, <2>7, <2>8
<1>15. StatusesReflected'
    <2> SUFFICES ASSUME NEW m \in Messages, row'[m].known
                 PROVE  row'[m].state = Told(Says(reported', m))
        BY DEF StatusesReflected, Observed, Says
    <2>1. row[m].known => row[m].state = Told(Says(reported, m))
        BY DEF Inv, StatusesReflected, Observed, Says
    <2>2. CASE lock[m] # w
        <3>1. row'[m] = row[m] BY <1>7, <2>2
        <3>2. Says(reported', m) = Says(reported, m) BY <1>13, <2>2, <3>1
        <3> QED BY <2>1, <3>1, <3>2
    <2>3. CASE lock[m] = w /\ reported' = reported /\ row' = row BY <2>1, <2>3
    <2>4. CASE /\ lock[m] = w /\ reported' = reported \cup mine[w] /\ row'[m] = draft[m]
               /\ stage[w] \in {"status", "correlated"}
        <3>1. Pending(w) = {} BY <2>4 DEF Pending
        <3>2. draft[m].state = Told(Says(reported \cup (mine[w] \ Pending(w)), m))
            BY <1>2, <2>4 DEF Inv, Drafts
        <3>3. reported \cup (mine[w] \ Pending(w)) = reported' BY <2>4, <3>1
        <3> QED BY <2>4, <3>2, <3>3
    <2> QED BY <2>2, <2>3, <2>4
<1> QED BY <1>5, <1>6, <1>9, <1>11, <1>12, <1>14, <1>15 DEF Inv

\* Another worker is where it was.
LEMMA OthersStay ==
    ASSUME NEW v \in Crew, UNCHANGED <<shift, stage[v], mine[v], taken[v], pos[v]>>
    PROVE  /\ Exhausted(v)' = Exhausted(v) /\ Current(v)' = Current(v) /\ Pending(v)' = Pending(v)
           /\ InEvent(v)' = InEvent(v) /\ InDispatch(v)' = InDispatch(v)
BY DEF Exhausted, Current, Pending, InEvent, InDispatch

\* A worker goes on in its event, and neither locks nor writes a message.
LEMMA GoesOn ==
    ASSUME Inv, NEW w \in shift.workers, UNCHANGED <<shift, reported, row, draft, lock, unanswered, target>>,
           stage' \in [Crew -> Phase], mine' \in [Crew -> SUBSET Fact],
           seen' \in [Crew -> SUBSET Events],
           taken' \in [Crew -> Events \cup {None}], pos' \in [Crew -> Nat],
           \A v \in Crew \ {w} : UNCHANGED <<stage[v], mine[v], taken[v], pos[v]>>,
           ~InDispatch(w), ~InDispatch(w)', InEvent(w) => InEvent(w)', stage'[w] # "project",
           InEvent(w)' => taken'[w] \in Events /\ pos'[w] > 0,
           stage'[w] = "correlate" => ~Exhausted(w)' /\ Current(w)' \in mine'[w],
           ~InEvent(w)' => mine'[w] = {},
           mine[w] \ Pending(w) \subseteq mine'[w] \ Pending(w)',
           \A g \in mine'[w] \ Pending(w)' : g \in mine[w] \ Pending(w) \/ ~row[g.msg].known,
           \A g \in mine'[w] : g \in mine[w] \/ Reported(shift, g.msg)
    PROVE  Inv'
<1>1. w \in Crew BY DEF Inv, Types, Shift
<1>2. Types' BY DEF Inv, Types, Events
<1>3. \A v \in Crew \ {w} : /\ Exhausted(v)' = Exhausted(v) /\ Current(v)' = Current(v)
                               /\ Pending(v)' = Pending(v)
                               /\ InEvent(v)' = InEvent(v) /\ InDispatch(v)' = InDispatch(v)
    BY OthersStay
<1>4. Places'
    <2>1. ASSUME NEW v \in Crew \ {w}
          PROVE  /\ v \notin shift.workers => stage'[v] = "idle"
                 /\ InEvent(v)' => taken'[v] \in Events' /\ pos'[v] > 0
                 /\ stage'[v] \in {"correlate", "project"} => ~Exhausted(v)' /\ Current(v)' \in mine'[v]
                 /\ ~InEvent(v)' => mine'[v] = {}
                 /\ InDispatch(v)' => target'[v] \in Messages
        BY <1>3 DEF Inv, Places, Events
    <2> QED BY <2>1 DEF Places, Events
<1>5. Locks'
    <2>1. ASSUME NEW m \in Messages, NEW v \in Crew, lock'[m] = v
          PROVE  /\ InEvent(v)' \/ InDispatch(v)'
                 /\ InEvent(v)' => row'[m].known
                 /\ InDispatch(v)' => m = target'[v]
                 /\ draft'[m].known
        BY <1>3, <2>1 DEF Inv, Locks
    <2>2. \A m \in Messages : lock'[m] = None => draft'[m] = row'[m] BY DEF Inv, Locks
    <2>3. \A v \in Crew : InDispatch(v)' => lock'[target'[v]] = v
        BY <1>3 DEF Inv, Locks
    <2>4. \A v \in Crew : stage'[v] = "project" => lock'[Current(v)'.msg] = v
        BY <1>3 DEF Inv, Locks
    <2>5. \A m \in unanswered' : ~row'[m].known /\ lock'[m] = None BY DEF Inv, Locks
    <2> QED BY <2>1, <2>2, <2>3, <2>4, <2>5 DEF Locks
<1>6. Covered'
    <2> SUFFICES ASSUME NEW v \in Crew, NEW g \in mine'[v] \ Pending(v)', row'[g.msg].known
                 PROVE  lock'[g.msg] = v
        BY DEF Covered
    <2>1. g \in mine[v] \ Pending(v) BY <1>3
    <2> QED BY <2>1 DEF Inv, Covered
<1>7. Apart'
    <2>1. \A v \in Crew : InDispatch(v)' => InDispatch(v) BY <1>3
    <2>2. \A v \in Crew : \A g \in mine'[v] : g \in mine[v] \/ Reported(shift, g.msg) BY <1>3
    <2> QED BY <2>1, <2>2 DEF Inv, Apart
<1>8. Drafts'
    <2> SUFFICES ASSUME NEW m \in Messages, NEW v \in Crew, lock'[m] = v
                 PROVE  IF stage'[v] = "accepted" THEN draft'[m].state = "ACCEPTED"
                        ELSE draft'[m].state = Told(Says(reported' \cup (mine'[v] \ Pending(v)'), m))
        BY DEF Drafts
    <2>1. IF stage[v] = "accepted" THEN draft[m].state = "ACCEPTED"
          ELSE draft[m].state = Told(Says(reported \cup (mine[v] \ Pending(v)), m))
        BY DEF Inv, Drafts
    <2>2. CASE v # w BY <1>3, <2>1, <2>2
    <2>3. CASE v = w
        <3>1. row[m].known BY <2>3 DEF Inv, Locks
        <3>2. Says(reported \cup (mine'[w] \ Pending(w)'), m) = Says(reported \cup (mine[w] \ Pending(w)), m)
            <4>1. PICK X, Y : X = mine[w] \ Pending(w) /\ Y = mine'[w] \ Pending(w)' OBVIOUS
            <4>2. X \subseteq Y /\ \A g \in Y : g \in X \/ g.msg # m BY <3>1, <4>1
            <4>3. Says(reported \cup Y, m) = Says(reported \cup X, m) BY <4>2 DEF Says
            <4> QED BY <4>1, <4>3
        <3>3. stage[w] # "accepted" /\ stage'[w] # "accepted" BY DEF InDispatch
        <3> QED BY <2>1, <2>3, <3>2, <3>3
    <2> QED BY <2>2, <2>3
<1>9. StatusesReflected' BY DEF Inv, StatusesReflected, Observed
<1> QED BY <1>2, <1>4, <1>5, <1>6, <1>7, <1>8, <1>9 DEF Inv

\* Some number of a set is the least.
LEMMA LeastEvent ==
    ASSUME NEW S \in SUBSET Nat, S # {}
    PROVE  (CHOOSE e \in S : \A d \in S : e <= d) \in S
<1>1. PICK e \in S : \A d \in S : ~(<<d, e>> \in OpToRel(<, Nat))
    BY NatLessThanWellFounded, WFMin
<1>2. ASSUME NEW d \in S PROVE e <= d
    <2>1. d \in Nat /\ e \in Nat OBVIOUS
    <2>2. ~(d < e) BY <1>1, <2>1 DEF OpToRel
    <2> QED BY <2>1, <2>2
<1> QED BY <1>2

LEMMA TakeSnapshotStep == ASSUME Inv, NEW w \in Crew, TakeSnapshot(w), UNCHANGED shift PROVE Inv'
<1>1. stage \in [Crew -> Phase] /\ seen \in [Crew -> SUBSET Events] /\ stage[w] = "idle"
    BY DEF Inv, Types, TakeSnapshot
<1>2. stage' = [stage EXCEPT ![w] = "claim"] BY DEF TakeSnapshot, Goto
<1>3. seen' \in [Crew -> SUBSET Events] BY <1>1 DEF TakeSnapshot
<1>4. stage' \in [Crew -> Phase] /\ stage'[w] = "claim" /\ \A v \in Crew \ {w} : stage'[v] = stage[v]
    BY <1>1, <1>2 DEF Phase
<1>5. mine[w] = {} BY <1>1 DEF Inv, Places, InEvent
<1> QED BY <1>1, <1>3, <1>4, <1>5, GoesOn DEF TakeSnapshot, dataVars, InEvent, InDispatch, Inv, Types

LEMMA ClaimEventStep == ASSUME Inv, NEW w \in Crew, ClaimEvent(w), UNCHANGED shift PROVE Inv'
<1>1. stage \in [Crew -> Phase] /\ taken \in [Crew -> Events \cup {None}] /\ pos \in [Crew -> Nat]
      /\ stage[w] = "claim" /\ seen[w] \in SUBSET Events /\ Events \subseteq Nat
    BY DEF Inv, Types, ClaimEvent, Shift, Events
<1>2. PICK e : e = CHOOSE x \in Lockable(w) : \A d \in Lockable(w) : x <= d OBVIOUS
<1>3. e \in Events
    <2>1. Lockable(w) \in SUBSET Nat /\ Lockable(w) # {} /\ Lockable(w) \subseteq Events
        BY <1>1 DEF Lockable, ClaimEvent
    <2> QED BY <1>2, <2>1, LeastEvent
<1>4. /\ taken' = [taken EXCEPT ![w] = e] /\ pos' = [pos EXCEPT ![w] = 1]
      /\ stage' = [stage EXCEPT ![w] = "status"]
    BY <1>2 DEF ClaimEvent, Goto
<1>5. /\ stage' \in [Crew -> Phase] /\ stage'[w] = "status" /\ taken' \in [Crew -> Events \cup {None}]
      /\ taken'[w] = e /\ pos' \in [Crew -> Nat] /\ pos'[w] = 1
      /\ \A v \in Crew \ {w} : UNCHANGED <<stage[v], taken[v], pos[v]>>
    BY <1>1, <1>3, <1>4 DEF Phase
<1>6. mine[w] = {} /\ w \in shift.workers BY <1>1 DEF Inv, Places, InEvent
<1>7. /\ UNCHANGED <<reported, row, draft, lock, unanswered, target, mine, seen>>
      /\ mine \in [Crew -> SUBSET Fact] /\ seen \in [Crew -> SUBSET Events]
    BY DEF ClaimEvent, dataVars, Inv, Types
<1>8. /\ ~InDispatch(w) /\ ~InDispatch(w)' /\ ~InEvent(w) /\ InEvent(w)'
    BY <1>1, <1>5 DEF InEvent, InDispatch
<1> QED BY <1>1, <1>3, <1>5, <1>6, <1>7, <1>8, GoesOn

LEMMA InsertFactStep == ASSUME Inv, NEW w \in Crew, InsertFact(w), UNCHANGED shift PROVE Inv'
<1>1. /\ stage \in [Crew -> Phase] /\ taken \in [Crew -> Events \cup {None}] /\ pos \in [Crew -> Nat]
      /\ mine \in [Crew -> SUBSET Fact] /\ seen \in [Crew -> SUBSET Events]
      /\ stage[w] = "status" /\ ~Exhausted(w) /\ Types /\ Places
    BY DEF Inv, Types, InsertFact
<1>2. /\ taken[w] \in Events /\ pos[w] > 0 /\ w \in shift.workers
      /\ InEvent(w) /\ ~InDispatch(w) /\ Pending(w) = {}
    BY <1>1 DEF Places, InEvent, InDispatch, Pending
<1>3. Current(w) \in Fact /\ Reported(shift, Current(w).msg) BY <1>1, FactAtHand
<1>4. UNCHANGED <<reported, row, draft, lock, unanswered, seen, taken, target>> BY DEF InsertFact, dataVars
<1>5. CASE KnownFact(w) /\ Advance(w) /\ UNCHANGED <<mine, stage>>
    <2>1. pos' \in [Crew -> Nat] /\ pos'[w] > 0 /\ \A v \in Crew \ {w} : pos'[v] = pos[v]
        BY <1>1, <1>2, <1>5 DEF Advance
    <2>2. InEvent(w)' /\ ~InDispatch(w)' /\ Pending(w)' = {} /\ stage'[w] = "status"
        BY <1>1, <1>5 DEF InEvent, InDispatch, Pending
    <2> QED BY <1>1, <1>2, <1>4, <1>5, <2>1, <2>2, GoesOn
<1>6. CASE /\ ~KnownFact(w) /\ mine' = [mine EXCEPT ![w] = @ \cup {Current(w)}]
           /\ Goto(w, "correlate") /\ UNCHANGED pos
    <2>1. /\ mine' \in [Crew -> SUBSET Fact] /\ mine'[w] = mine[w] \cup {Current(w)}
          /\ stage' \in [Crew -> Phase] /\ stage'[w] = "correlate"
          /\ \A v \in Crew \ {w} : UNCHANGED <<stage[v], mine[v]>>
        BY <1>1, <1>3, <1>6 DEF Goto, Phase
    <2>2. Current(w)' = Current(w) /\ Exhausted(w)' = Exhausted(w)
        BY <1>4, <1>6 DEF Current, Exhausted
    <2>3. InEvent(w)' /\ ~InDispatch(w)' /\ Pending(w)' = {Current(w)}
        BY <2>1, <2>2 DEF InEvent, InDispatch, Pending
    <2>4. mine'[w] \ Pending(w)' = mine[w] \ Pending(w)
        BY <1>2, <1>6, <2>1, <2>3 DEF KnownFact
    <2>5. \A g \in mine'[w] : g \in mine[w] \/ Reported(shift, g.msg) BY <1>3, <2>1
    <2> QED BY <1>1, <1>2, <1>4, <1>6, <2>1, <2>2, <2>3, <2>4, <2>5, GoesOn
<1> QED BY <1>5, <1>6 DEF InsertFact

LEMMA NoSuchMessageStep == ASSUME Inv, NEW w \in Crew, NoSuchMessage(w), UNCHANGED shift PROVE Inv'
<1>1. /\ stage \in [Crew -> Phase] /\ taken \in [Crew -> Events \cup {None}] /\ pos \in [Crew -> Nat]
      /\ mine \in [Crew -> SUBSET Fact] /\ seen \in [Crew -> SUBSET Events]
      /\ stage[w] = "correlate" /\ ~row[Current(w).msg].known
    BY DEF Inv, Types, NoSuchMessage
<1>2. /\ taken[w] \in Events /\ pos[w] > 0 /\ w \in shift.workers
      /\ InEvent(w) /\ ~InDispatch(w) /\ Pending(w) = {Current(w)}
    BY <1>1 DEF Inv, Places, InEvent, InDispatch, Pending
<1>3. UNCHANGED <<reported, row, draft, lock, unanswered, seen, taken, target, mine>>
    BY DEF NoSuchMessage, dataVars
<1>4. /\ pos' \in [Crew -> Nat] /\ pos'[w] > 0 /\ stage' \in [Crew -> Phase] /\ stage'[w] = "status"
      /\ \A v \in Crew \ {w} : UNCHANGED <<stage[v], pos[v]>>
    BY <1>1, <1>2 DEF NoSuchMessage, Advance, Goto, Phase
<1>5. InEvent(w)' /\ ~InDispatch(w)' /\ Pending(w)' = {} BY <1>4 DEF InEvent, InDispatch, Pending
<1> QED BY <1>1, <1>2, <1>3, <1>4, <1>5, GoesOn

------------------------------------------------------------------------------
(* Statements that lock or write a message *)

\* A worker locks a message, or writes the one it has locked.
LEMMA Writes ==
    ASSUME Inv, NEW w \in shift.workers, NEW m \in Messages, lock[m] \in {None, w},
           UNCHANGED <<shift, reported, row, mine, taken>>,
           stage' \in [Crew -> Phase], target' \in [Crew -> Messages \cup {None}],
           pos' \in [Crew -> Nat], seen' = seen,
           draft' \in [Messages -> RowType], lock' = [lock EXCEPT ![m] = w],
           \A n \in Messages \ {m} : draft'[n] = draft[n], draft'[m].known,
           \A v \in Crew \ {w} : UNCHANGED <<stage[v], pos[v], target[v]>>,
           unanswered' \subseteq unanswered \ {m},
           InEvent(w)' \/ InDispatch(w)',
           InEvent(w)' => /\ taken[w] \in Events /\ pos'[w] > 0 /\ row[m].known /\ InEvent(w)
                          /\ stage'[w] \in {"status", "project"}
                          /\ \/ stage'[w] = "project" /\ ~Exhausted(w)' /\ Current(w)' \in mine[w]
                                /\ Current(w)'.msg = m /\ Pending(w)' = Pending(w)
                             \/ stage'[w] = "status" /\ \A g \in Pending(w) : g.msg = m,
           InDispatch(w)' => target'[w] = m /\ mine[w] = {} /\ ~InEvent(w)
                             /\ (\A n \in Messages : lock[n] = w => n = m)
                             /\ m \in shift.unanswered,
           IF stage'[w] = "accepted" THEN draft'[m].state = "ACCEPTED"
           ELSE draft'[m].state = Told(Says(reported \cup (mine[w] \ Pending(w)'), m))
    PROVE  Inv'
<1>1. w \in Crew /\ None \notin Crew BY DeliveryAssumption DEF Inv, Types, Shift
<1>2. /\ lock \in [Messages -> Crew \cup {None}] /\ lock' \in [Messages -> Crew \cup {None}]
      /\ lock'[m] = w /\ \A n \in Messages \ {m} : lock'[n] = lock[n]
    BY <1>1 DEF Inv, Types
<1>3. Types' BY <1>1, <1>2 DEF Inv, Types, Events
<1>4. \A v \in Crew \ {w} : /\ Exhausted(v)' = Exhausted(v) /\ Current(v)' = Current(v)
                               /\ Pending(v)' = Pending(v)
                               /\ InEvent(v)' = InEvent(v) /\ InDispatch(v)' = InDispatch(v)
    BY OthersStay
<1>5. ~(InEvent(w)' /\ InDispatch(w)') BY DEF InEvent, InDispatch
<1>6. stage'[w] \in {"correlate", "project"} => InEvent(w)' BY DEF InEvent
<1>7. Places'
    <2>1. ASSUME NEW v \in Crew \ {w}
          PROVE  /\ v \notin shift.workers => stage'[v] = "idle"
                 /\ InEvent(v)' => taken'[v] \in Events' /\ pos'[v] > 0
                 /\ stage'[v] \in {"correlate", "project"} => ~Exhausted(v)' /\ Current(v)' \in mine'[v]
                 /\ ~InEvent(v)' => mine'[v] = {}
                 /\ InDispatch(v)' => target'[v] \in Messages
        BY <1>4 DEF Inv, Places, Events
    <2>2. stage'[w] \in {"correlate", "project"} => ~Exhausted(w)' /\ Current(w)' \in mine'[w]
        BY <1>6
    <2>3. InEvent(w)' => taken'[w] \in Events' /\ pos'[w] > 0 BY DEF Events
    <2>4. ~InEvent(w)' => mine'[w] = {} OBVIOUS
    <2> QED BY <2>1, <2>2, <2>3, <2>4 DEF Places
<1>8. Locks'
    <2>1. ASSUME NEW n \in Messages, NEW v \in Crew, lock'[n] = v
          PROVE  /\ InEvent(v)' \/ InDispatch(v)'
                 /\ InEvent(v)' => row'[n].known
                 /\ InDispatch(v)' => n = target'[v]
                 /\ draft'[n].known
        <3>1. CASE v # w
            <4>1. n # m /\ lock[n] = v BY <1>2, <2>1, <3>1
            <4> QED BY <1>4, <3>1, <4>1 DEF Inv, Locks
        <3>2. CASE v = w /\ n = m BY <3>2
        <3>3. CASE v = w /\ n # m
            <4>1. lock[n] = w /\ draft'[n] = draft[n] BY <1>2, <2>1, <3>3
            <4>2. InEvent(w)' BY <3>3, <4>1
            <4>3. row[n].known /\ draft[n].known BY <4>1, <4>2, <1>1 DEF Inv, Locks
            <4> QED BY <1>5, <3>3, <4>1, <4>2, <4>3
        <3> QED BY <3>1, <3>2, <3>3
    <2>2. \A n \in Messages : lock'[n] = None => draft'[n] = row'[n] BY <1>1, <1>2 DEF Inv, Locks
    <2>3. \A v \in Crew : InDispatch(v)' => lock'[target'[v]] = v
        <3> TAKE v \in Crew
        <3> HAVE InDispatch(v)'
        <3>1. CASE v = w BY <1>2, <3>1
        <3>2. CASE v # w
            <4>1. target[v] \in Messages /\ lock[target[v]] = v /\ target'[v] = target[v]
                BY <1>4, <3>2 DEF Inv, Locks, Places
            <4>2. target[v] # m BY <1>1, <3>2, <4>1
            <4> QED BY <1>2, <4>1, <4>2
        <3> QED BY <3>1, <3>2
    <2>4. \A v \in Crew : stage'[v] = "project" => lock'[Current(v)'.msg] = v
        <3> TAKE v \in Crew
        <3> HAVE stage'[v] = "project"
        <3>1. CASE v = w BY <1>2, <1>6, <3>1
        <3>2. CASE v # w
            <4>1. stage[v] = "project" /\ Current(v)' = Current(v) BY <1>4, <3>2
            <4>2. lock[Current(v).msg] = v BY <4>1 DEF Inv, Locks
            <4>3. Current(v) \in Fact
                <5>1. Types /\ Places /\ stage[v] \in {"correlate", "project"} BY <4>1 DEF Inv
                <5> QED BY <5>1, FactAtHand
            <4>4. Current(v).msg \in Messages BY <4>3 DEF Fact
            <4>5. Current(v).msg # m BY <1>1, <3>2, <4>2
            <4> QED BY <1>2, <4>1, <4>2, <4>4, <4>5
        <3> QED BY <3>1, <3>2
    <2>5. \A n \in unanswered' : ~row'[n].known /\ lock'[n] = None
        BY <1>2 DEF Inv, Locks, Types
    <2> QED BY <2>1, <2>2, <2>3, <2>4, <2>5 DEF Locks
<1>9. Covered'
    <2> SUFFICES ASSUME NEW v \in Crew, NEW g \in mine'[v] \ Pending(v)', row'[g.msg].known
                 PROVE  lock'[g.msg] = v
        BY DEF Covered
    <2>1. g \in mine[v] /\ g.msg \in Messages BY DEF Inv, Types, Fact
    <2>2. CASE v # w
        <3>1. lock[g.msg] = v BY <1>4, <2>2 DEF Inv, Covered
        <3>2. g.msg # m BY <1>1, <2>2, <3>1
        <3> QED BY <1>2, <2>1, <3>1, <3>2
    <2>3. CASE v = w /\ g.msg = m BY <1>2, <2>3
    <2>4. CASE v = w /\ g.msg # m
        <3>1. InEvent(w)' BY <2>1, <2>4
        <3>2. g \in mine[w] \ Pending(w) BY <2>1, <2>4, <3>1
        <3>3. lock[g.msg] = w BY <1>1, <3>2 DEF Inv, Covered
        <3> QED BY <1>2, <2>1, <2>4, <3>3
    <2> QED BY <2>2, <2>3, <2>4
<1>10. Apart'
    <2>1. \A v \in Crew : InDispatch(v)' => target'[v] \in shift.unanswered
        BY <1>4 DEF Inv, Apart
    <2> QED BY <2>1 DEF Inv, Apart
<1>11. Drafts'
    <2> SUFFICES ASSUME NEW n \in Messages, NEW v \in Crew, lock'[n] = v
                 PROVE  IF stage'[v] = "accepted" THEN draft'[n].state = "ACCEPTED"
                        ELSE draft'[n].state = Told(Says(reported' \cup (mine'[v] \ Pending(v)'), n))
        BY DEF Drafts
    <2>1. CASE v # w
        <3>1. n # m /\ lock[n] = v BY <1>2, <2>1
        <3>2. IF stage[v] = "accepted" THEN draft[n].state = "ACCEPTED"
              ELSE draft[n].state = Told(Says(reported \cup (mine[v] \ Pending(v)), n))
            BY <3>1 DEF Inv, Drafts
        <3> QED BY <1>4, <2>1, <3>1, <3>2
    <2>2. CASE v = w /\ n = m BY <2>2
    <2>3. CASE v = w /\ n # m
        <3>1. lock[n] = w /\ draft'[n] = draft[n] BY <1>2, <2>3
        <3>2. InEvent(w)' /\ InEvent(w) BY <2>3, <3>1
        <3>3. stage[w] # "accepted" /\ stage'[w] # "accepted" BY <3>2 DEF InEvent
        <3>4. draft[n].state = Told(Says(reported \cup (mine[w] \ Pending(w)), n))
            BY <1>1, <3>1, <3>3 DEF Inv, Drafts
        <3>5. Says(reported \cup (mine[w] \ Pending(w)'), n) = Says(reported \cup (mine[w] \ Pending(w)), n)
            <4>1. CASE Pending(w)' = Pending(w) BY <4>1
            <4>2. CASE stage'[w] = "status" /\ \A g \in Pending(w) : g.msg = m
                <5>1. Pending(w)' = {} BY <4>2 DEF Pending
                <5>2. PICK X : X = Pending(w) OBVIOUS
                <5>3. Says(reported \cup mine[w], n) = Says(reported \cup (mine[w] \ X), n)
                    BY <2>3, <4>2, <5>2 DEF Says
                <5> QED BY <5>1, <5>2, <5>3
            <4> QED BY <3>2, <4>1, <4>2
        <3> QED BY <2>3, <3>1, <3>3, <3>4, <3>5
    <2> QED BY <2>1, <2>2, <2>3
<1>12. StatusesReflected' BY DEF Inv, StatusesReflected, Observed
<1> QED BY <1>3, <1>7, <1>8, <1>9, <1>10, <1>11, <1>12 DEF Inv

LEMMA LockMessageStep == ASSUME Inv, NEW w \in Crew, LockMessage(w), UNCHANGED shift PROVE Inv'
<1> DEFINE m == Current(w).msg
<1>1. /\ stage \in [Crew -> Phase] /\ taken \in [Crew -> Events \cup {None}] /\ pos \in [Crew -> Nat]
      /\ target \in [Crew -> Messages \cup {None}] /\ draft \in [Messages -> RowType]
      /\ stage[w] = "correlate" /\ row[m].known /\ lock[m] \in {None, w} /\ Types /\ Places
    BY DEF Inv, Types, LockMessage
<1>2. /\ taken[w] \in Events /\ pos[w] > 0 /\ w \in shift.workers /\ ~Exhausted(w) /\ Current(w) \in mine[w]
      /\ InEvent(w) /\ Pending(w) = {Current(w)}
    BY <1>1 DEF Places, InEvent, Pending
<1>3. m \in Messages
    <2>1. Current(w) \in Fact BY <1>1, FactAtHand
    <2> QED BY <2>1 DEF Fact
<1>4. /\ UNCHANGED <<reported, row, draft, unanswered, seen, taken, pos, target, mine>>
      /\ lock' = [lock EXCEPT ![m] = w] /\ stage' = [stage EXCEPT ![w] = "project"]
    BY DEF LockMessage, dataVars, Goto
<1>5. /\ stage' \in [Crew -> Phase] /\ stage'[w] = "project" /\ \A v \in Crew \ {w} : stage'[v] = stage[v]
    BY <1>1, <1>4 DEF Phase
<1>6. /\ Current(w)' = Current(w) /\ Exhausted(w)' = Exhausted(w) BY <1>4 DEF Current, Exhausted
<1>7. InEvent(w)' /\ ~InDispatch(w)' /\ Pending(w)' = {Current(w)}
    BY <1>5, <1>6 DEF InEvent, InDispatch, Pending
<1>8. m \notin unanswered BY <1>1 DEF Inv, Locks
<1>9. draft[m].known /\ draft[m].state = Told(Says(reported \cup (mine[w] \ Pending(w)), m))
    <2>1. CASE lock[m] = w BY <1>1, <1>3, <2>1 DEF Inv, Locks, Drafts
    <2>2. CASE lock[m] # w
        <3>1. lock[m] = None BY <1>1, <2>2
        <3>2. draft[m] = row[m] BY <1>3, <3>1 DEF Inv, Locks
        <3>3. \A g \in mine[w] \ Pending(w) : g.msg # m BY <1>1, <2>2, NotMine DEF Inv
        <3>4. PICK X : X = mine[w] \ Pending(w) OBVIOUS
        <3>5. Says(reported \cup X, m) = Says(reported, m) BY <3>3, <3>4 DEF Says
        <3>6. row[m].state = Told(Says(reported, m))
            BY <1>1, <1>3 DEF Inv, StatusesReflected, Observed, Says
        <3> QED BY <1>1, <3>2, <3>4, <3>5, <3>6
    <2> QED BY <2>1, <2>2
<1> HIDE DEF m
<1>10. stage'[w] = "project" /\ ~Exhausted(w)' /\ Current(w)' \in mine[w]
       /\ Current(w)'.msg = m /\ Pending(w)' = Pending(w)
    BY <1>2, <1>5, <1>6, <1>7 DEF m
<1>11. stage'[w] # "accepted" BY <1>5
<1>12. unanswered' \subseteq unanswered \ {m} /\ UNCHANGED <<shift, reported, row, mine, taken>> BY <1>4, <1>8
<1>13. /\ target' \in [Crew -> Messages \cup {None}] /\ pos' \in [Crew -> Nat] /\ seen' = seen
       /\ draft' \in [Messages -> RowType] /\ draft'[m].known
       /\ \A n \in Messages \ {m} : draft'[n] = draft[n]
       /\ \A v \in Crew \ {w} : UNCHANGED <<stage[v], pos[v], target[v]>>
    BY <1>1, <1>4, <1>5, <1>9
<1>14. IF stage'[w] = "accepted" THEN draft'[m].state = "ACCEPTED"
       ELSE draft'[m].state = Told(Says(reported \cup (mine[w] \ Pending(w)'), m))
    BY <1>4, <1>9, <1>10, <1>11
<1>15. InEvent(w)' => /\ taken[w] \in Events /\ pos'[w] > 0 /\ row[m].known /\ InEvent(w)
                      /\ stage'[w] \in {"status", "project"}
                      /\ \/ stage'[w] = "project" /\ ~Exhausted(w)' /\ Current(w)' \in mine[w]
                            /\ Current(w)'.msg = m /\ Pending(w)' = Pending(w)
                         \/ stage'[w] = "status" /\ \A g \in Pending(w) : g.msg = m
    BY <1>1, <1>2, <1>4, <1>5, <1>10
<1> QED BY <1>1, <1>2, <1>3, <1>4, <1>5, <1>7, <1>12, <1>13, <1>14, <1>15, Writes

\* What projecting makes of a draft, given what it said.
LEMMA Projected ==
    ASSUME Inv, NEW w \in Crew, NEW m \in Messages, Project(w, m),
           NEW A \in SUBSET Status, draft[m].state = Told(A), A \subseteq Says(reported \cup mine[w], m)
    PROVE  /\ draft' \in [Messages -> RowType] /\ \A n \in Messages \ {m} : draft'[n] = draft[n]
           /\ draft'[m].known = draft[m].known
           /\ draft'[m].state = Told(Says(reported \cup mine[w], m))
<1>1. draft \in [Messages -> RowType] /\ draft[m] \in RowType /\ reported \cup mine[w] \in SUBSET Fact
    BY DEF Inv, Types
<1>2. PICK B : B = Says(reported \cup mine[w], m) OBVIOUS
<1>3. B \in SUBSET Status BY <1>1, <1>2, SaysStatus
<1>4. StatusesSeen(w, m) = B BY <1>2 DEF StatusesSeen, Says
<1>5. Projection(Told(A), B) = Told(B) BY <1>2, <1>3, ProjectionTells
<1>6. Told(B) \in DeliveryState
    <2>1. \A x \in B : x \in {"SENT", "DELIVERED", "READ", "FAILED", "UNKNOWN"} BY <1>3 DEF Status
    <2>2. B = {} \/ "SENT" \in B \/ "DELIVERED" \in B \/ "READ" \in B \/ "FAILED" \in B \/ "UNKNOWN" \in B
        BY <2>1
    <2>3. Told(B) \in {"UNKNOWN_CONFLICT", "FAILED", "READ", "DELIVERED", "SENT", "ACCEPTED"}
        BY <1>3, <2>2, ToldIs
    <2> QED BY <2>3 DEF DeliveryState
<1>7. draft' = [draft EXCEPT ![m] = [known |-> draft[m].known, state |-> Told(B)]]
    <2>1. draft' = [draft EXCEPT ![m].state = Told(B)] BY <1>4, <1>5 DEF Project
    <2>2. PICK T : T = Told(B) OBVIOUS
    <2>3. [draft[m] EXCEPT !.state = T] = [known |-> draft[m].known, state |-> T]
        BY <1>1 DEF RowType
    <2> QED BY <1>1, <2>1, <2>2, <2>3
<1>8. [known |-> draft[m].known, state |-> Told(B)] \in RowType BY <1>1, <1>6 DEF RowType
<1> QED BY <1>1, <1>2, <1>7, <1>8

LEMMA ProjectStatusStep == ASSUME Inv, NEW w \in Crew, ProjectStatus(w), UNCHANGED shift PROVE Inv'
<1> DEFINE m == Current(w).msg
<1>1. /\ stage \in [Crew -> Phase] /\ taken \in [Crew -> Events \cup {None}] /\ pos \in [Crew -> Nat]
      /\ target \in [Crew -> Messages \cup {None}] /\ lock \in [Messages -> Crew \cup {None}]
      /\ stage[w] = "project" /\ lock[m] = w /\ Types /\ Places
    BY DEF Inv, Types, Locks, ProjectStatus
<1>2. /\ taken[w] \in Events /\ pos[w] > 0 /\ w \in shift.workers
      /\ InEvent(w) /\ Pending(w) = {Current(w)}
    BY <1>1 DEF Places, InEvent, Pending
<1>3. m \in Messages
    <2>1. Current(w) \in Fact BY <1>1, FactAtHand
    <2> QED BY <2>1 DEF Fact
<1>4. row[m].known /\ draft[m].known BY <1>1, <1>2, <1>3 DEF Inv, Locks
<1>5. m \notin unanswered BY <1>4 DEF Inv, Locks
<1>6. /\ UNCHANGED <<reported, row, lock, unanswered, seen, taken, target, mine>>
      /\ stage' \in [Crew -> Phase] /\ stage'[w] = "status" /\ pos' \in [Crew -> Nat] /\ pos'[w] > 0
      /\ \A v \in Crew \ {w} : UNCHANGED <<stage[v], pos[v]>>
    BY <1>1, <1>2 DEF ProjectStatus, dataVars, Goto, Advance, Phase
<1>7. lock' = [lock EXCEPT ![m] = w] BY <1>1, <1>3, <1>6
<1>8. InEvent(w)' /\ ~InDispatch(w)' /\ Pending(w)' = {} BY <1>6 DEF InEvent, InDispatch, Pending
<1>9. PICK A : A = Says(reported \cup (mine[w] \ Pending(w)), m) OBVIOUS
<1>10. A \in SUBSET Status /\ A \subseteq Says(reported \cup mine[w], m)
    <2>1. reported \cup (mine[w] \ Pending(w)) \in SUBSET Fact BY <1>1 DEF Types
    <2>2. A \in SUBSET Status BY <1>9, <2>1, SaysStatus
    <2> QED BY <1>9, <2>2 DEF Says
<1>11. draft[m].state = Told(A) BY <1>1, <1>3, <1>9 DEF Inv, Drafts
<1>12. Project(w, m) BY DEF ProjectStatus
<1> HIDE DEF m
<1>13. /\ draft' \in [Messages -> RowType] /\ \A n \in Messages \ {m} : draft'[n] = draft[n]
       /\ draft'[m].known = draft[m].known
       /\ draft'[m].state = Told(Says(reported \cup mine[w], m))
    BY <1>3, <1>10, <1>11, <1>12, Projected
<1>14. \A g \in Pending(w) : g.msg = m BY <1>2 DEF m
<1>15. draft'[m].state = Told(Says(reported \cup (mine[w] \ Pending(w)'), m)) /\ stage'[w] # "accepted"
    BY <1>6, <1>8, <1>13
<1>16. target' \in [Crew -> Messages \cup {None}] /\ draft'[m].known BY <1>1, <1>4, <1>6, <1>13
<1>17. unanswered' \subseteq unanswered \ {m} BY <1>5, <1>6
<1>18. IF stage'[w] = "accepted" THEN draft'[m].state = "ACCEPTED"
       ELSE draft'[m].state = Told(Says(reported \cup (mine[w] \ Pending(w)'), m))
    BY <1>15
<1>19. InEvent(w)' => /\ taken[w] \in Events /\ pos'[w] > 0 /\ row[m].known /\ InEvent(w)
                      /\ stage'[w] \in {"status", "project"}
                      /\ \/ stage'[w] = "project" /\ ~Exhausted(w)' /\ Current(w)' \in mine[w]
                            /\ Current(w)'.msg = m /\ Pending(w)' = Pending(w)
                         \/ stage'[w] = "status" /\ \A g \in Pending(w) : g.msg = m
    BY <1>2, <1>4, <1>6, <1>14
<1>20. lock[m] \in {None, w} /\ \A v \in Crew \ {w} : UNCHANGED <<stage[v], pos[v], target[v]>>
    BY <1>1, <1>6
<1> QED BY <1>2, <1>3, <1>6, <1>7, <1>8, <1>13, <1>16, <1>17, <1>18, <1>19, <1>20, Writes

LEMMA SetProviderIdStep ==
    ASSUME Inv, NEW w \in Crew, NEW m \in Messages, SetProviderId(w, m), UNCHANGED shift
    PROVE  Inv'
<1>1. /\ stage \in [Crew -> Phase] /\ pos \in [Crew -> Nat] /\ draft \in [Messages -> RowType]
      /\ target \in [Crew -> Messages \cup {None}] /\ lock \in [Messages -> Crew \cup {None}]
      /\ stage[w] = "idle" /\ w \in shift.workers /\ m \in unanswered /\ lock[m] = None /\ None \notin Crew
    BY DeliveryAssumption DEF Inv, Types, Locks, SetProviderId
<1>2. /\ UNCHANGED <<reported, row, seen, taken, pos, mine>> /\ unanswered' = unanswered \ {m}
      /\ lock' = [lock EXCEPT ![m] = w]
      /\ draft' = [draft EXCEPT ![m] = [known |-> TRUE, state |-> "ACCEPTED"]]
      /\ target' = [target EXCEPT ![w] = m] /\ stage' = [stage EXCEPT ![w] = "accepted"]
    BY DEF SetProviderId, dataVars, Goto
<1>3. [known |-> TRUE, state |-> "ACCEPTED"] \in RowType BY DEF RowType, DeliveryState
<1>4. /\ stage' \in [Crew -> Phase] /\ stage'[w] = "accepted" /\ target' \in [Crew -> Messages \cup {None}]
      /\ target'[w] = m /\ draft' \in [Messages -> RowType] /\ draft'[m].known /\ draft'[m].state = "ACCEPTED"
      /\ \A n \in Messages \ {m} : draft'[n] = draft[n]
      /\ \A v \in Crew \ {w} : UNCHANGED <<stage[v], target[v]>>
    BY <1>1, <1>2, <1>3 DEF Phase
<1>5. /\ ~InEvent(w) /\ ~InDispatch(w) /\ ~InEvent(w)' /\ InDispatch(w)'
    BY <1>1, <1>4 DEF InEvent, InDispatch
<1>6. mine[w] = {} /\ \A n \in Messages : lock[n] # w
    BY <1>5 DEF Inv, Places, Locks
<1>7. m \in shift.unanswered BY <1>1 DEF Inv, Apart
<1> QED BY <1>1, <1>2, <1>4, <1>5, <1>6, <1>7, Writes

LEMMA CorrelateAcceptedStep ==
    ASSUME Inv, NEW w \in Crew, CorrelateAccepted(w), UNCHANGED shift PROVE Inv'
<1>1. PICK m : m = target[w] OBVIOUS
<1>2. /\ stage \in [Crew -> Phase] /\ pos \in [Crew -> Nat]
      /\ target \in [Crew -> Messages \cup {None}] /\ lock \in [Messages -> Crew \cup {None}]
      /\ stage[w] = "accepted"
    BY DEF Inv, Types, CorrelateAccepted
<1>3. InDispatch(w) /\ ~InEvent(w) BY <1>2 DEF InDispatch, InEvent
<1>4. /\ m \in Messages /\ mine[w] = {} /\ w \in shift.workers /\ lock[m] = w
      /\ \A n \in Messages : lock[n] = w => n = m
    BY <1>1, <1>2, <1>3 DEF Inv, Places, Locks
<1>5. draft[m].known /\ draft[m].state = "ACCEPTED"
    <2>1. draft[m].known BY <1>4 DEF Inv, Locks
    <2>2. IF stage[w] = "accepted" THEN draft[m].state = "ACCEPTED"
          ELSE draft[m].state = Told(Says(reported \cup (mine[w] \ Pending(w)), m))
        BY <1>4 DEF Inv, Drafts
    <2> QED BY <1>2, <2>1, <2>2
<1>6. m \notin unanswered
    <2>1. None \notin Crew BY DeliveryAssumption
    <2> QED BY <1>4, <2>1 DEF Inv, Locks
<1>7. /\ UNCHANGED <<reported, row, lock, unanswered, seen, taken, pos, target, mine>>
      /\ stage' \in [Crew -> Phase] /\ stage'[w] = "correlated"
      /\ \A v \in Crew \ {w} : stage'[v] = stage[v]
      /\ Project(w, m)
    BY <1>1, <1>2 DEF CorrelateAccepted, dataVars, Goto, Phase
<1>8. lock' = [lock EXCEPT ![m] = w] BY <1>2, <1>4, <1>7
<1>9. InDispatch(w)' /\ ~InEvent(w)' /\ Pending(w)' = {} BY <1>7 DEF InDispatch, InEvent, Pending
<1>10. Told({}) = "ACCEPTED"
    <2>1. {} \in SUBSET Status OBVIOUS
    <2> QED BY <2>1, ToldIs
<1>11. /\ draft' \in [Messages -> RowType] /\ \A n \in Messages \ {m} : draft'[n] = draft[n]
       /\ draft'[m].known = draft[m].known
       /\ draft'[m].state = Told(Says(reported \cup mine[w], m))
    <2>1. PICK A : A = {} OBVIOUS
    <2>2. A \in SUBSET Status /\ A \subseteq Says(reported \cup mine[w], m) /\ draft[m].state = Told(A)
        BY <1>5, <1>10, <2>1
    <2>3. m \in Messages /\ Project(w, m) BY <1>4, <1>7
    <2> QED BY <2>2, <2>3, Projected
<1>12. draft'[m].state = Told(Says(reported \cup (mine[w] \ Pending(w)'), m)) /\ stage'[w] # "accepted"
    BY <1>7, <1>9, <1>11
<1>13. unanswered' \subseteq unanswered \ {m} /\ UNCHANGED <<shift, reported, row, mine, taken>>
    BY <1>6, <1>7
<1>14. IF stage'[w] = "accepted" THEN draft'[m].state = "ACCEPTED"
       ELSE draft'[m].state = Told(Says(reported \cup (mine[w] \ Pending(w)'), m))
    BY <1>12
<1>15. InDispatch(w)' => target'[w] = m /\ mine[w] = {} /\ ~InEvent(w)
                         /\ (\A n \in Messages : lock[n] = w => n = m)
                         /\ m \in shift.unanswered
    BY <1>1, <1>3, <1>4, <1>7 DEF Inv, Apart
<1>16. /\ target' \in [Crew -> Messages \cup {None}] /\ pos' \in [Crew -> Nat] /\ seen' = seen
       /\ draft'[m].known /\ lock[m] \in {None, w}
       /\ \A v \in Crew \ {w} : UNCHANGED <<stage[v], pos[v], target[v]>>
    BY <1>2, <1>4, <1>5, <1>7, <1>11
<1> QED BY <1>4, <1>7, <1>8, <1>9, <1>11, <1>13, <1>14, <1>15, <1>16, Writes

------------------------------------------------------------------------------
(* The theorems *)

LEMMA InitInv == ASSUME DeliveryInit, Untangled(shift) PROVE Inv
<1>1. Types BY DeliveryAssumption DEF DeliveryInit, Types, Shift, RowType, DeliveryState, Phase
<1>2. Places /\ Covered BY DEF DeliveryInit, Places, Covered, InEvent, InDispatch
<1>3. Locks BY <1>1, DeliveryAssumption DEF DeliveryInit, Locks, InDispatch, Types
<1>4. Apart BY <1>1 DEF DeliveryInit, Apart, Untangled, InDispatch
<1>5. Drafts BY DeliveryAssumption DEF DeliveryInit, Drafts
<1>6. StatusesReflected
    <2>1. Told({}) = "ACCEPTED"
        <3>1. {} \in SUBSET Status OBVIOUS
        <3> QED BY <3>1, ToldIs
    <2>2. \A m \in Messages : Observed(m) = {} BY DEF DeliveryInit, Observed
    <2>3. \A m \in Messages : row[m].known => row[m].state = "ACCEPTED" BY DEF DeliveryInit
    <2> QED BY <2>1, <2>2, <2>3 DEF StatusesReflected
<1> QED BY <1>1, <1>2, <1>3, <1>4, <1>5, <1>6 DEF Inv

LEMMA CommitStep ==
    ASSUME Inv, NEW w \in Crew, Commit(w), stage[w] \in {"status", "correlated"},
           UNCHANGED <<shift, unanswered>>
    PROVE  Inv'
BY EndStep DEF Commit

LEMMA RollbackStep ==
    ASSUME Inv, NEW w \in Crew, Rollback(w), UNCHANGED <<shift, unanswered>> PROVE Inv'
BY EndStep DEF Rollback, dataVars

LEMMA NextInv == ASSUME Inv, [DeliveryNext]_deliveryVars PROVE Inv'
<1>1. CASE UNCHANGED deliveryVars
    <2> USE <1>1 DEF deliveryVars, dataVars, txVars
    <2>1. \A w \in Crew : /\ Exhausted(w)' = Exhausted(w) /\ Current(w)' = Current(w)
                              /\ Pending(w)' = Pending(w)
                              /\ InEvent(w)' = InEvent(w) /\ InDispatch(w)' = InDispatch(w)
        BY OthersStay
    <2>2. Types' BY DEF Inv, Types, Events
    <2>3. Places' BY <2>1 DEF Inv, Places, Events
    <2>4. Locks' BY <2>1 DEF Inv, Locks
    <2>5. Covered' BY <2>1 DEF Inv, Covered
    <2>6. Apart' BY <2>1 DEF Inv, Apart
    <2>7. Drafts' BY <2>1 DEF Inv, Drafts
    <2>8. StatusesReflected' BY DEF Inv, StatusesReflected, Observed
    <2> QED BY <2>2, <2>3, <2>4, <2>5, <2>6, <2>7, <2>8 DEF Inv
<1>2. ASSUME NEW w \in Crew, Proceed(w), UNCHANGED shift PROVE Inv'
    <2>1. NoEvent(w) \/ DeadlockDetected(w) => Inv'
        BY <1>2, RollbackStep DEF NoEvent, DeadlockDetected
    <2>2. RecordEvent(w) => Inv' BY <1>2, RollbackStep, CommitStep DEF RecordEvent
    <2>3. CommitAccepted(w) => Inv' BY <1>2, CommitStep DEF CommitAccepted
    <2> QED BY <1>2, <2>1, <2>2, <2>3, TakeSnapshotStep, ClaimEventStep, InsertFactStep, NoSuchMessageStep,
               LockMessageStep, ProjectStatusStep, CorrelateAcceptedStep DEF Proceed
<1>3. ASSUME NEW w \in Crew, NEW m \in Messages, SetProviderId(w, m), UNCHANGED shift PROVE Inv'
    BY <1>3, SetProviderIdStep
<1>4. ASSUME NEW w \in Crew, Interrupt(w), UNCHANGED shift PROVE Inv'
    BY <1>4, RollbackStep DEF Interrupt
<1> QED BY <1>1, <1>2, <1>3, <1>4 DEF DeliveryNext

\* The invariant holds in every state of an untangled shift: claims, waits, deadlocks,
\* rollbacks and commits in any order (materialize.go:92-157, worker.go:172-192).
THEOREM Invariant == DeliverySpec /\ Untangled(shift) => []Inv
<1>1. DeliveryInit /\ Untangled(shift) => Inv BY InitInv
<1>2. Inv /\ [DeliveryNext]_deliveryVars => Inv' BY NextInv
<1> QED BY <1>1, <1>2, PTL DEF DeliverySpec

\* Where no status races the recording of its acceptance, the delivery state is what all
\* committed facts say together (materialize.go:253-281, worker.go:189).
THEOREM Reflected == DeliverySpec /\ Untangled(shift) => []StatusesReflected
<1>1. Inv => StatusesReflected BY DEF Inv
<1> QED BY <1>1, Invariant, PTL
=============================================================================
