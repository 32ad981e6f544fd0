------------------------------ MODULE MCGuard ------------------------------
(***************************************************************************)
(* The two procedures on small inputs: Evaluate on every combination of    *)
(* facts while time passes (`in` is the GuardInput the code would build at *)
(* instant in.now), and intervalMaximum on every small set of reviewed     *)
(* intervals, built up one at a time for a fixed horizon, as publications  *)
(* accumulate.  A behaviour exercises one of the two; the variables of the *)
(* other are Nil.                                                          *)
(***************************************************************************)
EXTENDS Guard

CONSTANTS
    MaxNow,        \* last instant tried
    Horizons,      \* delivery bounds tried (Nil: no bound configured)
    MaxInstant,    \* latest instant of an interval or a horizon
    MaxIntervals   \* number of intervals published at most

VARIABLES
    in,                      \* Evaluate's input
    start, end, intervals    \* intervalMaximum's

vars == <<in, start, end, intervals>>

TriedHorizons == {Nil, 0, 2}

\* The five flag facts with at most one of them against the send.
FlagFacts ==
    LET good == [authorized |-> TRUE, sendingEnabled |-> TRUE, suppressed |-> FALSE,
                 assignment |-> 1, expectedAssignment |-> 1, handoff |-> "HUMAN"]
    IN  {good, [good EXCEPT !.authorized = FALSE], [good EXCEPT !.sendingEnabled = FALSE],
         [good EXCEPT !.suppressed = TRUE], [good EXCEPT !.assignment = 2],
         [good EXCEPT !.handoff = "BOT"]}

Facts(f, k, cur, w, tr, from, to, rev, ttl) ==
    [now |-> 0, authorized |-> f.authorized, sendingEnabled |-> f.sendingEnabled,
     suppressed |-> f.suppressed, assignment |-> f.assignment,
     expectedAssignment |-> f.expectedAssignment, handoff |-> f.handoff,
     messageType |-> k[1], category |-> k[2], currencyState |-> cur,
     windowExpiry |-> w, trustedWindow |-> tr, policyFrom |-> from, policyTo |-> to,
     reviewAt |-> rev, ttl |-> ttl, deliveryLatest |-> ttl]

EvaluateInit ==
    \E f \in FlagFacts, k \in {<<"TEXT", "SERVICE">>, <<"TEMPLATE", "SERVICE">>},
       cur \in {"UNKNOWN", "VERIFIED"}, w \in {Nil} \cup 0..MaxNow, tr \in BOOLEAN,
       from \in {Nil, 0, 1}, to \in {2, MaxNow, MaxNow + 3}, rev \in {1, MaxNow - 1, MaxNow + 4},
       ttl \in Horizons :
        /\ in = Facts(f, k, cur, w, tr, from, to, rev, ttl)
        /\ start = Nil /\ end = Nil /\ intervals = Nil

\* Only the clock moves; the delivery horizon moves with it (guard.go:136-140).
Tick ==
    /\ in # Nil
    /\ in.now < MaxNow
    /\ in' = [in EXCEPT !.now = @ + 1,
                        !.deliveryLatest = IF in.ttl = Nil THEN Nil ELSE in.now + 1 + in.ttl]
    /\ UNCHANGED <<start, end, intervals>>

\* Amounts: a reviewed zero policy, two positive prices, a zero without a
\* policy and an amount that does not parse.
Prices == {<<0, TRUE>>, <<1, FALSE>>, <<2, FALSE>>, <<0, FALSE>>, <<Nil, FALSE>>}

Interval == {[from |-> b[1], to |-> b[2], unit |-> p[1], zero |-> p[2]] :
                b \in {x \in (0..MaxInstant - 1) \X (1..MaxInstant) : x[1] < x[2]} \cup {<<1, 1>>},
                p \in Prices}

IntervalInit == /\ start \in 0..1
                /\ end \in start - 1 .. MaxInstant - 1
                /\ intervals = {}
                /\ in = Nil

Publish(p) == /\ intervals # Nil
              /\ Cardinality(intervals) < MaxIntervals
              /\ p \notin intervals
              /\ intervals' = intervals \cup {p}
              /\ UNCHANGED <<in, start, end>>

Init == EvaluateInit \/ IntervalInit
Next == Tick \/ \E p \in Interval : Publish(p)

Spec == Init /\ [][Next]_vars

\* Evaluate allows a send exactly when every instant that matters is covered:
\* the window is open now and throughout the next Margin, and the reviewed zero
\* policy is in force at every instant from now to the latest delivery, not
\* merely at the two ends Evaluate compares (guard.go:33-91).
AllowedIffCovered == in # Nil =>
    (Evaluate(in).allowed <=>
        /\ in.authorized /\ in.sendingEnabled /\ ~in.suppressed
        /\ in.expectedAssignment = in.assignment /\ in.handoff # "BOT"
        /\ in.messageType = "TEXT" /\ in.category = "SERVICE"
        /\ in.trustedWindow /\ in.windowExpiry # Nil
        /\ \A t \in in.now .. in.now + Margin : t < in.windowExpiry
        /\ in.policyFrom # Nil /\ in.policyTo # Nil
        /\ in.deliveryLatest # Nil /\ in.now <= in.deliveryLatest
        /\ \A t \in in.now .. in.deliveryLatest : in.policyFrom <= t /\ t < in.policyTo
        /\ in.now < in.reviewAt)

Results == IntervalMaximum(start, end, intervals)
Accepted(r) == r.error = ""

\* intervalMaximum accepts exactly when the intervals are well formed and each
\* instant of the horizon has one valid price, and then returns the highest of
\* them; whatever order the unstable sort leaves equal starts in
\* (exposure.go:49-88).
MaximumIsExact == intervals # Nil =>
    LET priced(p) == p.unit # Nil /\ (p.zero <=> p.unit = 0)
        at(t) == {p \in intervals : p.from <= t /\ t < p.to}
        exact == /\ start <= end
                 /\ \A p \in intervals : WellFormed(p)
                 /\ \A t \in start .. end : \E p \in at(t) : at(t) = {p} /\ priced(p)
        paid  == {p.unit : p \in UNION {at(t) : t \in start .. end}}
    IN  \A r \in Results :
            /\ Accepted(r) <=> exact
            /\ Accepted(r) => r.maximum \in paid /\ \A u \in paid : u <= r.maximum
==============================================================================
