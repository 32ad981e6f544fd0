------------------------------- MODULE Guard -------------------------------
(***************************************************************************)
(* The pure decision procedures of backend/internal/inbox: Evaluate        *)
(* (guard.go), which every preflight, submission and dispatch goes         *)
(* through, and intervalMaximum (exposure.go), which prices a delivery     *)
(* horizon from reviewed intervals.  Instants are integers; Nil stands for *)
(* a NULL or zero time and for an amount that does not parse.  An operator *)
(* X is preceded by XMutant, a plausible bug that the runs must detect.    *)
(***************************************************************************)
EXTENDS Integers, Sequences, FiniteSets

CONSTANTS
    Nil,           \* absent value (Go nil / zero time / unparsable amount)
    Margin,        \* least life a window must have left: 5 seconds
    WarnBefore     \* EXPIRING_SOON threshold: 15 minutes

ASSUME GuardAssumption == /\ Margin \in Nat
                          /\ WarnBefore \in Nat
                          /\ Nil \notin Int

------------------------------------------------------------------------------
(* intervalMaximum *)

\* An interval is relevant when it meets the closed horizon start..end.
MeetsMutant(p, start, end) == p.to > start /\ p.from < end
Meets(p, start, end) == p.to > start /\ p.from <= end

WellFormed(p) == p.from # Nil /\ p.to # Nil /\ p.to > p.from

\* `sorted` lists a set of intervals by StartsAt; the order of equal starts is
\* the sorter's (sort.Slice is not stable), hence the set of possible results.
SortedByStart(intervals) ==
    {s \in [1..Cardinality(intervals) -> intervals] :
        /\ \A j, k \in DOMAIN s : j # k => s[j] # s[k]
        /\ \A j, k \in DOMAIN s : j < k => s[j].from <= s[k].from}

\* Interval p starts before the previous one ended.
Overlaps(p, cursor) == p.from < cursor

\* The first test that interval k of the sorted list fails, "" if none.
IntervalFault(sorted, k, start) ==
    LET p      == sorted[k]
        cursor == IF k = 1 THEN start ELSE sorted[k-1].to
    IN  CASE p.from > cursor -> "PRICING_HORIZON_NOT_FULLY_COVERED"
          [] k > 1 /\ Overlaps(p, cursor) -> "PRICING_INTERVAL_CONFLICT"
          [] p.unit = Nil -> "PRICING_HORIZON_NOT_FULLY_COVERED"
          [] p.unit = 0 /\ ~p.zero -> "PRICING_HORIZON_NOT_FULLY_COVERED"
          [] p.unit # 0 /\ p.zero -> "PRICING_INTERVAL_CONFLICT"
          [] OTHER -> ""

PricingError(code) == [error |-> code, maximum |-> Nil]

\* The verdict once the relevant intervals stand in one particular order.
Walk(sorted, start, end) ==
    LET n      == Len(sorted)
        faulty == {k \in 1..n : IntervalFault(sorted, k, start) # ""}
        reach  == IF n = 0 THEN start ELSE sorted[n].to
        units  == {sorted[k].unit : k \in 1..n} \cup {0}
    IN  IF faulty # {}
        THEN LET first == CHOOSE k \in faulty : \A j \in faulty : k <= j
             IN  PricingError(IntervalFault(sorted, first, start))
        ELSE IF reach <= end
             THEN PricingError("PRICING_HORIZON_NOT_FULLY_COVERED")
             ELSE [error |-> "", maximum |-> CHOOSE u \in units : \A v \in units : v <= u]

\* Every result intervalMaximum may return on a set of intervals.
IntervalMaximum(start, end, intervals) ==
    IF start = Nil \/ end < start \/ \E p \in intervals : ~WellFormed(p)
    THEN {PricingError("PRICING_HORIZON_NOT_FULLY_COVERED")}
    ELSE {Walk(s, start, end) :
            s \in SortedByStart({p \in intervals : Meets(p, start, end)})}

------------------------------------------------------------------------------
(* Evaluate *)

Window(in) ==
    IF ~in.trustedWindow \/ in.windowExpiry = Nil THEN "UNKNOWN"
    ELSE LET left == in.windowExpiry - in.now
         IN  CASE left <= 0 -> "EXPIRED"
               [] left > 0 /\ left <= WarnBefore -> "EXPIRING_SOON"
               [] OTHER -> "ACTIVE"

\* The window must outlive the safety margin: TEMPLATE_REQUIRED otherwise.
WindowTooShortMutant(in) == in.windowExpiry <= in.now
WindowTooShort(in) == in.windowExpiry - in.now <= Margin

\* The reviewed policy is due for review: PRICING_POLICY_REVIEW_OVERDUE.
ReviewOverdue(in) == in.now >= in.reviewAt

\* The horizon check: the reviewed zero policy as the only interval.
HorizonError(in) ==
    (CHOOSE r \in IntervalMaximum(in.now, in.deliveryLatest,
              {[from |-> in.policyFrom, to |-> in.policyTo, unit |-> 0, zero |-> TRUE]}) :
        TRUE).error

\* The denials in the order Evaluate tries them; the first that applies wins.
DenialOrder ==
    <<"PERMISSION_DENIED", "SENDING_DISABLED", "RECIPIENT_SUPPRESSED",
      "ASSIGNMENT_CHANGED", "HANDOFF_CONFLICT", "BILLING_CURRENCY_UNVERIFIED",
      "PAID_TEMPLATE_AUTHORITY_CLOSED", "SERVICE_WINDOW_UNKNOWN", "TEMPLATE_REQUIRED",
      "PRICING_COVERAGE_MISSING", "PRICING_POLICY_REVIEW_OVERDUE",
      "PRICING_HORIZON_NOT_FULLY_COVERED">>

Paid(in) == in.messageType # "TEXT" \/ in.category # "SERVICE"

Applies(code, in) ==
    CASE code = "PERMISSION_DENIED" -> ~in.authorized
      [] code = "SENDING_DISABLED" -> ~in.sendingEnabled
      [] code = "RECIPIENT_SUPPRESSED" -> in.suppressed
      [] code = "ASSIGNMENT_CHANGED" -> in.expectedAssignment # in.assignment
      [] code = "HANDOFF_CONFLICT" -> in.handoff = "BOT"
      [] code = "BILLING_CURRENCY_UNVERIFIED" -> Paid(in) /\ in.currencyState # "VERIFIED"
      [] code = "PAID_TEMPLATE_AUTHORITY_CLOSED" -> Paid(in)
      [] code = "SERVICE_WINDOW_UNKNOWN" -> Window(in) = "UNKNOWN"
      [] code = "TEMPLATE_REQUIRED" -> Window(in) # "UNKNOWN" /\ WindowTooShort(in)
      [] code = "PRICING_COVERAGE_MISSING" ->
             \/ in.policyFrom = Nil \/ in.policyTo = Nil
             \/ in.now < in.policyFrom \/ in.now >= in.policyTo
      [] code = "PRICING_POLICY_REVIEW_OVERDUE" -> ReviewOverdue(in)
      [] code = "PRICING_HORIZON_NOT_FULLY_COVERED" ->
             in.deliveryLatest = Nil \/ HorizonError(in) # ""

\* Positions of the denials that apply; the first of them is the answer.
Denials(in) == {k \in 1..Len(DenialOrder) : Applies(DenialOrder[k], in)}

Evaluate(in) ==
    LET allowed == Denials(in) = {}
    IN  [allowed |-> allowed,
         code    |-> IF allowed THEN "ZERO_COST_SERVICE"
                     ELSE DenialOrder[CHOOSE k \in Denials(in) : \A j \in Denials(in) : k <= j],
         window  |-> Window(in),
         pricing |-> IF allowed THEN "NO_CHARGE_REVIEWED_POLICY" ELSE "UNKNOWN"]
==============================================================================
