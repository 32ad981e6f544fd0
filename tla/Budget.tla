-------------------------------- MODULE Budget --------------------------------
(***************************************************************************)
(* Budget periods and reservations against them, beside the registry whose *)
(* settings row they read: POST /budgets and reserveBudget                 *)
(* (inbox/registry.go:175-209, 391-457).  A reservation's transaction is   *)
(* split at its statements: it holds the settings row FOR SHARE from its   *)
(* first one and the period's row FOR UPDATE from its second, so requests  *)
(* that write the settings wait for it.  No code of the repository calls   *)
(* reserveBudget yet; a reserver is any transaction that will.             *)
(*                                                                         *)
(* Currency: every recorded currency and every period is in IDR.  Nothing  *)
(* ever sets a reservation's state but its insertion.                      *)
(***************************************************************************)
EXTENDS Registry, FiniteSetsExt

CONSTANTS
    Periods,
    Limits,       \* hard limits a period may be created with
    Intents,
    Amounts,      \* amounts reserved
    Reservers     \* concurrent transactions that reserve

ASSUME BudgetAssumption == /\ Limits \subseteq Nat /\ Amounts \subseteq Nat \ {0}
                           /\ None \notin Periods \cup Intents

VARIABLES
    period,       \* budget_periods: the hard limit, None before it is created
    reserved,     \* budget_reservations, with their ledger entries
    reserver      \* a transaction: its place, its arguments, what it has read

budgetVars == <<period, reserved, reserver>>

Idle == [pc |-> "idle"]

BudgetInit ==
    /\ period = [p \in Periods |-> None]
    /\ reserved = {}
    /\ reserver = [r \in Reservers |-> Idle]

Verified == settings.currency # None

\* POST /budgets, by a member with budgets.manage.
CreatePeriod(p, limit) ==
    /\ period[p] = None /\ Verified
    /\ period' = [period EXCEPT ![p] = limit]
    /\ UNCHANGED <<registryVars, reserved, reserver>>

PeriodFreeMutant(p) == TRUE
PeriodFree(p) == \A r \in Reservers : reserver[r].pc # "idle" => reserver[r].period # p

\* The settings and the active publication are current; then the period's lock.
Start(r, p, i, a) ==
    /\ reserver[r].pc = "idle"
    /\ Verified /\ settings.head # 0 /\ ~overdue
    /\ period[p] # None /\ PeriodFree(p)
    /\ reserver' = [reserver EXCEPT ![r] = [pc |-> "locked", period |-> p, intent |-> i, amount |-> a]]
    /\ UNCHANGED <<registryVars, period, reserved>>

Exposure(p) == MapThenSumSet(LAMBDA x : x.amount, {x \in reserved : x.period = p})
Existing(r) == {x \in reserved : x.period = reserver[r].period /\ x.intent = reserver[r].intent}

\* A repeated call for the same amount has nothing to do, for another fails.
ReadExisting(r) ==
    /\ reserver[r].pc = "locked"
    /\ reserver' = [reserver EXCEPT ![r] = IF Existing(r) # {} THEN Idle ELSE [@ EXCEPT !.pc = "fresh"]]
    /\ UNCHANGED <<registryVars, period, reserved>>

Within(r) == Exposure(reserver[r].period) + reserver[r].amount <= period[reserver[r].period]

ReadExposure(r) ==
    /\ reserver[r].pc = "fresh"
    /\ reserver' = [reserver EXCEPT ![r] = IF Within(r) THEN [@ EXCEPT !.pc = "approved"] ELSE Idle]
    /\ UNCHANGED <<registryVars, period, reserved>>

\* The insertion and the commit; the unique key refuses a second row.
Reserve(r) ==
    /\ reserver[r].pc = "approved" /\ Existing(r) = {}
    /\ reserved' = reserved \cup {[period |-> reserver[r].period, intent |-> reserver[r].intent,
                                   amount |-> reserver[r].amount]}
    /\ reserver' = [reserver EXCEPT ![r] = Idle]
    /\ UNCHANGED <<registryVars, period>>

\* Any failure rolls the transaction back.
Abandon(r) ==
    /\ reserver[r].pc # "idle"
    /\ reserver' = [reserver EXCEPT ![r] = Idle]
    /\ UNCHANGED <<registryVars, period, reserved>>

\* A settings row that is held FOR SHARE cannot be written.
Reserving == \E r \in Reservers : reserver[r].pc # "idle"

RegistryStep ==
    /\ \/ \E m \in Members : \/ ~Reserving /\ WritesSettings(m)
                             \/ ReadsSettings(m)
                             \/ \E k \in Permissions : Revoke(m, k)
       \/ Lapse
    /\ UNCHANGED budgetVars

BudgetStep ==
    \/ \E p \in Periods, limit \in Limits : CreatePeriod(p, limit)
    \/ \E r \in Reservers :
          \/ \E p \in Periods, i \in Intents, a \in Amounts : Start(r, p, i, a)
          \/ ReadExisting(r) \/ ReadExposure(r) \/ Reserve(r) \/ Abandon(r)

------------------------------------------------------------------------------
(* Properties *)

\* A period's reservations never exceed its hard limit and an intent has at most
\* one, however many transactions compare the same exposure with the limit at
\* once and however often a caller repeats itself (registry.go:421-457).
BudgetHolds ==
    \A p \in Periods :
        /\ period[p] # None => Exposure(p) <= period[p]
        /\ \A x, y \in reserved : x.period = p /\ y.period = p /\ x.intent = y.intent => x = y
==============================================================================
