------------------------------ MODULE MCPricing ------------------------------
(***************************************************************************)
(* Everything about prices.  A behaviour exercises one part, chosen at the *)
(* start: the registry with all its imports; the registry with a single    *)
(* import, beside budgets; or the pure procedures of MCGuard.  Variables of *)
(* the other parts do not move.                                            *)
(***************************************************************************)
EXTENDS Budget, TLC

CONSTANTS Nil, Margin, WarnBefore, MaxNow, Horizons, MaxInstant, MaxIntervals,
          Author, Reviewer

ASSUME ProceduresAssumption ==
    /\ Margin \in Nat /\ WarnBefore \in Nat /\ Nil \notin Int
    /\ MaxNow \in Nat /\ Horizons \subseteq Nat \cup {Nil} /\ MaxInstant \in Nat

VARIABLES in, start, end, intervals, part

TriedHorizons == {Nil, 0, 2}

G == INSTANCE MCGuard

\* One member imports, reviews and publishes, another reviews and switches sending.
TheirPermissions == [m \in Members |-> IF m = Author THEN {"import", "review", "publish"}
                                       ELSE {"review", "sending"}]

Symmetry == Permutations(Imports) \cup Permutations(Reservers) \cup Permutations(Intents)

PricingInit ==
    /\ Init /\ BudgetInit
    /\ \/ /\ part \in {"registry", "budgets"}
          /\ in = Nil /\ start = Nil /\ end = Nil /\ intervals = Nil
       \/ part = "procedures" /\ G!Init

\* Beside the budgets: one import, never revised, and no permission revoked.
Small == /\ Cardinality({i \in Imports : import'[i].state # "NONE"}) <= 1
         /\ \A i \in Imports : import'[i].revision = 1
         /\ may' = may

PricingNext ==
    /\ part' = part
    /\ \/ part = "registry" /\ RegistryStep /\ UNCHANGED <<in, start, end, intervals>>
       \/ part = "budgets" /\ RegistryStep /\ Small /\ UNCHANGED <<in, start, end, intervals>>
       \/ part = "budgets" /\ BudgetStep /\ UNCHANGED <<in, start, end, intervals>>
       \/ part = "procedures" /\ G!Next /\ UNCHANGED <<registryVars, budgetVars>>

PricingSpec == PricingInit /\ [][PricingNext]_<<registryVars, budgetVars, in, start, end, intervals, part>>

\* The two properties of the procedures, stated in MCGuard.
AllowedIffCovered == G!AllowedIffCovered
MaximumIsExact == G!MaximumIsExact
==============================================================================
