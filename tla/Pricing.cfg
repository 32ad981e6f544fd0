\* Two members, two imports of two revisions, one permission revoked, two
\* reservations of one or two units against limits of two; Evaluate and
\* intervalMaximum on the inputs of MCGuard.
CONSTANTS
    None = None
    Members = {ann, bob}
    Author = ann
    Reviewer = bob
    Imports = {i1, i2}
    InitMay <- TheirPermissions
    MaxRevision = 2
    MaxPolicy = 4
    MaxRevoked = 1
    Periods = {p}
    Limits = {2}
    Intents = {x, y}
    Amounts = {1, 2}
    Reservers = {r1, r2}
    Nil = Nil
    Margin = 1
    WarnBefore = 2
    MaxNow = 4
    Horizons <- TriedHorizons
    MaxInstant = 3
    MaxIntervals = 3
SPECIFICATION PricingSpec
INVARIANTS PublicationsReviewed ApprovedAsSubmitted BudgetHolds AllowedIffCovered MaximumIsExact
PROPERTIES SavedOverWhatWasRead
SYMMETRY Symmetry
CHECK_DEADLOCK FALSE
