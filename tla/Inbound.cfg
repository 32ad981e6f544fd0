\* The meta worker: one or two synchronisations and one webhook body, two workers.
\* Delivery: two workers materialize crossing events of two accepted messages, or one
\* worker records both acceptances and materializes their events, in any order.
CONSTANTS
    Nil = Nil
    x1 = x1
    x2 = x2
    x3 = x3
    Runs = {1, 2}
    Workers = {w1, w2}
    Assets = {x1, x2, x3}
    AssetsAt <- Listed
    Foreign = {x3}
    MaxAttempts = 2
    SyncLease = 1
    SyncRetry = 0
    MaxRemote = 3
    MaxFaults = 1
    Bodies = {b1}
    AssetsOf <- Named
    Effects = {"e1"}
    EffectsOf <- Found
    ClassOf <- Verdict
    LeaseTicks = 1
    EventAttempts = 1
    RetryTicks = 0
    MaxReplays = 0
    MaxMishaps = 1
    None = None
    ma = ma
    mb = mb
    Crew = {v1, v2}
    Messages = {ma, mb}
    Shifts <- InboundShifts
    MaxInterrupts = 2
SPECIFICATION InboundSpec
INVARIANTS AdmittedStaysAdmitted StatusesReflected
PROPERTIES SnapshotsInOrder RequestedRunEnds EventuallyConcluded EventuallyMaterialized
