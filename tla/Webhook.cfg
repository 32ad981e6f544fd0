\* Two bodies that share an effect, two workers, assets discovered meanwhile, a
\* replay, retention, lost leases and a fault.
CONSTANTS
    Nil = Nil
    ba = ba
    bb = bb
    x1 = x1
    x2 = x2
    Bodies = {ba, bb}
    Workers = {w1, w2}
    Assets = {x1, x2}
    AssetsOf <- TriedAssets
    Effects <- TriedKeys
    EffectsOf <- TriedEffects
    ClassOf <- OneInvalid
    MaxAttempts = 2
    LeaseTicks = 1
    RetryTicks = 0
    MaxReplays = 1
    MaxFaults = 1
SPECIFICATION Spec
SYMMETRY Symmetry
INVARIANTS AttemptsExplainState FactsAreAllOrNothing
PROPERTY OnlyReplayReopens
