\* Two workers race for one intent, with lost claims, recovery and faults, under
\* fair scheduling; no policy changes.
CONSTANTS
    Nil = Nil
    Margin = 1
    WarnBefore = 1
    Intents = {i1}
    Authorizations = {a1, a2}
    Workers = {w1, w2}
    Sessions = {s1}
    Members = {s1}
    Conversations = {c1}
    Phones = {p1}
    Texts = {t1}
    Keys = {k1}
    PhoneOf <- SamePhone
    ActorOf <- OneSessionPerMember
    AuthTicks = 2
    ClaimTicks = 2
    StaleTicks = 2
    WindowTicks = 3
    MaxPolicyRev = 0
    MaxAssignment = 0
    SenderMayChange = FALSE
    MaxFaults = 2
SPECIFICATION LiveSpec
INVARIANTS TruthfulOutcome OutcomeAgreement ReclaimedNeverSent
PROPERTIES Refines EventuallySettled
