\* An accepted request whose worker was overtaken by recovery.
CONSTANTS
    Nil = Nil
    Margin = 1
    WarnBefore = 1
    Intents = {i1}
    Authorizations = {a1}
    Workers = {w1, w2}
    Sessions = {s1}
    Members = {s1}
    Conversations = {c1}
    Phones = {p1}
    Texts = {t1}
    Keys = {k1}
    PhoneOf <- SamePhone
    ActorOf <- OneSessionPerMember
    AuthTicks = 1
    ClaimTicks = 1
    StaleTicks = 1
    WindowTicks = 2
    MaxPolicyRev = 0
    MaxAssignment = 0
    SenderMayChange = FALSE
    MaxFaults = 0
SPECIFICATION Spec
PROPERTY LateAcceptanceReconciles
