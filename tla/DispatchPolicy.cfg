\* Two intents of one phone, one worker, one agent; everything an authorization depends on may change
\* at any moment.
CONSTANTS
    Nil = Nil
    Margin = 1
    WarnBefore = 1
    Intents = {i1, i2}
    Authorizations = {a1, a2}
    Workers = {w1}
    Sessions = {s1}
    Members = {s1}
    Conversations = {c1}
    Phones = {c1}
    Texts = {t1}
    Keys = {k1, k2}
    PhoneOf <- OnePhonePerConversation
    ActorOf <- OneSessionPerMember
    AuthTicks = 2
    ClaimTicks = 2
    StaleTicks = 1
    WindowTicks = 3
    MaxPolicyRev = 2
    MaxAssignment = 1
    SenderMayChange = TRUE
    MaxFaults = 0
SPECIFICATION Spec
SYMMETRY Symmetry
INVARIANTS AtMostOneRequest WithdrawnNeverSent AuthorizationSpentOnce AuthorizationInsideWindow
