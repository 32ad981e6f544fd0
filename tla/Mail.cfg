\* Two mails (resets, invitations and notices), two workers, two attempts each and three
\* in all, lost leases between any two statements and any number of crashes.
\* It stops when both mails are terminal and their time is over.
CONSTANTS
    Nil = Nil
    MailCount = 2
    MaxClaims = 3
    Requested = {"PASSWORD_RESET", "INVITATION"}
    Workers = {w1, w2}
    MaxAttempts = 2
    LifeTicks = 2
    LeaseTicks = 1
    RetryTicks = 0
SPECIFICATION Spec
SYMMETRY Symmetry
INVARIANTS AttemptsExplainDelivery AcceptanceNeverDenied ObsoleteNotSent
CHECK_DEADLOCK FALSE
