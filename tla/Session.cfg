\* Steps of time 1 to 3, three sessions, two challenges of two attempts, one recovery
\* code per set, two enrolments, two changes of credentials.
CONSTANTS
    None = None
    Logins = {l1}
    Sessions = {s1, s2, s3}
    Codes = {1}
    MaxAttempts = 2
    ReauthLife = 1
    MaxNow = 3
    MaxIssued = 2
    MaxSecrets = 2
    MaxRevision = 3
SPECIFICATION Spec
INVARIANTS EachProofOnce GuessesBounded
PROPERTIES OnlyLatestChallenge CredentialChangeEndsSessions
SYMMETRY Symmetry
CHECK_DEADLOCK FALSE
