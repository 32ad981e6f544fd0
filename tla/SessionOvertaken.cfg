\* A login that a change of credentials overtakes while it waits for the user's row.
CONSTANTS
    None = None
    Logins = {l1}
    Sessions = {s1, s2}
    Codes = {1}
    MaxAttempts = 2
    ReauthLife = 1
    MaxNow = 2
    MaxIssued = 2
    MaxSecrets = 1
    MaxRevision = 3
SPECIFICATION Spec
PROPERTY LoginsSeeTheChange
