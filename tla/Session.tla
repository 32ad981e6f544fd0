------------------------------- MODULE Session -------------------------------
(***************************************************************************)
(* One user's credentials, challenges and sessions: login with a password  *)
(* and, when a factor is confirmed, a second step; password reset and      *)
(* email verification; reauthentication; enrolling, confirming, disabling  *)
(* the factor and renewing recovery codes.  Sources: identity, challenge,  *)
(* checkFactor, recovery and rotate in identity/auth.go, authenticate,     *)
(* session, Run and recent in identity/service.go.                         *)
(*                                                                         *)
(* Every transaction locks the user's row before it reads what it checks   *)
(* and keeps it, so it is one action. Login alone is two: the statement    *)
(* that waits for the row has the password and the factor of its snapshot, *)
(* and after the wait only the user's row is read again. A row that is     *)
(* revoked, consumed or expired never counts again and is removed. `now`   *)
(* counts the thirty seconds of a TOTP step. Mail, rate limits and         *)
(* organizations are elsewhere. XMutant before X is a plausible bug in X.  *)
(***************************************************************************)
EXTENDS Integers, FiniteSets

CONSTANTS
    None,
    Logins,          \* login requests in flight
    Sessions,        \* ids of sessions rows
    Codes,           \* recovery codes in one set (ten in the code)
    MaxAttempts,     \* attempts per challenge: 8
    ReauthLife,      \* steps within which a reauthentication is recent
    MaxNow,          \* bound on time
    MaxIssued,       \* bound on the number of challenges
    MaxSecrets,      \* bound on enrolments
    MaxRevision      \* bound on the authentication revision

ASSUME SessionAssumption ==
    /\ None \notin Int
    /\ MaxAttempts \in Nat /\ ReauthLife \in Nat /\ MaxNow \in Nat
    /\ MaxIssued \in Nat /\ MaxSecrets \in Nat /\ MaxRevision \in Nat

VARIABLES
    now,          \* the current TOTP step
    user,         \* users and password_identities: auth_revision, the password (named
                  \* by the revision it came with), whether its hash has parameters
                  \* of the past, verified
    factor,       \* auth_factors: the secret, whether confirmed, last_step
    recovery,     \* auth_recovery_codes not consumed
    challenge,    \* auth_challenges that are open
    session,      \* sessions that are neither revoked nor expired
    login,        \* what a waiting login has read
    issued,       \* challenges issued so far
    secrets,      \* secrets generated so far
    spent,        \* history: proofs that were accepted
    doubled       \* history: proofs that were accepted again

vars == <<now, user, factor, recovery, challenge, session, login, issued, secrets, spent, doubled>>

Kind == {"LOGIN_MFA", "PASSWORD_RESET", "EMAIL_VERIFY"}

\* Proofs: a TOTP code stands for its secret and its step, a recovery code for
\* the revision that its set came with, a challenge for its number.
Totp(secret, step) == [kind |-> "totp", of |-> secret, no |-> step]
RecoverySet(revision) == {[kind |-> "recovery", of |-> revision, no |-> k] : k \in Codes}
Token(c) == [kind |-> "challenge", of |-> c.kind, no |-> c.no]

NoFactor == [secret |-> 0, state |-> "NONE", last |-> -1]

Init ==
    /\ now = 1
    /\ \E old \in BOOLEAN : user = [revision |-> 1, password |-> 1, outdated |-> old, verified |-> FALSE]
    /\ factor = NoFactor /\ recovery = {}
    /\ challenge = {} /\ session = [s \in Sessions |-> None]
    /\ login = [l \in Logins |-> None]
    /\ issued = 0 /\ secrets = 0
    /\ spent = {} /\ doubled = {}

------------------------------------------------------------------------------
(* Building blocks *)

Confirmed == factor.state = "CONFIRMED"
Accept(proofs) == /\ spent' = spent \cup proofs
                  /\ doubled' = doubled \cup (spent \cap proofs)

\* A new challenge revokes the open ones of its kind.
ReplacedMutant(kind) == challenge
Replaced(kind) == {c \in challenge : c.kind # kind}
Issue(kind) ==
    /\ issued < MaxIssued
    /\ issued' = issued + 1
    /\ challenge' = Replaced(kind) \cup
          {[kind |-> kind, no |-> issued + 1, attempts |-> 0, tried |-> 0, under |-> user.revision]}

\* Every change of credentials closes the second steps of logins under way.
WithoutLogins(cs) == {c \in cs : c.kind # "LOGIN_MFA"}

Live(s) == session[s] # None /\ session[s].revision = user.revision
Recent(s) == now - session[s].reauth <= ReauthLife

Row(revision, reauth) == [revision |-> revision, reauth |-> reauth]
NewSession(s) == session[s] = None /\ session' = [session EXCEPT ![s] = Row(user.revision, now)]

\* rotate: the session is revoked and another one takes its place.
Rotated(s, t, revision, reauth) ==
    /\ session[t] = None
    /\ session' = [session EXCEPT ![s] = None, ![t] = Row(revision, reauth)]

\* The steps whose codes checkFactor accepts.
FreshMutant(k) == k >= factor.last
Fresh(k) == k > factor.last
Checked(proof) ==
    \/ \E k \in now - 1 .. now + 1 :
          /\ Fresh(k) /\ proof = Totp(factor.secret, k)
          /\ factor' = [factor EXCEPT !.last = k]
          /\ UNCHANGED recovery
    \/ /\ proof \in recovery
       /\ recovery' = recovery \ {proof}
       /\ UNCHANGED factor

Proofs == {Totp(factor.secret, k) : k \in now - 1 .. now + 1} \cup recovery

------------------------------------------------------------------------------
(* Login *)

LoginReads(l) ==
    /\ login[l] = None
    /\ login' = [login EXCEPT ![l] = [mfa |-> Confirmed, password |-> user.password,
                                      outdated |-> user.outdated]]
    /\ UNCHANGED <<now, user, factor, recovery, challenge, session, issued, secrets, spent, doubled>>

\* The password was right as the statement found it; the row is this login's.  A
\* hash with parameters of the past is made anew, of the password just verified.
Rehashed(l) == IF login[l].outdated
               THEN [user EXCEPT !.password = login[l].password, !.outdated = FALSE]
               ELSE user
LoginPasses(l) ==
    /\ login[l] # None
    /\ login' = [login EXCEPT ![l] = None]
    /\ user' = Rehashed(l)
    /\ IF login[l].mfa THEN Issue("LOGIN_MFA") /\ UNCHANGED session
                       ELSE (\E s \in Sessions : NewSession(s)) /\ UNCHANGED <<challenge, issued>>
    /\ UNCHANGED <<now, factor, recovery, secrets, spent, doubled>>

\* Another password, or no lock in time.
LoginFails(l) ==
    /\ login[l] # None
    /\ login' = [login EXCEPT ![l] = None]
    /\ UNCHANGED <<now, user, factor, recovery, challenge, session, issued, secrets, spent, doubled>>

\* An open challenge that has attempts left.
Presentable(c, kind) == c.kind = kind /\ c.attempts < MaxAttempts

Consumed(c) == challenge \ {c}

MfaPasses(c, proof) ==
    /\ Presentable(c, "LOGIN_MFA") /\ Confirmed
    /\ Checked(proof)
    /\ Accept({proof, Token(c)})
    /\ challenge' = Consumed(c)
    /\ \E s \in Sessions : NewSession(s)
    /\ UNCHANGED <<now, user, login, issued, secrets>>

\* A refused code is committed: Run keeps the counter of a failed second step.
CountedMutant(c) == [c EXCEPT !.tried = @ + 1]
Counted(c) == [c EXCEPT !.attempts = @ + 1, !.tried = @ + 1]
MfaFails(c) ==
    /\ Presentable(c, "LOGIN_MFA")
    /\ challenge' = Consumed(c) \cup {Counted(c)}
    /\ UNCHANGED <<now, user, factor, recovery, session, login, issued, secrets, spent, doubled>>

------------------------------------------------------------------------------
(* Reset and verification *)

ResetRequest ==
    /\ Issue("PASSWORD_RESET")
    /\ UNCHANGED <<now, user, factor, recovery, session, login, secrets, spent, doubled>>

VerifyRequest ==
    /\ ~user.verified
    /\ Issue("EMAIL_VERIFY")
    /\ UNCHANGED <<now, user, factor, recovery, session, login, secrets, spent, doubled>>

ResetComplete(c) ==
    /\ Presentable(c, "PASSWORD_RESET") /\ user.revision < MaxRevision
    /\ user' = [user EXCEPT !.password = user.revision + 1, !.outdated = FALSE, !.revision = @ + 1]
    /\ session' = [s \in Sessions |-> None]
    /\ challenge' = WithoutLogins(Consumed(c))
    /\ Accept({Token(c)})
    /\ UNCHANGED <<now, factor, recovery, login, issued, secrets>>

VerifyComplete(c) ==
    /\ Presentable(c, "EMAIL_VERIFY")
    /\ user' = [user EXCEPT !.verified = TRUE]
    /\ challenge' = Consumed(c)
    /\ Accept({Token(c)})
    /\ UNCHANGED <<now, factor, recovery, session, login, issued, secrets>>

------------------------------------------------------------------------------
(* Authenticated requests: the session is live under the user's row lock *)

Select(s, t) ==
    /\ Live(s) /\ Rotated(s, t, user.revision, session[s].reauth)
    /\ UNCHANGED <<now, user, factor, recovery, challenge, login, issued, secrets, spent, doubled>>

Logout(s) ==
    /\ Live(s) /\ session' = [session EXCEPT ![s] = None]
    /\ UNCHANGED <<now, user, factor, recovery, challenge, login, issued, secrets, spent, doubled>>

RevokeOne(s, t) ==
    /\ Live(s) /\ Recent(s) /\ session[t] # None
    /\ session' = [session EXCEPT ![t] = None]
    /\ UNCHANGED <<now, user, factor, recovery, challenge, login, issued, secrets, spent, doubled>>

RevokeOthers(s) ==
    /\ Live(s) /\ Recent(s)
    /\ session' = [t \in Sessions |-> IF t = s THEN session[t] ELSE None]
    /\ UNCHANGED <<now, user, factor, recovery, challenge, login, issued, secrets, spent, doubled>>

\* The password, and with a factor also a code.
Reauth(s, t) ==
    /\ Live(s) /\ Rotated(s, t, user.revision, now)
    /\ IF Confirmed THEN \E proof \in Proofs : Checked(proof) /\ Accept({proof})
                    ELSE UNCHANGED <<factor, recovery, spent, doubled>>
    /\ UNCHANGED <<now, user, challenge, login, issued, secrets>>

Enroll(s) ==
    /\ Live(s) /\ Recent(s) /\ ~Confirmed /\ secrets < MaxSecrets
    /\ secrets' = secrets + 1
    /\ factor' = [secret |-> secrets + 1, state |-> "PENDING", last |-> -1]
    /\ UNCHANGED <<now, user, recovery, challenge, session, login, issued, spent, doubled>>

\* What confirming, disabling and renewing have in common.
BumpedMutant(r) == r
Bumped(r) == r + 1
ChangeCredentials(s, t) ==
    /\ Live(s) /\ Recent(s) /\ user.revision < MaxRevision
    /\ user' = [user EXCEPT !.revision = Bumped(@)]
    /\ challenge' = WithoutLogins(challenge)
    /\ Rotated(s, t, Bumped(user.revision), session[s].reauth)
    /\ UNCHANGED <<now, login, issued, secrets>>

Confirm(s, t) ==
    /\ factor.state = "PENDING"
    /\ ChangeCredentials(s, t)
    /\ factor' = [factor EXCEPT !.state = "CONFIRMED", !.last = now]
    /\ recovery' = RecoverySet(user.revision)
    /\ Accept({Totp(factor.secret, now)})

Disable(s, t) ==
    /\ Confirmed /\ ChangeCredentials(s, t)
    /\ factor' = NoFactor /\ recovery' = {}
    /\ UNCHANGED <<spent, doubled>>

Renew(s, t) ==
    /\ Confirmed /\ ChangeCredentials(s, t)
    /\ recovery' = RecoverySet(user.revision)
    /\ UNCHANGED <<factor, spent, doubled>>

------------------------------------------------------------------------------
(* Time *)

Tick ==
    /\ now < MaxNow /\ now' = now + 1
    /\ UNCHANGED <<user, factor, recovery, challenge, session, login, issued, secrets, spent, doubled>>

\* Lifetimes end at any moment; nothing needs them to end in time.
Expire ==
    /\ \/ \E s \in Sessions : /\ session[s] # None /\ session' = [session EXCEPT ![s] = None]
                              /\ UNCHANGED challenge
       \/ \E c \in challenge : challenge' = challenge \ {c} /\ UNCHANGED session
    /\ UNCHANGED <<now, user, factor, recovery, login, issued, secrets, spent, doubled>>

Next ==
    \/ \E l \in Logins : LoginReads(l) \/ LoginPasses(l) \/ LoginFails(l)
    \/ \E c \in challenge :
          \/ Confirmed /\ \E proof \in Proofs : MfaPasses(c, proof)
          \/ MfaFails(c) \/ ResetComplete(c) \/ VerifyComplete(c)
    \/ ResetRequest \/ VerifyRequest
    \/ \E s \in Sessions :
          \/ Logout(s) \/ RevokeOthers(s) \/ Enroll(s)
          \/ \E t \in Sessions : \/ Select(s, t) \/ RevokeOne(s, t) \/ Reauth(s, t)
                                 \/ Confirm(s, t) \/ Disable(s, t) \/ Renew(s, t)
    \/ Tick \/ Expire

Spec == Init /\ [][Next]_vars

------------------------------------------------------------------------------
(* Properties *)

\* No code and no challenge is accepted twice, in a second step, at
\* reauthentication or while confirming the factor, however often it is presented
\* and through whatever disabling, enrolling and renewing came in between
\* (auth.go:150-167, 253-259, 429-433).
EachProofOnce == doubled = {}

\* A challenge that completes anything is the latest of its kind, and that of a
\* second step was issued since the last change of credentials: no mail that a
\* later one has superseded, and no second step that was open when the password
\* was reset or the factor confirmed, disabled or renewed, can finish anything
\* (auth.go:104, 279, 443, 479).  What the login behind a second step had read is
\* another question, the next property's.
Latest(c) == /\ \A d \in challenge : d.kind = c.kind => d.no <= c.no
             /\ c.kind = "LOGIN_MFA" => c.under = user.revision
OnlyLatestChallenge ==
    [][\A c \in challenge : Token(c) \in spent' /\ Token(c) \notin spent => Latest(c)]_vars

\* "Reset and MFA changes invalidate global auth revision and pending login-MFA
\* proofs" (docs/24:28): who logs in past such a change has the present password
\* and, if there is a factor, a second step to take.  False of the code: a login
\* that waits for the user's row behind the change goes by the password and the
\* factor of its snapshot (auth.go:207) and gets a session or a second step of
\* the revision of afterwards; it may even put the old password back (auth.go:224).
LoginsSeeTheChange ==
    [][\A l \in Logins :
          LoginPasses(l) => login[l].password = user.password /\ login[l].mfa = Confirmed]_vars

\* Codes tried against one challenge, those refused included, never exceed its
\* attempts, because the refusals are committed (service.go:299-304).
GuessesBounded == \A c \in challenge : c.tried <= MaxAttempts /\ c.attempts <= c.tried

\* A change of credentials ends every session but the one it makes; a reset ends
\* all of them (auth.go:273-276, 440-446, 476-482).
CredentialChangeEndsSessions ==
    [][user'.revision # user.revision \/ Confirmed # Confirmed' =>
          /\ \A s \in Sessions : Live(s)' => session[s] = None
          /\ Cardinality({s \in Sessions : Live(s)'}) <= (IF user'.password # user.password THEN 0 ELSE 1)]_vars
==============================================================================
