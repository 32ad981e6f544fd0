--------------------------- MODULE IdentityProofs ---------------------------
(***************************************************************************)
(* Sessions.  Each proof is accepted once, refusals included in the count  *)
(* of a challenge, only the latest challenge completes anything and a      *)
(* change of credentials ends the other sessions: for any numbers of       *)
(* logins, sessions, codes and attempts, and without any bound on time.    *)
(*                                                                         *)
(* Access.  An organization keeps an owner, nobody writes with stale       *)
(* access, nobody gives what they do not hold and nobody enters but by the *)
(* invitation, for any users, roles, permissions and requests.  The        *)
(* argument: what a request has checked under the barrier is still true    *)
(* when it commits, because whoever else writes needs the barrier; what is *)
(* checked is enough for the tables that it then writes.                   *)
(***************************************************************************)
EXTENDS Session, Access, FiniteSetTheorems, TLAPS

------------------------------------------------------------------------------
(* Sessions *)

FactorType == [secret : Nat, state : {"NONE", "PENDING", "CONFIRMED"}, last : Int]
UserRow(u) == u \in [revision : Nat, password : {u.password}, outdated : {u.outdated},
                    verified : {u.verified}]
ChallengeType == [kind : Kind, no : Nat, attempts : Nat, tried : Nat, under : Nat]

Types ==
    /\ now \in Int /\ issued \in Nat /\ secrets \in Nat
    /\ UserRow(user)
    /\ factor \in FactorType
    /\ challenge \subseteq ChallengeType
    /\ session = [s \in Sessions |-> session[s]]
    /\ \A s \in Sessions : session[s] # None => session[s].revision \in Nat

\* What a spent proof can no longer be.
SpentTotp == \A p \in spent : p.kind = "totp" =>
    /\ p.of \in Nat /\ p.of <= secrets /\ p.no \in Int
    /\ factor.state # "NONE" /\ factor.secret = p.of => Confirmed /\ p.no <= factor.last
SpentRecovery == \A p \in spent : p.kind = "recovery" => /\ p.of \in Nat /\ p.of < user.revision
                                                         /\ p \notin recovery
SpentTokens == \A p \in spent : p.kind = "challenge" => /\ p.no \in Nat /\ p.no <= issued
                                                        /\ \A c \in challenge : p # Token(c)

\* What can still be presented.
Pending ==
    /\ factor.secret <= secrets
    /\ \A p \in recovery : p.kind = "recovery" /\ p.of \in Nat /\ p.of < user.revision
    /\ \A c \in challenge : /\ c.no <= issued /\ c.attempts = c.tried /\ c.tried <= MaxAttempts
                            /\ c.kind = "LOGIN_MFA" => c.under = user.revision
    /\ \A c, d \in challenge : c.kind = d.kind => c = d

\* No session is ahead of its user.
NotAhead == \A s \in Sessions : session[s] # None => session[s].revision <= user.revision

SInv == Types /\ SpentTotp /\ SpentRecovery /\ SpentTokens /\ Pending /\ NotAhead /\ EachProofOnce

------------------------------------------------------------------------------

\* A user without factor, challenge or session.
LEMMA SessionInit == Init => SInv
BY SessionAssumption DEF UserRow, Init, SInv, Types, SpentTotp, SpentRecovery, SpentTokens, Pending, NotAhead, EachProofOnce,
   NoFactor, FactorType

\* A code that checkFactor accepts was not accepted before, and is over.
LEMMA CheckedOnce ==
    ASSUME SInv, NEW proof, Confirmed, Checked(proof),
           \A p \in spent' : p \in spent \/ p = proof \/ p.kind = "challenge",
           UNCHANGED <<user, secrets>>
    PROVE  /\ proof \notin spent /\ proof.kind \in {"totp", "recovery"}
           /\ factor' \in FactorType /\ factor'.state = factor.state /\ factor'.secret = factor.secret
           /\ recovery' \subseteq recovery
           /\ SpentTotp' /\ SpentRecovery'
<1>1. factor \in FactorType /\ now \in Int /\ secrets \in Nat
  BY DEF SInv, Types, Confirmed
<1>2. CASE \E k \in now - 1 .. now + 1 : /\ Fresh(k) /\ proof = Totp(factor.secret, k)
                                         /\ factor' = [factor EXCEPT !.last = k]
                                         /\ UNCHANGED recovery
  <2>1. PICK k \in now - 1 .. now + 1 : /\ Fresh(k) /\ proof = Totp(factor.secret, k)
                                        /\ factor' = [factor EXCEPT !.last = k]
                                        /\ UNCHANGED recovery
    BY <1>2
  <2>2. k \in Int /\ k > factor.last /\ factor.last \in Int /\ factor.secret \in Nat
    BY <1>1, <2>1 DEF Fresh, FactorType
  <2>3. proof.kind = "totp" /\ proof.of = factor.secret /\ proof.no = k
    BY <2>1 DEF Totp
  <2>4. /\ factor' \in FactorType /\ factor'.secret = factor.secret /\ factor'.last = k
        /\ factor'.state = factor.state
    BY <1>1, <2>1, <2>2 DEF FactorType
  <2>6. proof \notin spent
    BY <1>1, <2>2, <2>3 DEF SInv, SpentTotp, Confirmed
  <2>7. SpentTotp'
    BY <1>1, <2>2, <2>3, <2>4 DEF SInv, SpentTotp, Confirmed, Pending
  <2>8. SpentRecovery'
    BY <2>1, <2>3 DEF SInv, SpentRecovery
  <2> QED BY <2>1, <2>3, <2>4, <2>6, <2>7, <2>8
<1>3. CASE proof \in recovery /\ recovery' = recovery \ {proof} /\ UNCHANGED factor
  <2>1. proof.kind = "recovery" /\ proof.of \in Nat /\ proof.of < user.revision
    BY <1>3 DEF SInv, Pending
  <2>2. proof \notin spent
    BY <1>3, <2>1 DEF SInv, SpentRecovery
  <2>3. SpentTotp' /\ SpentRecovery'
    BY <1>3, <2>1 DEF SInv, SpentTotp, SpentRecovery, Confirmed
  <2> QED BY <1>1, <1>3, <2>1, <2>2, <2>3
<1> QED BY <1>2, <1>3 DEF Checked

\* Steps that neither accept anything nor touch the factor.
LEMMA NothingAccepted ==
    ASSUME SInv, UNCHANGED <<factor, recovery, secrets, spent, doubled>>,
           UserRow(user'), user.revision <= user'.revision
    PROVE  SpentTotp' /\ SpentRecovery' /\ EachProofOnce'
           /\ \A p \in recovery' : p.kind = "recovery" /\ p.of \in Nat /\ p.of < user'.revision
BY DEF UserRow, SInv, Types, SpentTotp, SpentRecovery, EachProofOnce, Pending, Confirmed

\* Challenges that are a subset of those before, with the same user.
LEMMA FewerChallenges ==
    ASSUME SInv, challenge' \subseteq challenge, UNCHANGED <<issued, MaxAttempts>>,
           user'.revision = user.revision \/ \A c \in challenge' : c.kind # "LOGIN_MFA"
    PROVE  /\ challenge' \subseteq ChallengeType
           /\ \A c \in challenge' : /\ c.no <= issued' /\ c.attempts = c.tried /\ c.tried <= MaxAttempts
                                    /\ c.kind = "LOGIN_MFA" => c.under = user'.revision
           /\ \A c, d \in challenge' : c.kind = d.kind => c = d
BY DEF SInv, Types, Pending

\* A new challenge takes the place of its kind's.
LEMMA IssueStep ==
    ASSUME SInv, NEW kind \in Kind, Issue(kind), UNCHANGED spent, user'.revision = user.revision
    PROVE  /\ challenge' \subseteq ChallengeType /\ issued' \in Nat
           /\ \A c \in challenge' : /\ c.no <= issued' /\ c.attempts = c.tried /\ c.tried <= MaxAttempts
                                    /\ c.kind = "LOGIN_MFA" => c.under = user'.revision
           /\ \A c, d \in challenge' : c.kind = d.kind => c = d
           /\ SpentTokens'
<1> DEFINE new == [kind |-> kind, no |-> issued + 1, attempts |-> 0, tried |-> 0, under |-> user.revision]
<1>1. /\ issued \in Nat /\ user.revision \in Nat /\ MaxAttempts \in Nat /\ challenge \subseteq ChallengeType
      /\ \A c \in challenge : c.no \in Nat
  BY SessionAssumption DEF UserRow, SInv, Types, ChallengeType
<1>2. challenge' = Replaced(kind) \cup {new} /\ issued' = issued + 1
  BY DEF Issue
<1>3. new \in ChallengeType
  BY <1>1 DEF ChallengeType
<1>4. /\ new.kind = kind /\ new.no = issued + 1 /\ new.attempts = 0 /\ new.tried = 0
      /\ new.under = user.revision /\ Token(new).no = issued + 1
  BY DEF Token
<1> HIDE DEF new
<1>5. \A c \in Replaced(kind) : c \in challenge /\ c.kind # kind
  BY DEF Replaced
<1>6. \A p \in spent : p.kind = "challenge" => p.no \in Nat /\ p.no <= issued
  BY DEF SInv, SpentTokens
<1>7. SpentTokens'
  BY <1>1, <1>2, <1>4, <1>5, <1>6 DEF SInv, SpentTokens, Token
<1>8. challenge' \subseteq ChallengeType
  BY <1>1, <1>2, <1>3, <1>5
<1>9. \A c, d \in challenge' : c.kind = d.kind => c = d
  BY <1>2, <1>4, <1>5 DEF SInv, Pending
<1>10. \A c \in challenge' : /\ c.no <= issued' /\ c.attempts = c.tried /\ c.tried <= MaxAttempts
                             /\ c.kind = "LOGIN_MFA" => c.under = user'.revision
  BY <1>1, <1>2, <1>4, <1>5 DEF SInv, Pending
<1> QED BY <1>1, <1>2, <1>7, <1>8, <1>9, <1>10

\* Sessions that are gone, kept, or made now at the user's revision.
LEMMA SessionRows ==
    ASSUME SInv, NEW r \in Nat, user'.revision = r, user.revision <= r,
           session' = [s \in Sessions |-> session'[s]],
           \A s \in Sessions : session'[s] \in {None, session[s]} \/ session'[s].revision = r
    PROVE  NotAhead' /\ \A s \in Sessions : session'[s] # None => session'[s].revision \in Nat
BY DEF UserRow, SInv, Types, NotAhead

------------------------------------------------------------------------------
(* The steps *)

\* Time passes, a login reads or fails, or sessions come and go.
LEMMA QuietSteps ==
    ASSUME SInv, UNCHANGED <<factor, recovery, challenge, issued, secrets, spent, doubled>>,
           UserRow(user'), user'.revision = user.revision,
           now' \in Int, session' = [s \in Sessions |-> session'[s]],
           \A s \in Sessions : session'[s] \in {None, session[s]} \/ session'[s].revision = user.revision
    PROVE  SInv'
<1>1. user.revision \in Nat /\ UserRow(user) /\ user.revision <= user.revision
  BY DEF SInv, Types, UserRow
<1>2. SpentTotp' /\ SpentRecovery' /\ EachProofOnce'
  BY <1>1, NothingAccepted
<1>3. NotAhead' /\ \A s \in Sessions : session'[s] # None => session'[s].revision \in Nat
  BY <1>1, SessionRows
<1>4. SpentTokens' /\ Pending'
  BY DEF SInv, SpentTokens, Pending
<1> QED BY <1>2, <1>3, <1>4 DEF SInv, Types

\* A challenge is issued.
LEMMA IssueSteps ==
    ASSUME SInv, NEW kind \in Kind, Issue(kind),
           UNCHANGED <<now, factor, recovery, session, secrets, spent, doubled>>,
           UserRow(user'), user'.revision = user.revision
    PROVE  SInv'
<1>1. user.revision \in Nat /\ UserRow(user) /\ user.revision <= user.revision
  BY DEF SInv, Types, UserRow
<1>2. SpentTotp' /\ SpentRecovery' /\ EachProofOnce'
  BY <1>1, NothingAccepted
<1>3. /\ challenge' \subseteq ChallengeType /\ issued' \in Nat /\ SpentTokens'
      /\ \A c \in challenge' : /\ c.no <= issued' /\ c.attempts = c.tried /\ c.tried <= MaxAttempts
                               /\ c.kind = "LOGIN_MFA" => c.under = user'.revision
      /\ \A c, d \in challenge' : c.kind = d.kind => c = d
  BY IssueStep
<1>4. Pending' /\ NotAhead'
  BY <1>3 DEF SInv, Pending, NotAhead
<1> QED BY <1>2, <1>3, <1>4 DEF SInv, Types

\* Challenges go without being accepted.
LEMMA ChallengeExpires ==
    ASSUME SInv, NEW c \in challenge, challenge' = challenge \ {c},
           UNCHANGED <<now, user, factor, recovery, session, issued, secrets, spent, doubled>>
    PROVE  SInv'
<1>1. user.revision \in Nat /\ UserRow(user) /\ user.revision <= user.revision
  BY DEF SInv, Types, UserRow
<1>2. SpentTotp' /\ SpentRecovery' /\ EachProofOnce'
  BY <1>1, NothingAccepted
<1>3. /\ challenge' \subseteq challenge
  OBVIOUS
<1>4. SpentTokens' /\ Pending' /\ NotAhead'
  BY <1>3 DEF SInv, SpentTokens, Pending, NotAhead
<1> QED BY <1>2, <1>3, <1>4 DEF SInv, Types

\* A refused code counts twice: for the row and for the history.
LEMMA MfaFailsStep ==
    ASSUME SInv, NEW c \in challenge, MfaFails(c)
    PROVE  SInv'
<1> DEFINE new == Counted(c)
<1>1. user.revision \in Nat /\ UserRow(user) /\ user.revision <= user.revision
  BY DEF SInv, Types, UserRow
<1>2. SpentTotp' /\ SpentRecovery' /\ EachProofOnce'
  BY <1>1, NothingAccepted DEF MfaFails
<1>3. /\ c \in ChallengeType /\ c.attempts \in Nat /\ c.tried = c.attempts /\ c.attempts < MaxAttempts
      /\ MaxAttempts \in Nat
  BY SessionAssumption DEF SInv, Types, Pending, ChallengeType, MfaFails, Presentable
<1>4. /\ new \in ChallengeType /\ new.kind = c.kind /\ new.no = c.no /\ new.under = c.under
      /\ new.attempts = c.attempts + 1 /\ new.tried = c.attempts + 1
  <2>1. c.attempts + 1 \in Nat /\ c.tried + 1 = c.attempts + 1
    BY <1>3
  <2>2. new = [c EXCEPT !.attempts = c.attempts + 1, !.tried = c.tried + 1]
    BY DEF Counted
  <2> QED BY <1>3, <2>1, <2>2 DEF ChallengeType
<1>5. Token(new) = Token(c)
  BY <1>4 DEF Token
<1>6. challenge' = (challenge \ {c}) \cup {new}
  BY DEF MfaFails, Consumed
<1> HIDE DEF new
<1>7. SpentTokens'
  BY <1>5, <1>6 DEF MfaFails, SInv, SpentTokens, Token
<1>8. challenge' \subseteq ChallengeType
  BY <1>4, <1>6 DEF SInv, Types
<1>9. Pending'
  <2>1. \A d \in challenge' : /\ d.no <= issued /\ d.attempts = d.tried /\ d.tried <= MaxAttempts
                              /\ d.kind = "LOGIN_MFA" => d.under = user.revision
    BY <1>3, <1>4, <1>6 DEF SInv, Pending
  <2>2. \A d, e \in challenge' : d.kind = e.kind => d = e
    BY <1>4, <1>6 DEF SInv, Pending
  <2> QED BY <2>1, <2>2 DEF SInv, Pending, MfaFails
<1> QED BY <1>2, <1>7, <1>8, <1>9 DEF SInv, Types, NotAhead, MfaFails

\* Accepting a challenge, alone or with a code: it was open, hence not spent.
LEMMA TokenOnce ==
    ASSUME SInv, NEW c \in challenge, challenge' \subseteq challenge \ {c},
           \A p \in spent' : p \in spent \/ p = Token(c) \/ p.kind # "challenge",
           UNCHANGED issued
    PROVE  Token(c) \notin spent /\ Token(c).kind = "challenge" /\ SpentTokens'
<1>1. Token(c) = [kind |-> "challenge", of |-> c.kind, no |-> c.no] /\ Token(c).kind = "challenge"
      /\ Token(c).of = c.kind /\ Token(c).no = c.no
  BY DEF Token
<1>2. Token(c) \notin spent
  BY <1>1 DEF SInv, SpentTokens
<1>3. c.no \in Nat /\ c.no <= issued
  BY DEF SInv, Types, ChallengeType, Pending
<1>4. \A d \in challenge' : d \in challenge /\ d.kind # c.kind
  BY DEF SInv, Pending
<1>5. \A d \in challenge' : Token(d) # Token(c)
  BY <1>4, <1>1 DEF Token
<1> QED BY <1>1, <1>2, <1>3, <1>4, <1>5 DEF SInv, SpentTokens, Token

\* The second step of a login.
LEMMA MfaPassesStep ==
    ASSUME SInv, NEW c \in challenge, NEW proof, MfaPasses(c, proof)
    PROVE  SInv'
<1>1. user.revision \in Nat /\ UserRow(user) /\ user.revision <= user.revision
  BY DEF SInv, Types, UserRow
<1>2. /\ Confirmed /\ Checked(proof) /\ UNCHANGED <<now, user, login, issued, secrets>>
      /\ spent' = spent \cup {proof, Token(c)} /\ doubled' = doubled \cup (spent \cap {proof, Token(c)})
      /\ challenge' = challenge \ {c}
  BY DEF MfaPasses, Accept, Consumed
<1>3. PICK s \in Sessions : NewSession(s)
  BY DEF MfaPasses
<1>4. Token(c).kind = "challenge"
  BY DEF Token
<1>5. /\ proof \notin spent /\ proof.kind \in {"totp", "recovery"}
      /\ factor' \in FactorType /\ factor'.state = factor.state /\ factor'.secret = factor.secret
      /\ recovery' \subseteq recovery /\ SpentTotp' /\ SpentRecovery'
  <2>1. \A p \in spent' : p \in spent \/ p = proof \/ p.kind = "challenge"
    BY <1>2, <1>4
  <2> QED BY <1>2, <2>1, CheckedOnce
<1>6. Token(c) \notin spent /\ SpentTokens'
  <2>1. \A p \in spent' : p \in spent \/ p = Token(c) \/ p.kind # "challenge"
    BY <1>2, <1>5
  <2>2. challenge' \subseteq challenge \ {c}
    BY <1>2
  <2> QED BY <1>2, <2>1, <2>2, TokenOnce
<1>7. EachProofOnce'
  BY <1>2, <1>5, <1>6 DEF SInv, EachProofOnce
<1>8. NotAhead' /\ \A t \in Sessions : session'[t] # None => session'[t].revision \in Nat
  <2>1. /\ session' = [t \in Sessions |-> session'[t]]
        /\ \A t \in Sessions : session'[t] \in {None, session[t]} \/ session'[t].revision = user.revision
    BY <1>3 DEF NewSession, Row, SInv, Types
  <2> QED BY <1>1, <1>2, <2>1, SessionRows
<1>9. Pending'
  BY <1>2, <1>5 DEF SInv, Pending
<1>10. session' = [t \in Sessions |-> session'[t]]
  BY <1>3 DEF NewSession, SInv, Types
<1> QED BY <1>2, <1>5, <1>6, <1>7, <1>8, <1>9, <1>10 DEF SInv, Types

\* A code at reauthentication.
LEMMA ReauthStep ==
    ASSUME SInv, NEW s \in Sessions, NEW t \in Sessions, Reauth(s, t)
    PROVE  SInv'
<1>1. user.revision \in Nat /\ UserRow(user) /\ user.revision <= user.revision
  BY DEF SInv, Types, UserRow
<1>2. /\ session' = [n \in Sessions |-> session'[n]]
      /\ \A n \in Sessions : session'[n] \in {None, session[n]} \/ session'[n].revision = user.revision
  BY DEF Reauth, Rotated, Row, SInv, Types
<1>3. UNCHANGED <<now, user, challenge, login, issued, secrets>>
  BY DEF Reauth
<1>4. CASE ~Confirmed
  <2>1. UNCHANGED <<factor, recovery, spent, doubled>>
    BY <1>4 DEF Reauth
  <2> QED BY <1>2, <1>3, <2>1, QuietSteps DEF SInv, Types
<1>5. CASE Confirmed
  <2>1. PICK proof \in Proofs : Checked(proof) /\ Accept({proof})
    BY <1>5 DEF Reauth
  <2>2. /\ proof \notin spent /\ proof.kind \in {"totp", "recovery"}
        /\ factor' \in FactorType /\ factor'.state = factor.state /\ factor'.secret = factor.secret
        /\ recovery' \subseteq recovery /\ SpentTotp' /\ SpentRecovery'
    <3>1. \A p \in spent' : p \in spent \/ p = proof \/ p.kind = "challenge"
      BY <2>1 DEF Accept
    <3> QED BY <1>3, <1>5, <2>1, <3>1, CheckedOnce
  <2>3. spent' = spent \cup {proof} /\ doubled' = doubled \cup (spent \cap {proof})
    BY <2>1 DEF Accept
  <2>4. SpentTokens' /\ EachProofOnce'
    BY <1>3, <2>2, <2>3 DEF SInv, SpentTokens, EachProofOnce, Token
  <2>5. NotAhead' /\ \A n \in Sessions : session'[n] # None => session'[n].revision \in Nat
    BY <1>1, <1>2, <1>3, SessionRows
  <2>6. Pending'
    BY <1>3, <2>2 DEF SInv, Pending
  <2> QED BY <1>2, <1>3, <2>2, <2>4, <2>5, <2>6 DEF SInv, Types
<1> QED BY <1>4, <1>5

\* A token that completes a reset or a verification.
LEMMA CompleteStep ==
    ASSUME SInv, NEW c \in challenge, ResetComplete(c) \/ VerifyComplete(c)
    PROVE  SInv'
<1>1. /\ UserRow(user') /\ user.revision <= user'.revision /\ user'.revision \in Nat
      /\ user'.revision = user.revision \/ \A d \in challenge' : d.kind # "LOGIN_MFA"
  <2>1. UserRow(user) /\ user.revision \in Nat
    BY DEF UserRow, SInv, Types
  <2>2. CASE ResetComplete(c)
    <3>1. user' = [user EXCEPT !.password = user.revision + 1, !.outdated = FALSE,
                               !.revision = user.revision + 1]
      BY <2>2 DEF ResetComplete
    <3>2. user.revision + 1 \in Nat
      BY <2>1
    <3>3. UserRow(user') /\ user'.revision = user.revision + 1
      BY <2>1, <3>1, <3>2 DEF UserRow
    <3>4. \A d \in challenge' : d.kind # "LOGIN_MFA"
      BY <2>2 DEF ResetComplete, WithoutLogins
    <3> QED BY <2>1, <3>3, <3>4
  <2>3. CASE VerifyComplete(c)
    <3>1. user' = [user EXCEPT !.verified = TRUE]
      BY <2>3 DEF VerifyComplete
    <3>2. UserRow(user') /\ user'.revision = user.revision
      BY <2>1, <3>1 DEF UserRow
    <3> QED BY <2>1, <3>2
  <2> QED BY <2>2, <2>3
<1>2. /\ challenge' \subseteq challenge \ {c}
      /\ spent' = spent \cup {Token(c)} /\ doubled' = doubled \cup (spent \cap {Token(c)})
      /\ UNCHANGED <<now, factor, recovery, login, issued, secrets>>
  BY DEF ResetComplete, VerifyComplete, WithoutLogins, Consumed, Accept
<1>3. Token(c) \notin spent /\ Token(c).kind = "challenge" /\ SpentTokens'
  <2>1. \A p \in spent' : p \in spent \/ p = Token(c) \/ p.kind # "challenge"
    BY <1>2
  <2> QED BY <1>2, <2>1, TokenOnce
<1>4. SpentTotp' /\ SpentRecovery'
  BY <1>1, <1>2, <1>3 DEF UserRow, SInv, Types, SpentTotp, SpentRecovery, Confirmed
<1>5. EachProofOnce'
  BY <1>2, <1>3 DEF SInv, EachProofOnce
<1>6. Pending'
  <2>1. \A p \in recovery' : p.kind = "recovery" /\ p.of \in Nat /\ p.of < user'.revision
    BY <1>1, <1>2 DEF UserRow, SInv, Types, Pending
  <2>2. \A d \in challenge' : /\ d.no <= issued' /\ d.attempts = d.tried /\ d.tried <= MaxAttempts
                              /\ d.kind = "LOGIN_MFA" => d.under = user'.revision
    BY <1>1, <1>2 DEF SInv, Pending
  <2>3. \A d, e \in challenge' : d.kind = e.kind => d = e
    BY <1>2 DEF SInv, Pending
  <2> QED BY <1>2, <2>1, <2>2, <2>3 DEF SInv, Pending
<1>7. /\ session' = [n \in Sessions |-> session'[n]]
      /\ \A n \in Sessions : session'[n] \in {None, session[n]}
  BY DEF ResetComplete, VerifyComplete, SInv, Types
<1>8. NotAhead' /\ \A n \in Sessions : session'[n] # None => session'[n].revision \in Nat
  BY <1>1, <1>7, SessionRows
<1> QED BY <1>1, <1>2, <1>3, <1>4, <1>5, <1>6, <1>7, <1>8 DEF SInv, Types, UserRow

\* A new secret: nothing was accepted for it.
LEMMA EnrollStep ==
    ASSUME SInv, NEW s \in Sessions, Enroll(s)
    PROVE  SInv'
<1>1. /\ factor' = [secret |-> secrets + 1, state |-> "PENDING", last |-> -1] /\ secrets' = secrets + 1
      /\ UNCHANGED <<now, user, recovery, challenge, session, login, issued, spent, doubled>>
  BY DEF Enroll
<1>2. secrets \in Nat /\ factor' \in FactorType /\ factor'.secret = secrets + 1
  BY <1>1 DEF SInv, Types, FactorType
<1>3. SpentTotp'
  BY <1>1, <1>2 DEF SInv, SpentTotp
<1>4. SpentRecovery' /\ SpentTokens' /\ NotAhead' /\ EachProofOnce'
  BY <1>1 DEF SInv, SpentRecovery, SpentTokens, NotAhead, EachProofOnce
<1>5. Pending'
  BY <1>1, <1>2 DEF SInv, Pending
<1> QED BY <1>1, <1>2, <1>3, <1>4, <1>5 DEF SInv, Types

\* What a change of credentials leaves, whichever it is.
LEMMA ChangeStep ==
    ASSUME SInv, NEW s \in Sessions, NEW t \in Sessions, ChangeCredentials(s, t)
    PROVE  /\ UserRow(user') /\ user'.revision = user.revision + 1 /\ user.revision \in Nat
           /\ UNCHANGED <<now, login, issued, secrets>>
           /\ challenge' \subseteq challenge /\ challenge' \subseteq ChallengeType
           /\ \A c \in challenge' : c.kind # "LOGIN_MFA"
           /\ NotAhead' /\ session' = [n \in Sessions |-> session'[n]]
           /\ \A n \in Sessions : session'[n] # None => session'[n].revision \in Nat
<1>1. UserRow(user) /\ user.revision \in Nat /\ user.revision + 1 \in Nat
  BY DEF SInv, Types, UserRow
<1>2. user' = [user EXCEPT !.revision = @ + 1] /\ UNCHANGED <<now, login, issued, secrets>>
  BY DEF ChangeCredentials, Bumped
<1>3. UserRow(user') /\ user'.revision = user.revision + 1
  BY <1>1, <1>2 DEF UserRow
<1>4. challenge' \subseteq challenge /\ \A c \in challenge' : c.kind # "LOGIN_MFA"
  BY DEF ChangeCredentials, WithoutLogins
<1>5. /\ session' = [n \in Sessions |-> session'[n]]
      /\ \A n \in Sessions : session'[n] \in {None, session[n]} \/ session'[n].revision = user.revision + 1
  BY <1>1 DEF ChangeCredentials, Bumped, Rotated, Row, SInv, Types
<1>6. NotAhead' /\ \A n \in Sessions : session'[n] # None => session'[n].revision \in Nat
  <2>1. user.revision <= user.revision + 1
    BY <1>1
  <2> QED BY <1>1, <1>3, <1>5, <2>1, SessionRows
<1> QED BY <1>1, <1>2, <1>3, <1>4, <1>5, <1>6 DEF SInv, Types

\* Confirming, disabling and renewing.
LEMMA CredentialSteps ==
    ASSUME SInv, NEW s \in Sessions, NEW t \in Sessions, Confirm(s, t) \/ Disable(s, t) \/ Renew(s, t)
    PROVE  SInv'
<1>1. ChangeCredentials(s, t)
  BY DEF Confirm, Disable, Renew
<1>2. /\ UserRow(user') /\ user'.revision = user.revision + 1 /\ user.revision \in Nat
      /\ UNCHANGED <<now, login, issued, secrets>>
      /\ challenge' \subseteq challenge /\ challenge' \subseteq ChallengeType
      /\ \A c \in challenge' : c.kind # "LOGIN_MFA"
      /\ NotAhead' /\ session' = [n \in Sessions |-> session'[n]]
      /\ \A n \in Sessions : session'[n] # None => session'[n].revision \in Nat
  BY <1>1, ChangeStep
<1>3. factor \in FactorType /\ factor.secret \in Nat /\ now \in Int /\ secrets \in Nat /\ factor.secret <= secrets
  BY DEF SInv, Types, FactorType, Pending
\* What each of them does to the factor, the recovery codes and the histories.
<1>4. /\ factor' \in FactorType /\ factor'.secret <= secrets
      /\ \A p \in recovery' : p.kind = "recovery" /\ p.of \in Nat /\ p.of < user'.revision
      /\ SpentTotp' /\ SpentRecovery' /\ EachProofOnce'
      /\ \A p \in spent' : p \in spent \/ p.kind = "totp"
  <2>0. /\ \A p \in recovery : p.kind = "recovery" /\ p.of \in Nat /\ p.of < user.revision + 1
        /\ \A p \in RecoverySet(user.revision) : p.kind = "recovery" /\ p.of = user.revision
    BY <1>2 DEF SInv, Pending, RecoverySet
  <2>1. CASE Confirm(s, t)
    <3>1. /\ factor.state = "PENDING" /\ factor' = [factor EXCEPT !.state = "CONFIRMED", !.last = now]
          /\ recovery' = RecoverySet(user.revision)
          /\ spent' = spent \cup {Totp(factor.secret, now)}
          /\ doubled' = doubled \cup (spent \cap {Totp(factor.secret, now)})
      BY <2>1 DEF Confirm, Accept
    <3>2. /\ factor' \in FactorType /\ factor'.secret = factor.secret /\ factor'.last = now
          /\ factor'.state = "CONFIRMED"
      BY <1>3, <3>1 DEF FactorType
    <3> DEFINE code == Totp(factor.secret, now)
    <3>3. code.kind = "totp" /\ code.of = factor.secret /\ code.no = now
      BY DEF Totp
    <3>4. \A p \in spent : p.kind = "totp" => p.of # factor.secret
      BY <3>1 DEF SInv, SpentTotp, Confirmed
    <3>5. SpentTotp'
      <4> HIDE DEF code
      <4> QED BY <1>2, <1>3, <3>1, <3>2, <3>3, <3>4 DEF SInv, SpentTotp, Confirmed, code
    <3>6. SpentRecovery'
      <4>1. \A p \in spent : p.kind = "recovery" => p.of \in Nat /\ p.of < user.revision
        BY DEF SInv, SpentRecovery
      <4>2. \A p \in spent' : p.kind = "recovery" => p \in spent
        BY <3>1, <3>3
      <4> QED BY <1>2, <2>0, <3>1, <4>1, <4>2 DEF SpentRecovery
    <3>7. EachProofOnce'
      BY <3>1, <3>3, <3>4 DEF SInv, EachProofOnce
    <3> QED BY <1>2, <1>3, <2>0, <3>1, <3>2, <3>3, <3>5, <3>6, <3>7
  <2>2. CASE Disable(s, t)
    <3>1. /\ factor' = NoFactor /\ recovery' = {} /\ UNCHANGED <<spent, doubled>>
      BY <2>2 DEF Disable
    <3>2. factor' \in FactorType /\ factor'.secret = 0 /\ factor'.state = "NONE"
      BY <3>1 DEF NoFactor, FactorType
    <3> QED BY <1>2, <1>3, <3>1, <3>2 DEF SInv, SpentTotp, SpentRecovery, EachProofOnce
  <2>3. CASE Renew(s, t)
    <3>1. /\ UNCHANGED <<factor, spent, doubled>> /\ recovery' = RecoverySet(user.revision)
      BY <2>3 DEF Renew
    <3>2. SpentRecovery'
      BY <1>2, <2>0, <3>1 DEF SInv, SpentRecovery
    <3> QED BY <1>2, <1>3, <2>0, <3>1, <3>2 DEF SInv, SpentTotp, EachProofOnce, Confirmed
  <2> QED BY <2>1, <2>2, <2>3
<1>5. SpentTokens'
  BY <1>2, <1>4 DEF SInv, SpentTokens, Token
<1>6. Pending'
  <2>1. \A c \in challenge' : c.no <= issued /\ c.attempts = c.tried /\ c.tried <= MaxAttempts
    BY <1>2 DEF SInv, Pending
  <2>2. \A c, d \in challenge' : c.kind = d.kind => c = d
    BY <1>2 DEF SInv, Pending
  <2> QED BY <1>2, <1>4, <2>1, <2>2 DEF Pending
<1> QED BY <1>2, <1>3, <1>4, <1>5, <1>6 DEF SInv, Types, UserRow

\* Requests that only move session rows.
LEMMA SessionSteps ==
    ASSUME SInv, NEW s \in Sessions, NEW t \in Sessions,
           Select(s, t) \/ Logout(s) \/ RevokeOne(s, t) \/ RevokeOthers(s)
    PROVE  SInv'
<1>1. /\ UNCHANGED <<now, user, factor, recovery, challenge, issued, secrets, spent, doubled>>
      /\ session' = [n \in Sessions |-> session'[n]]
      /\ \A n \in Sessions : session'[n] \in {None, session[n]} \/ session'[n].revision = user.revision
  BY DEF Select, Logout, RevokeOne, RevokeOthers, Rotated, Row, SInv, Types
<1> QED BY <1>1, QuietSteps DEF SInv, Types

\* A new hash changes no revision.
LEMMA RehashedRow ==
    ASSUME SInv, NEW l \in Logins
    PROVE  UserRow(Rehashed(l)) /\ Rehashed(l).revision = user.revision
BY DEF SInv, Types, UserRow, Rehashed

\* A login that needs no second step makes a session, another one a challenge.
LEMMA LoginStep ==
    ASSUME SInv, NEW l \in Logins, LoginReads(l) \/ LoginPasses(l) \/ LoginFails(l)
    PROVE  SInv'
<1>1. CASE LoginPasses(l)
  <2>1. UserRow(user') /\ user'.revision = user.revision
    BY <1>1, RehashedRow DEF LoginPasses
  <2>2. CASE ~login[l].mfa
    <3>1. PICK s \in Sessions : NewSession(s)
      BY <1>1, <2>2 DEF LoginPasses
    <3>2. /\ UNCHANGED <<now, factor, recovery, challenge, issued, secrets, spent, doubled>>
          /\ session' = [n \in Sessions |-> session'[n]]
          /\ \A n \in Sessions : session'[n] \in {None, session[n]} \/ session'[n].revision = user.revision
      BY <1>1, <2>2, <3>1 DEF LoginPasses, NewSession, Row, SInv, Types
    <3> QED BY <2>1, <3>2, QuietSteps DEF SInv, Types
  <2>3. CASE login[l].mfa
    BY <1>1, <2>1, <2>3, IssueSteps DEF LoginPasses, Kind
  <2> QED BY <2>2, <2>3
<1>2. CASE LoginReads(l) \/ LoginFails(l)
  BY <1>2, QuietSteps DEF LoginReads, LoginFails, SInv, Types
<1> QED BY <1>1, <1>2

\* Every step preserves the invariant.
LEMMA SessionStepPreserves == SInv /\ [Next]_vars => SInv'
<1> SUFFICES ASSUME SInv, [Next]_vars PROVE SInv'
  OBVIOUS
<1>1. CASE UNCHANGED vars
  BY <1>1, QuietSteps DEF vars, SInv, Types
<1>2. CASE Tick
  BY <1>2, QuietSteps DEF Tick, SInv, Types
<1>3. CASE Expire
  <2>1. CASE \E c \in challenge : challenge' = challenge \ {c} /\ UNCHANGED session
    BY <1>3, <2>1, ChallengeExpires DEF Expire
  <2>2. CASE \E s \in Sessions : session' = [session EXCEPT ![s] = None] /\ UNCHANGED challenge
    BY <1>3, <2>2, QuietSteps DEF Expire, SInv, Types
  <2> QED BY <1>3, <2>1, <2>2 DEF Expire
<1>4. CASE ResetRequest \/ VerifyRequest
  <2>1. UserRow(user') /\ user'.revision = user.revision
    BY <1>4 DEF ResetRequest, VerifyRequest, SInv, Types
  <2> QED BY <1>4, <2>1, IssueSteps DEF ResetRequest, VerifyRequest, Kind
<1>5. CASE \E l \in Logins : LoginReads(l) \/ LoginPasses(l) \/ LoginFails(l)
  BY <1>5, LoginStep
<1>6. CASE \E c \in challenge : \/ Confirmed /\ \E proof \in Proofs : MfaPasses(c, proof)
                               \/ MfaFails(c) \/ ResetComplete(c) \/ VerifyComplete(c)
  BY <1>6, MfaPassesStep, MfaFailsStep, CompleteStep
<1>7. CASE \E s \in Sessions : Enroll(s)
  BY <1>7, EnrollStep
<1>8. CASE \E s, t \in Sessions : Select(s, t) \/ Logout(s) \/ RevokeOne(s, t) \/ RevokeOthers(s)
  BY <1>8, SessionSteps
<1>9. CASE \E s, t \in Sessions : Reauth(s, t)
  BY <1>9, ReauthStep
<1>10. CASE \E s, t \in Sessions : Confirm(s, t) \/ Disable(s, t) \/ Renew(s, t)
  BY <1>10, CredentialSteps
<1> QED BY <1>1, <1>2, <1>3, <1>4, <1>5, <1>6, <1>7, <1>8, <1>9, <1>10 DEF Next

------------------------------------------------------------------------------
(* What a change of credentials ends *)

CredentialsChange == user'.revision # user.revision \/ Confirmed # Confirmed'
OthersEnd ==
    /\ \A s \in Sessions : Live(s)' => session[s] = None
    /\ Cardinality({s \in Sessions : Live(s)'}) <= (IF user'.password # user.password THEN 0 ELSE 1)

\* At most one session is live after a change, and none after a reset.
LEMMA Few ==
    ASSUME NEW t \in Sessions, \A s \in Sessions : Live(s)' => s = t
    PROVE  Cardinality({s \in Sessions : Live(s)'}) <= 1
<1> DEFINE S == {s \in Sessions : Live(s)'}
<1>1. S \in SUBSET {t} OBVIOUS
<1> HIDE DEF S
<1>2. IsFiniteSet({t}) /\ Cardinality({t}) = 1 BY FS_Singleton
<1> QED BY <1>1, <1>2, FS_Subset DEF S

LEMMA ChangeEnds ==
    ASSUME SInv, NEW s \in Sessions, NEW t \in Sessions, ChangeCredentials(s, t)
    PROVE  OthersEnd
<1>1. /\ session[t] = None /\ session' = [session EXCEPT ![s] = None, ![t] = session'[t]]
      /\ session[s] # None
    BY DEF ChangeCredentials, Rotated, Live, SInv, Types
<1>2. user' = [user EXCEPT !.revision = user.revision + 1] /\ user.revision \in Nat
    BY DEF UserRow, ChangeCredentials, Bumped, SInv, Types
<1>3. user'.password = user.password /\ user'.revision = user.revision + 1
    BY <1>2 DEF SInv, Types
<1>4. ASSUME NEW n \in Sessions, n # t PROVE ~Live(n)'
    <2>1. session'[n] = None \/ session'[n] = session[n]
        BY <1>1, <1>4 DEF SInv, Types
    <2>2. CASE session'[n] = session[n] /\ session[n] # None
        <3>1. session[n].revision \in Nat /\ session[n].revision <= user.revision
            BY <2>2 DEF SInv, Types, NotAhead
        <3> QED BY <3>1, <2>2, <1>2, <1>3 DEF Live
    <2> QED BY <2>1, <2>2 DEF Live
<1>5. Cardinality({n \in Sessions : Live(n)'}) <= 1 BY <1>4, Few
<1> QED BY <1>1, <1>3, <1>4, <1>5 DEF OthersEnd

LEMMA ResetEnds ==
    ASSUME SInv, NEW c \in challenge, ResetComplete(c)
    PROVE  OthersEnd
<1>1. \A s \in Sessions : ~Live(s)' BY DEF ResetComplete, Live
<1>2. {s \in Sessions : Live(s)'} = {} BY <1>1
<1>3. Cardinality({s \in Sessions : Live(s)'}) = 0 BY <1>2, FS_EmptySet
<1> QED BY <1>1, <1>3 DEF OthersEnd

\* Nothing else changes the revision or confirms or drops a factor.
LEMMA NoChange ==
    ASSUME SInv, user'.revision = user.revision,
           \/ factor' = factor
           \/ \E k : factor' = [factor EXCEPT !.last = k]
           \/ ~Confirmed /\ factor'.state = "PENDING"
    PROVE  ~CredentialsChange
<1>1. factor'.state = factor.state \/ (~Confirmed /\ factor'.state = "PENDING")
    BY DEF SInv, Types, FactorType
<1> QED BY <1>1 DEF CredentialsChange, Confirmed

LEMMA StepEnds == SInv /\ [Next]_vars => (CredentialsChange => OthersEnd)
<1> SUFFICES ASSUME SInv, [Next]_vars PROVE CredentialsChange => OthersEnd OBVIOUS
<1>1. CASE UNCHANGED <<user, factor>> BY <1>1, NoChange
<1>2. ASSUME NEW c \in challenge, NEW proof, MfaPasses(c, proof) PROVE ~CredentialsChange
    BY <1>2, NoChange DEF MfaPasses, Checked
<1>3. ASSUME NEW c \in challenge, ResetComplete(c) PROVE OthersEnd BY <1>3, ResetEnds
<1>4. ASSUME NEW c \in challenge, VerifyComplete(c) PROVE ~CredentialsChange
    <2>1. user'.revision = user.revision /\ factor' = factor
        BY <1>4 DEF VerifyComplete, SInv, Types
    <2> QED BY <2>1, NoChange
<1>5. ASSUME NEW s \in Sessions, Enroll(s) PROVE ~CredentialsChange
    BY <1>5, NoChange DEF Enroll
<1>6. ASSUME NEW s \in Sessions, NEW t \in Sessions, Reauth(s, t) PROVE ~CredentialsChange
    BY <1>6, NoChange DEF Reauth, Checked
<1>7. ASSUME NEW s \in Sessions, NEW t \in Sessions, Confirm(s, t) \/ Disable(s, t) \/ Renew(s, t)
      PROVE  OthersEnd
    BY <1>7, ChangeEnds DEF Confirm, Disable, Renew
<1>8. CASE Next
    <2>1. CASE \E l \in Logins : LoginReads(l) \/ LoginPasses(l) \/ LoginFails(l)
        <3>1. user'.revision = user.revision /\ factor' = factor
            BY <2>1, RehashedRow DEF LoginReads, LoginPasses, LoginFails
        <3> QED BY <3>1, NoChange
    <2>2. CASE ResetRequest \/ VerifyRequest \/ Tick \/ Expire
        BY <2>2, <1>1 DEF ResetRequest, VerifyRequest, Tick, Expire
    <2>3. CASE \E c \in challenge :
                  \/ Confirmed /\ \E proof \in Proofs : MfaPasses(c, proof)
                  \/ MfaFails(c) \/ ResetComplete(c) \/ VerifyComplete(c)
        BY <2>3, <1>1, <1>2, <1>3, <1>4 DEF MfaFails
    <2>4. CASE \E s \in Sessions :
                  \/ Logout(s) \/ RevokeOthers(s) \/ Enroll(s)
                  \/ \E t \in Sessions : \/ Select(s, t) \/ RevokeOne(s, t) \/ Reauth(s, t)
                                         \/ Confirm(s, t) \/ Disable(s, t) \/ Renew(s, t)
        BY <2>4, <1>1, <1>5, <1>6, <1>7 DEF Logout, RevokeOthers, Select, RevokeOne
    <2> QED BY <1>8, <2>1, <2>2, <2>3, <2>4 DEF Next
<1> QED BY <1>1, <1>8 DEF vars

------------------------------------------------------------------------------
(* Theorems *)

\* The invariant holds in every reachable state.
THEOREM SessionInvariant == Spec => []SInv
BY SessionInit, SessionStepPreserves, PTL DEF Spec

\* No TOTP step, recovery code or challenge is accepted twice (auth.go:139-171).
THEOREM ProofsAcceptedOnce == Spec => []EachProofOnce
<1>1. SInv => EachProofOnce
  BY DEF SInv
<1> QED BY <1>1, SessionInvariant, PTL

\* Refusals are counted, so no challenge sees more codes than its attempts
\* (service.go:299-304).
THEOREM GuessesAreBounded == Spec => []GuessesBounded
<1>1. SInv => GuessesBounded
  BY DEF SInv, Types, Pending, GuessesBounded, ChallengeType
<1> QED BY <1>1, SessionInvariant, PTL

\* What completes is the latest of its kind, and a second step was issued since the
\* last change of credentials (auth.go:104, 279, 443, 479).
THEOREM LatestCompletes == Spec => OnlyLatestChallenge
<1>1. SInv => \A c \in challenge : Latest(c)
  BY DEF SInv, Types, Pending, Latest, ChallengeType
<1>2. SInv => [\A c \in challenge : Token(c) \in spent' /\ Token(c) \notin spent => Latest(c)]_vars
  BY <1>1
<1> QED BY <1>2, SessionInvariant, PTL DEF OnlyLatestChallenge

\* A change of credentials ends every session but the one it makes, a reset all of them
\* (auth.go:273-276, 440-446, 476-482).
THEOREM ChangesEndSessions == Spec => CredentialChangeEndsSessions
<1>1. SInv /\ [Next]_vars => [CredentialsChange => OthersEnd]_vars BY StepEnds
<1>2. CredentialChangeEndsSessions <=> [][CredentialsChange => OthersEnd]_vars
  BY DEF CredentialChangeEndsSessions, CredentialsChange, OthersEnd
<1> QED BY <1>1, <1>2, SessionInvariant, PTL DEF Spec

------------------------------------------------------------------------------
(* Access *)

MemberRow  == [status : {"NONE", "ACTIVE", "DEACTIVATED"}, revision : Nat, access : Nat]
Team == [members : SUBSET Users, roles : SUBSET Roles, archived : BOOLEAN, revision : Nat]
Link == [state : {"NONE", "PENDING", "REVOKED", "ACCEPTED"}, roles : SUBSET Roles,
         inviter : Users \cup {Nil}, token : Nat, revision : Nat, expired : BOOLEAN]

Tables ==
    /\ member \in [Users -> MemberRow]
    /\ grants \in [Users -> SUBSET Grant]
    /\ role \in [Roles -> [keys : SUBSET Keys, revision : Nat]]
    /\ team \in Team
    /\ invitation \in Link
    /\ invitation.state = "PENDING" => invitation.inviter \in Users

OnMember == StatusOp \cup {"member.roles", "team.add", "team.remove"}
Kinds == StatusOp \cup TeamOp \cup {"member.roles", "role.update", "invite", "invite.revoke", "invite.resend"}

\* What a request may carry, whatever has changed since it was sent.
Asks(op, mem) ==
    /\ op.kind \in Kinds
    /\ op.kind \in OnMember => op.who \in Users /\ mem[op.who].status # "NONE"
    /\ op.kind = "member.roles" => op.grants \in SUBSET Grant
    /\ op.kind = "role.update" => op.role \in Roles /\ op.keys \in SUBSET Keys
    /\ op.kind \in {"team.roles", "invite"} => op.roles \in SUBSET Roles

Requests ==
    /\ bound = [u \in Users |-> bound[u]]
    /\ request = [u \in Users |-> request[u]]
    /\ \A u \in Users : \/ request[u] = [pc |-> "idle"]
                        \/ /\ request[u] = [pc |-> request[u].pc, op |-> request[u].op]
                           /\ request[u].pc \in {"authenticated", "ready"}
                           /\ Asks(request[u].op, member)

Acceptances ==
    /\ acceptor = [a \in Acceptors |-> acceptor[a]]
    /\ \A a \in Acceptors :
          \/ acceptor[a] = [pc |-> "idle"]
          \/ /\ acceptor[a] = [pc |-> acceptor[a].pc, token |-> acceptor[a].token,
                               inviter |-> acceptor[a].inviter]
             /\ acceptor[a].pc \in {"read", "locked", "ready"}
             /\ acceptor[a].inviter \in Users

\* The barrier belongs to the one request or acceptance that is ready.
Exclusion ==
    /\ \A u \in Users : request[u].pc = "ready" <=> barrier = u
    /\ \A a \in Acceptors : acceptor[a].pc = "ready" <=> barrier = a

\* Members of the team are active, so that a reactivated member comes back with
\* nothing but the grants the ceiling was checked over.
TeamIsActive == \A v \in team.members : member[v].status = "ACTIVE"

\* What was checked under the barrier still holds.
CheckedUnderBarrier(u)    == Current(u) /\ Permitted(u, request[u].op)
Admissible(a) == /\ member[acceptor[a].inviter].status = "ACTIVE" /\ Delegated(acceptor[a].inviter)
                 /\ invitation.state = "PENDING" /\ invitation.token = acceptor[a].token
                 /\ member[Invitee].status = "NONE"

ChecksHold ==
    /\ \A u \in Users : request[u].pc = "ready" => CheckedUnderBarrier(u)
    /\ \A a \in Acceptors : acceptor[a].pc = "ready" => Admissible(a)

Inv == Tables /\ Requests /\ Acceptances /\ Exclusion /\ TeamIsActive /\ ChecksHold /\ OwnerRemains

------------------------------------------------------------------------------
(* What is checked does not depend on anything but the tables *)

\* The checks of a request stay true while nobody writes; that an invitation
\* expires only makes room for another one.
LEMMA PermittedStays ==
    ASSUME NEW u, NEW op, UNCHANGED <<member, grants, role, team>>,
           UNCHANGED <<invitation.state, invitation.roles, invitation.revision>>,
           invitation.expired => invitation'.expired,
           Permitted(u, op)
    PROVE  Permitted(u, op)'
BY DEF Permitted, Org, InTeam, May, Ceiling, RolesOf, StillOwned, Owners, MemberAfter, GrantsAfter, RoleAfter,
       Touched, TeamAfter, StatusOp, TeamOp

\* What a client may send.
LEMMA InputsAsk == ASSUME Tables, NEW op \in Inputs PROVE Asks(op, member)
BY AccessAssumption DEF Inputs, Asks, Tables, Kinds, OnMember, StatusOp, TeamOp

------------------------------------------------------------------------------
(* What a request writes *)

\* Statuses: only the target's moves.
LEMMA StatusAfter ==
    ASSUME Tables, NEW op, Asks(op, member), NEW v \in Users
    PROVE  /\ MemberAfter(op)[v] \in MemberRow
           /\ MemberAfter(op)[v].status =
                 IF op.kind = "deactivate" /\ v = op.who THEN "DEACTIVATED"
                 ELSE IF op.kind = "reactivate" /\ v = op.who THEN "ACTIVE" ELSE member[v].status
<1>1. member[v] \in MemberRow BY DEF Tables
<1>2. CASE op.kind \in StatusOp \cup {"member.roles"} /\ v = op.who
    BY <1>1, <1>2 DEF MemberAfter, StatusOp, MemberRow, Asks, OnMember
<1>3. CASE ~(op.kind \in StatusOp \cup {"member.roles"} /\ v = op.who)
    <2>1. MemberAfter(op)[v] \in {[member[v] EXCEPT !.access = @ + 1], member[v]}
        BY <1>3 DEF MemberAfter
    <2> QED BY <1>1, <1>3, <2>1 DEF MemberRow, StatusOp
<1> QED BY <1>2, <1>3

LEMMA TablesAfter ==
    ASSUME Tables, NEW op, Asks(op, member), NEW u \in Users
    PROVE  /\ MemberAfter(op) \in [Users -> MemberRow]
           /\ GrantsAfter(op) \in [Users -> SUBSET Grant]
           /\ RoleAfter(op) \in [Roles -> [keys : SUBSET Keys, revision : Nat]]
           /\ TeamAfter(op) \in Team
           /\ InvitationAfter(u, op) \in Link
           /\ InvitationAfter(u, op).state = "PENDING" => InvitationAfter(u, op).inviter \in Users
<1>1. MemberAfter(op) \in [Users -> MemberRow]
    <2>1. MemberAfter(op) = [v \in Users |-> MemberAfter(op)[v]] BY DEF MemberAfter
    <2> QED BY <2>1, StatusAfter
<1>2. GrantsAfter(op) \in [Users -> SUBSET Grant]
    BY DEF GrantsAfter, Asks, OnMember, Tables
<1>3. RoleAfter(op) \in [Roles -> [keys : SUBSET Keys, revision : Nat]]
    BY DEF RoleAfter, Asks, Tables
<1>4. TeamAfter(op) \in Team
    <2>1. team \in Team /\ team.revision + 1 \in Nat BY DEF Tables, Team
    <2>2. op.kind = "team.add" => TeamAfter(op) \in Team
        <3>1. [team EXCEPT !.members = @ \cup {op.who}, !.revision = @ + 1]
                = [team EXCEPT !.members = team.members \cup {op.who}, !.revision = team.revision + 1]
            BY <2>1 DEF Team
        <3>2. op.kind = "team.add" => team.members \cup {op.who} \in SUBSET Users
            BY <2>1 DEF Team, Asks, OnMember
        <3> QED BY <2>1, <3>1, <3>2 DEF TeamAfter, Team
    <2>3. op.kind = "team.remove" => TeamAfter(op) \in Team
        <3>1. [team EXCEPT !.members = @ \ {op.who}, !.revision = @ + 1]
                = [team EXCEPT !.members = team.members \ {op.who}, !.revision = team.revision + 1]
            BY <2>1 DEF Team
        <3>2. team.members \ {op.who} \in SUBSET Users BY <2>1 DEF Team
        <3> QED BY <2>1, <3>1, <3>2 DEF TeamAfter, Team
    <2>4. op.kind = "team.roles" => TeamAfter(op) \in Team
        <3>1. [team EXCEPT !.roles = op.roles, !.revision = @ + 1]
                = [team EXCEPT !.roles = op.roles, !.revision = team.revision + 1]
            BY <2>1 DEF Team
        <3>2. op.kind = "team.roles" => op.roles \in SUBSET Roles BY DEF Asks
        <3> QED BY <2>1, <3>1, <3>2 DEF TeamAfter, Team
    <2>5. op.kind = "team.archive" => TeamAfter(op) \in Team
        <3>1. [team EXCEPT !.archived = TRUE, !.revision = @ + 1]
                = [team EXCEPT !.archived = TRUE, !.revision = team.revision + 1]
            BY <2>1 DEF Team
        <3> QED BY <2>1, <3>1 DEF TeamAfter, Team
    <2>6. op.kind \notin TeamOp => TeamAfter(op) \in Team
        BY <2>1 DEF TeamAfter, TeamOp, Team
    <2> QED BY <2>2, <2>3, <2>4, <2>5, <2>6 DEF TeamOp
<1>5. InvitationAfter(u, op) \in Link
      /\ (InvitationAfter(u, op).state = "PENDING" => InvitationAfter(u, op).inviter \in Users)
    <2>1. /\ invitation \in Link /\ (invitation.state = "PENDING" => invitation.inviter \in Users)
          /\ invitation.revision + 1 \in Nat /\ invitation.token + 1 \in Nat
        BY DEF Tables, Link
    <2>2. CASE op.kind = "invite"
        <3>1. op.roles \in SUBSET Roles BY <2>2 DEF Asks
        <3> QED BY <2>1, <2>2, <3>1 DEF InvitationAfter, Link
    <2>3. CASE op.kind = "invite.revoke"
        <3>1. [invitation EXCEPT !.state = "REVOKED", !.revision = @ + 1]
                = [invitation EXCEPT !.state = "REVOKED", !.revision = invitation.revision + 1]
            BY <2>1 DEF Link
        <3> QED BY <2>1, <2>3, <3>1 DEF InvitationAfter, Link
    <2>4. CASE op.kind = "invite.resend"
        <3>1. [invitation EXCEPT !.inviter = u, !.token = @ + 1, !.expired = FALSE, !.revision = @ + 1]
                = [invitation EXCEPT !.inviter = u, !.token = invitation.token + 1, !.expired = FALSE,
                                     !.revision = invitation.revision + 1]
            BY <2>1 DEF Link
        <3> QED BY <2>1, <2>4, <3>1 DEF InvitationAfter, Link
    <2>5. CASE op.kind \notin {"invite", "invite.revoke", "invite.resend"}
        BY <2>1, <2>5 DEF InvitationAfter
    <2> QED BY <2>2, <2>3, <2>4, <2>5
<1> QED BY <1>1, <1>2, <1>3, <1>4, <1>5

\* The team stays one of active members.
LEMMA TeamAfterActive ==
    ASSUME Tables, TeamIsActive, NEW op, Asks(op, member), NEW u \in Users, Permitted(u, op),
           NEW v \in TeamAfter(op).members
    PROVE  MemberAfter(op)[v].status = "ACTIVE"
<1>1. team \in Team BY DEF Tables
<1>2. \/ v \in team.members /\ ~(op.kind = "deactivate" /\ v = op.who)
      \/ op.kind = "team.add" /\ v = op.who
    BY <1>1 DEF TeamAfter, Team
<1>3. op.kind = "team.add" => member[op.who].status = "ACTIVE" /\ op.who \in Users
    BY DEF Permitted, StatusOp, TeamOp, Asks, OnMember
<1>4. v \in Users /\ member[v].status = "ACTIVE" BY <1>1, <1>2, <1>3 DEF TeamIsActive, Team
<1> QED BY <1>2, <1>4, StatusAfter

\* An owner is left.
LEMMA OwnerAfter ==
    ASSUME Tables, OwnerRemains, NEW op, Asks(op, member), NEW u \in Users, Permitted(u, op)
    PROVE  Owners(MemberAfter(op), GrantsAfter(op), RoleAfter(op)) # {}
<1>1. CASE op.kind \in StatusOp \cup {"member.roles", "role.update"}
    <2>1. StillOwned(op)
        <3>1. CASE op.kind \in StatusOp BY <3>1 DEF Permitted, StatusOp, TeamOp
        <3>2. CASE op.kind = "member.roles" BY <3>2 DEF Permitted, StatusOp, TeamOp
        <3>3. CASE op.kind = "role.update" BY <3>3 DEF Permitted, StatusOp, TeamOp
        <3> QED BY <1>1, <3>1, <3>2, <3>3
    <2> QED BY <2>1 DEF StillOwned
<1>2. CASE op.kind \notin StatusOp \cup {"member.roles", "role.update"}
    <2>1. GrantsAfter(op) = grants /\ RoleAfter(op) = role BY <1>2 DEF GrantsAfter, RoleAfter
    <2>2. \A v \in Users : MemberAfter(op)[v].status = member[v].status
        BY <1>2, StatusAfter DEF StatusOp
    <2> QED BY <2>1, <2>2 DEF OwnerRemains, Owners
<1> QED BY <1>1, <1>2

\* A request's own access outlives its writing, or it has ended its own membership.
LEMMA EveryoneStays ==
    ASSUME Tables, NEW op, Asks(op, member), NEW v \in Users
    PROVE  member[v].status # "NONE" <=> MemberAfter(op)[v].status # "NONE"
BY StatusAfter DEF Asks, OnMember, StatusOp

------------------------------------------------------------------------------
(* Steps that write no table but the passing of time *)

Quiet ==
    /\ UNCHANGED <<member, grants, role, team>>
    /\ UNCHANGED <<invitation.state, invitation.roles, invitation.revision, invitation.token>>
    /\ invitation.expired => invitation'.expired

\* What was checked is still true.
LEMMA CheckedStays ==
    ASSUME Quiet, NEW u \in Users, CheckedUnderBarrier(u),
           request'[u].op = request[u].op, bound'[u] = bound[u]
    PROVE  CheckedUnderBarrier(u)'
<1>1. Current(u)' BY DEF Quiet, CheckedUnderBarrier, Current, Unmoved
<1>2. Permitted(u, request[u].op)' BY PermittedStays DEF Quiet, CheckedUnderBarrier
<1> QED BY <1>1, <1>2 DEF CheckedUnderBarrier, Permitted

LEMMA AdmissibleStays ==
    ASSUME Quiet, NEW a \in Acceptors, Admissible(a),
           acceptor'[a].token = acceptor[a].token, acceptor'[a].inviter = acceptor[a].inviter
    PROVE  Admissible(a)'
BY DEF Quiet, Admissible, Delegated, Org, Ceiling, May, InTeam

LEMMA TablesStay ==
    ASSUME Inv, UNCHANGED tables
    PROVE  Quiet /\ Tables' /\ TeamIsActive' /\ OwnerRemains'
BY DEF Inv, tables, Quiet, Tables, TeamIsActive, OwnerRemains, Owners

\* A user's request moves, and only that one.
LEMMA RequestStep ==
    ASSUME Inv, NEW u \in Users,
           Login(u) \/ (\E op \in Inputs : Authenticate(u, op)) \/ Enter(u) \/ Abort(u)
    PROVE  Inv'
<1>1. UNCHANGED <<tables, acceptor>> /\ Quiet /\ Tables' /\ TeamIsActive' /\ OwnerRemains'
    BY TablesStay DEF Login, Authenticate, Enter, Abort
<1>2. /\ bound' = [v \in Users |-> bound'[v]] /\ request' = [v \in Users |-> request'[v]]
      /\ \A v \in Users \ {u} : request'[v] = request[v] /\ bound'[v] = bound[v]
    BY DEF Inv, Requests, Login, Authenticate, Enter, Abort
<1>3. Acceptances' BY <1>1 DEF Inv, Acceptances
<1>4. \A op : Asks(op, member)' <=> Asks(op, member) BY <1>1 DEF Asks, tables
<1>5. CASE Login(u)
    <2>1. request' = request /\ barrier' = barrier /\ request[u].pc = "idle" BY <1>5 DEF Login
    <2>2. Requests' BY <1>2, <1>4, <2>1 DEF Inv, Requests
    <2>3. Exclusion' BY <1>1, <2>1 DEF Inv, Exclusion
    <2>4. ChecksHold' BY <1>1, <1>2, <2>1, CheckedStays, AdmissibleStays DEF Inv, ChecksHold
    <2> QED BY <1>1, <1>3, <2>2, <2>3, <2>4 DEF Inv
<1>6. ASSUME NEW op \in Inputs, Authenticate(u, op) PROVE Inv'
    <2>1. /\ request'[u] = [pc |-> "authenticated", op |-> op] /\ barrier' = barrier /\ bound' = bound
          /\ request[u].pc = "idle"
        BY <1>6 DEF Authenticate, Inv, Requests
    <2>2. Asks(op, member)' BY <1>4, InputsAsk DEF Inv
    <2>3. Requests' BY <1>2, <1>4, <2>1, <2>2 DEF Inv, Requests
    <2>4. Exclusion' BY <1>1, <1>2, <2>1 DEF Inv, Exclusion
    <2>5. ChecksHold' BY <1>1, <1>2, <2>1, CheckedStays, AdmissibleStays DEF Inv, ChecksHold
    <2> QED BY <1>1, <1>3, <2>3, <2>4, <2>5 DEF Inv
<1>7. CASE Enter(u)
    <2>1. /\ request[u].pc = "authenticated" /\ barrier = Nil /\ barrier' = u /\ bound' = bound
          /\ request'[u] = [request[u] EXCEPT !.pc = "ready"] /\ CheckedUnderBarrier(u)
        BY <1>7 DEF Enter, Free, Authorized, CheckedUnderBarrier, Inv, Requests
    <2>2. request[u] = [pc |-> request[u].pc, op |-> request[u].op] /\ Asks(request[u].op, member)
        BY <2>1 DEF Inv, Requests
    <2>3. request'[u] = [pc |-> "ready", op |-> request[u].op] BY <2>1, <2>2
    <2>4. Requests' BY <1>2, <1>4, <2>2, <2>3 DEF Inv, Requests
    <2>5. /\ \A v \in Users : request[v].pc # "ready"
          /\ \A a \in Acceptors : acceptor[a].pc # "ready"
        BY <2>1, AccessAssumption DEF Inv, Exclusion
    <2>6. Exclusion' BY <1>1, <1>2, <2>1, <2>3, <2>5, AccessAssumption DEF Exclusion
    <2>7. CheckedUnderBarrier(u)' BY <1>1, <2>1, <2>3, CheckedStays
    <2>8. ChecksHold' BY <1>1, <1>2, <2>3, <2>5, <2>7 DEF ChecksHold
    <2> QED BY <1>1, <1>3, <2>4, <2>6, <2>8 DEF Inv
<1>8. CASE Abort(u)
    <2>1. /\ request'[u] = [pc |-> "idle"] /\ bound' = bound /\ request[u].pc # "idle"
          /\ barrier' = IF request[u].pc = "ready" THEN Nil ELSE barrier
        BY <1>8 DEF Abort, Inv, Requests
    <2>2. Requests' BY <1>2, <1>4, <2>1 DEF Inv, Requests
    <2>3. Exclusion' BY <1>1, <1>2, <2>1, AccessAssumption DEF Inv, Exclusion
    <2>4. ChecksHold' BY <1>1, <1>2, <2>1, CheckedStays, AdmissibleStays DEF Inv, ChecksHold
    <2> QED BY <1>1, <1>3, <2>2, <2>3, <2>4 DEF Inv
<1> QED BY <1>5, <1>6, <1>7, <1>8

\* An acceptance moves, and only that one.
LEMMA AcceptorStep ==
    ASSUME Inv, NEW a \in Acceptors,
           AcceptStart(a) \/ AcceptLock(a) \/ AcceptEnter(a) \/ AcceptAbort(a)
    PROVE  Inv'
<1>1. UNCHANGED <<tables, bound, request>> /\ Quiet /\ Tables' /\ TeamIsActive' /\ OwnerRemains'
    BY TablesStay DEF AcceptStart, AcceptLock, AcceptEnter, AcceptAbort
<1>2. /\ acceptor' = [b \in Acceptors |-> acceptor'[b]]
      /\ \A b \in Acceptors \ {a} : acceptor'[b] = acceptor[b]
    BY DEF Inv, Acceptances, AcceptStart, AcceptLock, AcceptEnter, AcceptAbort
<1>3. Requests' BY <1>1 DEF Inv, Requests, Asks, tables
<1>4. CASE AcceptStart(a)
    <2>1. /\ acceptor'[a] = [pc |-> "read", token |-> invitation.token, inviter |-> invitation.inviter]
          /\ barrier' = barrier /\ acceptor[a].pc = "idle" /\ invitation.inviter \in Users
        BY <1>4 DEF AcceptStart, Inv, Acceptances, Tables
    <2>2. Acceptances' BY <1>2, <2>1 DEF Inv, Acceptances
    <2>3. Exclusion' BY <1>1, <1>2, <2>1 DEF Inv, Exclusion
    <2>4. ChecksHold' BY <1>1, <1>2, <2>1, CheckedStays, AdmissibleStays DEF Inv, ChecksHold
    <2> QED BY <1>1, <1>3, <2>2, <2>3, <2>4 DEF Inv
<1>5. CASE AcceptLock(a) \/ AcceptEnter(a)
    <2>1. /\ acceptor[a].pc \in {"read", "locked"}
          /\ acceptor[a] = [pc |-> acceptor[a].pc, token |-> acceptor[a].token, inviter |-> acceptor[a].inviter]
          /\ acceptor[a].inviter \in Users
        BY <1>5 DEF AcceptLock, AcceptEnter, Inv, Acceptances
    <2>2. CASE AcceptLock(a)
        <3>1. acceptor'[a] = [pc |-> "locked", token |-> acceptor[a].token, inviter |-> acceptor[a].inviter]
              /\ barrier' = barrier
            BY <2>1, <2>2 DEF AcceptLock, Inv, Acceptances
        <3>2. Acceptances' BY <1>2, <2>1, <3>1 DEF Inv, Acceptances
        <3>3. Exclusion' BY <1>1, <1>2, <2>1, <3>1 DEF Inv, Exclusion
        <3>4. ChecksHold' BY <1>1, <1>2, <3>1, CheckedStays, AdmissibleStays DEF Inv, ChecksHold
        <3> QED BY <1>1, <1>3, <3>2, <3>3, <3>4 DEF Inv
    <2>3. CASE AcceptEnter(a)
        <3>1. acceptor'[a] = [pc |-> "ready", token |-> acceptor[a].token, inviter |-> acceptor[a].inviter]
              /\ barrier = Nil /\ barrier' = a /\ Admissible(a)
            BY <2>1, <2>3 DEF AcceptEnter, Free, Valid, Admissible, Inv, Acceptances
        <3>2. Acceptances' BY <1>2, <2>1, <3>1 DEF Inv, Acceptances
        <3>3. /\ \A v \in Users : request[v].pc # "ready"
              /\ \A b \in Acceptors : acceptor[b].pc # "ready"
            BY <3>1, AccessAssumption DEF Inv, Exclusion
        <3>4. Exclusion' BY <1>1, <1>2, <3>1, <3>3, AccessAssumption DEF Exclusion
        <3>5. Admissible(a)' BY <1>1, <3>1, AdmissibleStays
        <3>6. ChecksHold' BY <1>1, <1>2, <3>1, <3>3, <3>5 DEF ChecksHold
        <3> QED BY <1>1, <1>3, <3>2, <3>4, <3>6 DEF Inv
    <2> QED BY <1>5, <2>2, <2>3
<1>6. CASE AcceptAbort(a)
    <2>1. /\ acceptor'[a] = [pc |-> "idle"]
          /\ barrier' = IF acceptor[a].pc = "ready" THEN Nil ELSE barrier
        BY <1>6 DEF AcceptAbort, Inv, Acceptances
    <2>2. Acceptances' BY <1>2, <2>1 DEF Inv, Acceptances
    <2>3. Exclusion' BY <1>1, <1>2, <2>1, AccessAssumption DEF Inv, Exclusion
    <2>4. ChecksHold' BY <1>1, <1>2, <2>1, CheckedStays, AdmissibleStays DEF Inv, ChecksHold
    <2> QED BY <1>1, <1>3, <2>2, <2>3, <2>4 DEF Inv
<1> QED BY <1>4, <1>5, <1>6

LEMMA ExpireStep == ASSUME Inv, ExpireInvitation PROVE Inv'
<1>1. /\ UNCHANGED <<member, grants, role, team, bound, request, acceptor, barrier>>
      /\ invitation \in Link /\ invitation' = [invitation EXCEPT !.expired = TRUE]
    BY DEF Inv, Tables, ExpireInvitation
<1>2. Quiet /\ invitation' \in Link /\ invitation'.inviter = invitation.inviter BY <1>1 DEF Quiet, Link
<1>3. Tables' BY <1>1, <1>2 DEF Inv, Tables, Quiet
<1>4. Requests' /\ Acceptances' /\ Exclusion' /\ TeamIsActive' /\ OwnerRemains'
    BY <1>1 DEF Inv, Requests, Asks, Acceptances, Exclusion, TeamIsActive, OwnerRemains, Owners
<1>5. ChecksHold' BY <1>1, <1>2, CheckedStays, AdmissibleStays DEF Inv, ChecksHold
<1> QED BY <1>3, <1>4, <1>5 DEF Inv

------------------------------------------------------------------------------
(* Steps that write the tables *)

\* Whoever commits is the only one that was ready.
LEMMA OneReady ==
    ASSUME Inv, NEW x \in Users \cup Acceptors, barrier = x
    PROVE  /\ \A v \in Users \ {x} : request[v].pc # "ready"
           /\ \A b \in Acceptors \ {x} : acceptor[b].pc # "ready"
BY AccessAssumption DEF Inv, Exclusion

LEMMA CommitStep == ASSUME Inv, NEW u \in Users, Commit(u) PROVE Inv'
<1> DEFINE op == request[u].op
<1>1. /\ request[u].pc = "ready" /\ barrier = u /\ Asks(op, member) /\ Permitted(u, op)
      /\ barrier' = Nil /\ acceptor' = acceptor
      /\ member' = MemberAfter(op) /\ grants' = GrantsAfter(op) /\ role' = RoleAfter(op)
      /\ team' = TeamAfter(op) /\ invitation' = InvitationAfter(u, op)
    BY DEF Inv, Requests, Exclusion, ChecksHold, CheckedUnderBarrier, Commit
<1>2. /\ request' = [v \in Users |-> request'[v]] /\ bound' = [v \in Users |-> bound'[v]]
      /\ request'[u] = [pc |-> "idle"] /\ \A v \in Users \ {u} : request'[v] = request[v]
    BY DEF Inv, Requests, Commit
<1> HIDE DEF op
<1>3. Tables /\ TeamIsActive /\ OwnerRemains BY DEF Inv
<1>4. Tables' BY <1>1, <1>3, TablesAfter DEF Tables
<1>5. \A o : Asks(o, member) => Asks(o, member')
    <2>1. \A v \in Users : member[v].status # "NONE" => member'[v].status # "NONE"
        BY <1>1, <1>3, EveryoneStays
    <2> QED BY <2>1 DEF Asks
<1>6. Requests'
    <2>1. \A v \in Users : \/ request'[v] = [pc |-> "idle"]
                           \/ /\ request'[v] = [pc |-> request'[v].pc, op |-> request'[v].op]
                              /\ request'[v].pc \in {"authenticated", "ready"}
                              /\ Asks(request'[v].op, member')
        BY <1>2, <1>5 DEF Inv, Requests
    <2> QED BY <1>2, <2>1 DEF Requests, Asks
<1>7. Acceptances' BY <1>1 DEF Inv, Acceptances
<1>8. /\ \A v \in Users : request'[v].pc # "ready"
      /\ \A b \in Acceptors : acceptor'[b].pc # "ready"
    BY <1>1, <1>2, OneReady, AccessAssumption
<1>9. Exclusion' /\ ChecksHold' BY <1>1, <1>8, AccessAssumption DEF Exclusion, ChecksHold
<1>10. TeamIsActive' BY <1>1, <1>3, TeamAfterActive DEF TeamIsActive
<1>11. OwnerRemains' BY <1>1, <1>3, OwnerAfter DEF OwnerRemains, Owners
<1> QED BY <1>4, <1>6, <1>7, <1>9, <1>10, <1>11 DEF Inv

LEMMA AcceptCommitStep == ASSUME Inv, NEW a \in Acceptors, AcceptCommit(a) PROVE Inv'
<1>1. /\ acceptor[a].pc = "ready" /\ barrier = a /\ barrier' = Nil /\ Admissible(a)
      /\ UNCHANGED <<role, team, bound, request>>
    BY DEF Inv, Exclusion, ChecksHold, AcceptCommit
<1>2. /\ acceptor' = [b \in Acceptors |-> acceptor'[b]]
      /\ acceptor'[a] = [pc |-> "idle"] /\ \A b \in Acceptors \ {a} : acceptor'[b] = acceptor[b]
    BY DEF Inv, Acceptances, AcceptCommit
<1>3. /\ Invitee \in Users /\ member \in [Users -> MemberRow] /\ grants \in [Users -> SUBSET Grant]
      /\ invitation \in Link /\ invitation.revision + 1 \in Nat /\ team \in Team
      /\ member[Invitee].status = "NONE"
    BY <1>1, AccessAssumption DEF Inv, Tables, Link, Admissible
<1>4. /\ member' \in [Users -> MemberRow] /\ member'[Invitee].status = "ACTIVE"
      /\ \A v \in Users \ {Invitee} : member'[v] = member[v] /\ grants'[v] = grants[v]
    BY <1>3 DEF AcceptCommit, MemberRow
<1>5. grants' \in [Users -> SUBSET Grant]
    <2>1. {[role |-> r, scope |-> "ORG"] : r \in invitation.roles} \in SUBSET Grant
        BY <1>3 DEF Link, Grant, Scopes
    <2> QED BY <1>3, <2>1 DEF AcceptCommit
<1>6. invitation' \in Link /\ invitation'.state = "ACCEPTED"
    <2>1. [invitation EXCEPT !.state = "ACCEPTED", !.revision = @ + 1]
            = [invitation EXCEPT !.state = "ACCEPTED", !.revision = invitation.revision + 1]
        BY <1>3 DEF Link
    <2> QED BY <1>3, <2>1 DEF AcceptCommit, Link
<1>7. Tables' BY <1>1, <1>4, <1>5, <1>6 DEF Inv, Tables
<1>8. Requests'
    <2>1. \A v \in Users : member[v].status # "NONE" => member'[v].status # "NONE" BY <1>4
    <2> QED BY <1>1, <2>1 DEF Inv, Requests, Asks
<1>9. Acceptances' BY <1>2 DEF Inv, Acceptances
<1>10. /\ \A v \in Users : request'[v].pc # "ready"
       /\ \A b \in Acceptors : acceptor'[b].pc # "ready"
    BY <1>1, <1>2, OneReady, AccessAssumption
<1>11. Exclusion' /\ ChecksHold' BY <1>1, <1>10, AccessAssumption DEF Exclusion, ChecksHold
<1>12. TeamIsActive' BY <1>1, <1>3, <1>4 DEF Inv, TeamIsActive, Team
<1>13. OwnerRemains'
    <2>1. PICK v \in Owners(member, grants, role) : TRUE BY DEF Inv, OwnerRemains
    <2>2. v # Invitee BY <1>3, <2>1 DEF Owners
    <2>3. v \in Owners(member', grants', role') BY <1>1, <1>4, <2>1, <2>2 DEF Owners
    <2> QED BY <2>3 DEF OwnerRemains, Owners
<1> QED BY <1>7, <1>8, <1>9, <1>11, <1>12, <1>13 DEF Inv

LEMMA InitInv == ASSUME AccessInit PROVE Inv
<1>1. Tables
    <2>1. member \in [Users -> MemberRow] BY DEF AccessInit, MemberRow
    <2>2. grants \in [Users -> SUBSET Grant]
        <3>1. \A u \in Users : InitGrants[u] \in (SUBSET Grant) \cup {Nil} BY AccessAssumption
        <3> QED BY <3>1 DEF AccessInit
    <2>3. role \in [Roles -> [keys : SUBSET Keys, revision : Nat]] BY AccessAssumption DEF AccessInit
    <2>4. team \in Team BY DEF AccessInit, Team
    <2>5. invitation \in Link /\ invitation.state # "PENDING" BY DEF AccessInit, Link
    <2> QED BY <2>1, <2>2, <2>3, <2>4, <2>5 DEF Tables
<1>2. Requests /\ Acceptances /\ Exclusion /\ TeamIsActive /\ ChecksHold
    BY AccessAssumption DEF AccessInit, Requests, Acceptances, Exclusion, TeamIsActive, ChecksHold
<1>3. OwnerRemains
    <2>1. PICK u \in Users : InitGrants[u] # Nil
                             /\ \E g \in InitGrants[u] : g.scope = "ORG" /\ "owners.manage" \in InitKeys[g.role]
        BY AccessAssumption
    <2>2. member[u].status = "ACTIVE" /\ grants[u] = InitGrants[u] BY <2>1 DEF AccessInit
    <2>3. grants[u] \in SUBSET Grant BY <1>1 DEF Tables
    <2>4. \A r \in Roles : role[r].keys = InitKeys[r] BY DEF AccessInit
    <2>5. u \in Owners(member, grants, role) BY <2>1, <2>2, <2>3, <2>4 DEF Owners, Grant
    <2> QED BY <2>5 DEF OwnerRemains
<1> QED BY <1>1, <1>2, <1>3 DEF Inv

LEMMA NextInv == ASSUME Inv, [AccessNext]_accessVars PROVE Inv'
<1>1. CASE AccessNext
    BY <1>1, RequestStep, CommitStep, AcceptorStep, AcceptCommitStep, ExpireStep DEF AccessNext
<1>2. CASE UNCHANGED accessVars
    <2>1. Quiet /\ Tables' /\ TeamIsActive' /\ OwnerRemains' BY <1>2, TablesStay DEF accessVars
    <2>2. Requests' /\ Acceptances' /\ Exclusion'
        BY <1>2 DEF accessVars, tables, Inv, Requests, Asks, Acceptances, Exclusion
    <2>3. ChecksHold' BY <1>2, <2>1, CheckedStays, AdmissibleStays DEF accessVars, Inv, ChecksHold
    <2> QED BY <2>1, <2>2, <2>3 DEF Inv
<1> QED BY <1>1, <1>2

\* The inductive invariant: what stands behind the statements below.
THEOREM AccessInvariant == AccessSpec => []Inv
BY InitInv, NextInv, PTL DEF AccessSpec

\* However the requests of owners interleave, one active organization-wide owner
\* is left (ownerInvariant, access.go:68-83).
THEOREM AlwaysOwned == AccessSpec => []OwnerRemains
<1>1. Inv => OwnerRemains BY DEF Inv
<1> QED BY <1>1, AccessInvariant, PTL

\* A request between its checks and its commit still has the access its session
\* was bound to (authorize_membership_write of 00002, access.go:129-137).
THEOREM AlwaysCurrent == AccessSpec => []StaleSessionNeverWrites
<1>1. Inv => StaleSessionNeverWrites BY DEF Inv, ChecksHold, CheckedUnderBarrier, StaleSessionNeverWrites
<1> QED BY <1>1, AccessInvariant, PTL

------------------------------------------------------------------------------
(* Who gives what *)

\* What one commit lets a member do, its actor could do before it.
LEMMA CommitGivesWhatItHolds ==
    ASSUME Inv, NEW u \in Users, Commit(u),
           NEW v \in Users, NEW k \in Keys, NEW t \in BOOLEAN,
           ~Effective(v, k, t), Effective(v, k, t)'
    PROVE  Effective(u, k, t)
<1> DEFINE op == request[u].op
<1>1. /\ Asks(op, member) /\ Permitted(u, op) /\ Current(u)
      /\ member' = MemberAfter(op) /\ grants' = GrantsAfter(op) /\ role' = RoleAfter(op)
      /\ team' = TeamAfter(op)
    BY DEF Inv, Requests, ChecksHold, CheckedUnderBarrier, Commit
<1> HIDE DEF op
<1>2. Tables /\ TeamIsActive BY DEF Inv
<1>3. member[u].status = "ACTIVE" BY <1>1 DEF Current
<1>4. SUFFICES May(u, k, t) BY <1>3 DEF Effective
<1>5. /\ MemberAfter(op)[v].status = "ACTIVE" /\ May(v, k, t)'
      /\ ~(member[v].status = "ACTIVE" /\ May(v, k, t))
    BY <1>1 DEF Effective
<1>6. CASE op.kind = "deactivate"
    <2>1. grants' = grants /\ role' = role /\ team' = [team EXCEPT !.members = @ \ {op.who}]
        BY <1>1, <1>6 DEF GrantsAfter, RoleAfter, TeamAfter
    <2>2. team'.members \subseteq team.members /\ team'.roles = team.roles /\ team'.archived = team.archived
        BY <1>2, <2>1 DEF Tables, Team
    <2>3. May(v, k, t) BY <1>5, <2>1, <2>2 DEF May, Org, InTeam
    <2>4. member[v].status = "ACTIVE" BY <1>1, <1>2, <1>5, <1>6, StatusAfter
    <2> QED BY <1>5, <2>3, <2>4
<1>7. CASE op.kind = "reactivate"
    <2>1. grants' = grants /\ role' = role /\ team' = team
        BY <1>1, <1>7 DEF GrantsAfter, RoleAfter, TeamAfter
    <2>2. May(v, k, t) BY <1>5, <2>1 DEF May, Org, InTeam
    <2>3. v = op.who /\ member[v].status # "ACTIVE"
        BY <1>1, <1>2, <1>5, <1>7, <2>2, StatusAfter
    <2>4. v \notin team.members BY <1>2, <2>3 DEF TeamIsActive
    <2>5. PICK g \in grants[v] : k \in role[g.role].keys BY <2>2, <2>4 DEF May, Org, InTeam
    <2>6. Ceiling(u, RolesOf(v), FALSE) BY <1>1, <1>7, <2>3 DEF Permitted, StatusOp, TeamOp
    <2> QED BY <2>5, <2>6 DEF Ceiling, RolesOf, May
<1>8. CASE op.kind = "member.roles"
    <2>1. /\ grants' = [grants EXCEPT ![op.who] = op.grants] /\ role' = role /\ team' = team
          /\ op.who \in Users /\ grants \in [Users -> SUBSET Grant]
        BY <1>1, <1>2, <1>8 DEF GrantsAfter, RoleAfter, TeamAfter, Asks, OnMember, Tables
    <2>2. ~May(v, k, t) BY <1>1, <1>2, <1>5, <1>8, StatusAfter
    <2>3. v = op.who BY <1>5, <2>1, <2>2 DEF May, Org, InTeam
    <2>4. PICK g \in op.grants : k \in role[g.role].keys /\ (g.scope = "ORG" \/ (g.scope = "TEAM" /\ t))
        BY <1>5, <2>1, <2>2, <2>3 DEF May, Org, InTeam
    <2>5. Ceiling(u, {g.role}, g.scope = "TEAM") BY <1>1, <1>8, <2>4 DEF Permitted, StatusOp, TeamOp
    <2> QED BY <2>4, <2>5 DEF Ceiling, May
<1>9. CASE op.kind = "role.update"
    <2>1. /\ grants' = grants /\ team' = team /\ op.role \in Roles
          /\ role' = [role EXCEPT ![op.role] = [keys |-> op.keys, revision |-> role[op.role].revision + 1]]
          /\ role \in [Roles -> [keys : SUBSET Keys, revision : Nat]]
        BY <1>1, <1>2, <1>9 DEF GrantsAfter, RoleAfter, TeamAfter, Asks, Tables
    <2>2. ~May(v, k, t) BY <1>1, <1>2, <1>5, <1>9, StatusAfter
    <2>3. \A r \in Roles \ {op.role} : role'[r].keys = role[r].keys BY <2>1
    <2>4. role'[op.role].keys = op.keys BY <2>1
    <2>5. grants[v] \in SUBSET Grant /\ team.roles \in SUBSET Roles BY <1>2 DEF Tables, Team
    <2>6. k \in op.keys BY <1>5, <2>1, <2>2, <2>3, <2>4, <2>5 DEF May, Org, InTeam, Grant
    <2>7. Org(u, k) BY <1>1, <1>9, <2>6 DEF Permitted, StatusOp, TeamOp
    <2> QED BY <2>7 DEF May
<1>10. CASE op.kind \in TeamOp
    <2>1. grants' = grants /\ role' = role /\ team \in Team
        BY <1>1, <1>2, <1>10 DEF GrantsAfter, RoleAfter, TeamOp, Tables
    <2>2. ~May(v, k, t) BY <1>1, <1>2, <1>5, <1>10, StatusAfter DEF TeamOp
    <2>3. /\ team'.roles = IF op.kind = "team.roles" THEN op.roles ELSE team.roles
          /\ team'.archived = IF op.kind = "team.archive" THEN TRUE ELSE team.archived
          /\ op.kind # "team.add" => team'.members \subseteq team.members
        BY <1>1, <1>10, <2>1 DEF TeamAfter, TeamOp, Team
    <2>4. PICK r \in team'.roles : k \in role[r].keys /\ t
        BY <1>5, <2>1, <2>2, <2>3 DEF May, Org, InTeam
    <2>5. Ceiling(u, team'.roles, TRUE) BY <1>1, <1>10, <2>3 DEF Permitted, StatusOp, TeamOp
    <2> QED BY <2>4, <2>5 DEF Ceiling
<1>11. CASE op.kind \in {"invite", "invite.revoke", "invite.resend"}
    <2>1. grants' = grants /\ role' = role /\ team' = team
        BY <1>1, <1>11 DEF GrantsAfter, RoleAfter, TeamAfter
    <2>2. member[v].status = "ACTIVE" BY <1>1, <1>2, <1>5, <1>11, StatusAfter
    <2> QED BY <1>5, <2>1, <2>2 DEF May, Org, InTeam
<1> QED BY <1>1, <1>6, <1>7, <1>8, <1>9, <1>10, <1>11 DEF Asks, Kinds, StatusOp

LEMMA AcceptanceGivesWhatTheInviterHolds ==
    ASSUME Inv, NEW a \in Acceptors, AcceptCommit(a),
           NEW v \in Users, NEW k \in Keys, NEW t \in BOOLEAN,
           ~Effective(v, k, t), Effective(v, k, t)'
    PROVE  Effective(acceptor[a].inviter, k, t)
<1> DEFINE w == acceptor[a].inviter
<1>1. /\ Admissible(a) /\ role' = role /\ team' = team /\ Invitee \in Users
      /\ member \in [Users -> MemberRow] /\ grants \in [Users -> SUBSET Grant]
    BY AccessAssumption DEF Inv, Tables, ChecksHold, AcceptCommit
<1>2. /\ \A x \in Users \ {Invitee} : member'[x] = member[x] /\ grants'[x] = grants[x]
      /\ grants'[Invitee] = {[role |-> r, scope |-> "ORG"] : r \in invitation.roles}
    BY <1>1 DEF AcceptCommit
<1>3. v = Invitee BY <1>1, <1>2 DEF Effective, May, Org, InTeam
<1>4. Invitee \notin team.members BY <1>1 DEF Inv, TeamIsActive, Admissible
<1>5. PICK r \in invitation.roles : k \in role[r].keys
    BY <1>1, <1>2, <1>3, <1>4 DEF Effective, May, Org, InTeam
<1>6. Ceiling(w, invitation.roles, FALSE) BY <1>1 DEF Admissible, Delegated
<1>7. Org(w, k) BY <1>5, <1>6 DEF Ceiling, May
<1> QED BY <1>1, <1>7 DEF Effective, May, Admissible

\* Only a commit changes what anyone may do, or who is a member.
LEMMA OnlyCommitsWrite ==
    ASSUME [AccessNext]_accessVars
    PROVE  \/ \E u \in Users : Commit(u)
           \/ \E a \in Acceptors : AcceptCommit(a)
           \/ UNCHANGED <<member, grants, role, team>>
BY DEF AccessNext, accessVars, tables, Login, Enter, Abort, Authenticate, ExpireInvitation,
       AcceptStart, AcceptLock, AcceptEnter, AcceptAbort

Gives == \A v \in Users, k \in Keys, t \in BOOLEAN :
            ~Effective(v, k, t) /\ Effective(v, k, t)' =>
                Authority \in Users /\ Effective(Authority, k, t)

LEMMA StepGives == ASSUME Inv, [AccessNext]_accessVars PROVE Gives
<1> SUFFICES ASSUME NEW v \in Users, NEW k \in Keys, NEW t \in BOOLEAN,
                    ~Effective(v, k, t), Effective(v, k, t)'
             PROVE  Authority \in Users /\ Effective(Authority, k, t)
    BY DEF Gives
<1>1. ASSUME NEW u \in Users, Commit(u) PROVE Authority \in Users /\ Effective(Authority, k, t)
    <2>1. Authority = u BY <1>1, AccessAssumption DEF Authority, Inv, Exclusion, Commit
    <2> QED BY <1>1, <2>1, CommitGivesWhatItHolds
<1>2. ASSUME NEW a \in Acceptors, AcceptCommit(a)
      PROVE  Authority \in Users /\ Effective(Authority, k, t)
    <2>1. Authority = acceptor[a].inviter BY <1>2 DEF Authority, Inv, Exclusion, AcceptCommit
    <2>2. acceptor[a].inviter \in Users BY <1>2 DEF Inv, Acceptances, AcceptCommit
    <2> QED BY <1>2, <2>1, <2>2, AcceptanceGivesWhatTheInviterHolds
<1>3. CASE UNCHANGED <<member, grants, role, team>>
    BY <1>3 DEF Effective, May, Org, InTeam
<1> QED BY <1>1, <1>2, <1>3, OnlyCommitsWrite

\* A permission that anyone comes to hold was held by whoever stands behind the
\* step: the actor, or the inviter (ceiling and accept, access.go:51-67,614-630).
THEOREM NobodyGivesMore == AccessSpec => GrantedByHolder
<1>1. Inv /\ [AccessNext]_accessVars => [Gives]_accessVars BY StepGives
<1> QED BY <1>1, AccessInvariant, PTL DEF AccessSpec, GrantedByHolder, Gives

Admits == \A v \in Users :
            member[v].status = "NONE" /\ member'[v].status # "NONE" =>
              /\ v = Invitee /\ invitation.state = "PENDING" /\ invitation'.state = "ACCEPTED"
              /\ \E a \in Acceptors : acceptor[a].pc = "ready" /\ acceptor[a].token = invitation.token
              /\ RolesOf(v)' = invitation.roles

LEMMA StepAdmits == ASSUME Inv, [AccessNext]_accessVars PROVE Admits
<1> SUFFICES ASSUME NEW v \in Users, member[v].status = "NONE", member'[v].status # "NONE"
             PROVE  /\ v = Invitee /\ invitation.state = "PENDING" /\ invitation'.state = "ACCEPTED"
                    /\ \E a \in Acceptors : acceptor[a].pc = "ready" /\ acceptor[a].token = invitation.token
                    /\ RolesOf(v)' = invitation.roles
    BY DEF Admits
<1>1. ASSUME NEW u \in Users, Commit(u) PROVE FALSE
    BY <1>1, EveryoneStays DEF Commit, Inv, Requests
<1>2. PICK a \in Acceptors : AcceptCommit(a) BY <1>1, OnlyCommitsWrite
<1>3. /\ Admissible(a) /\ acceptor[a].pc = "ready" /\ Invitee \in Users
      /\ member \in [Users -> MemberRow] /\ grants \in [Users -> SUBSET Grant] /\ invitation \in Link
    BY <1>2, AccessAssumption DEF Inv, ChecksHold, AcceptCommit, Tables
<1>4. v = Invitee BY <1>2, <1>3 DEF AcceptCommit
<1>5. invitation'.state = "ACCEPTED" BY <1>2, <1>3 DEF AcceptCommit, Link
<1>6. grants'[v] = {[role |-> r, scope |-> "ORG"] : r \in invitation.roles}
    BY <1>2, <1>3, <1>4 DEF AcceptCommit
<1>7. {g.role : g \in grants'[v]} = invitation.roles
    <2>1. \A g \in grants'[v] : g.role \in invitation.roles BY <1>6
    <2>2. ASSUME NEW r \in invitation.roles PROVE \E g \in grants'[v] : g.role = r
        <3>1. [role |-> r, scope |-> "ORG"] \in grants'[v] BY <1>6
        <3>2. [role |-> r, scope |-> "ORG"].role = r OBVIOUS
        <3> QED BY <3>1, <3>2
    <2> QED BY <2>1, <2>2
<1>8. RolesOf(v)' = invitation.roles BY <1>7 DEF RolesOf
<1> QED BY <1>3, <1>4, <1>5, <1>8 DEF Admissible

\* Nobody becomes a member but the invitee, by the token that is the invitation's
\* at that moment and with the roles it names (access.go:570-649).
THEOREM OnlyTheInvitationAdmits == AccessSpec => AdmittedByLiveInvitation
<1>1. Inv /\ [AccessNext]_accessVars => [Admits]_accessVars BY StepAdmits
<1> QED BY <1>1, AccessInvariant, PTL DEF AccessSpec, AdmittedByLiveInvitation, Admits
==============================================================================
