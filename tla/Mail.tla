--------------------------------- MODULE Mail ---------------------------------
(***************************************************************************)
(* The outbox of security mail: requests and administrators enqueue a mail *)
(* with the one-use proof it carries, supersede or use up proofs, and mail *)
(* workers claim, send and finish deliveries under a lease.  Sources:      *)
(* identity/mail.go, challenge, enqueue and the completion of challenges   *)
(* in identity/auth.go, and the invitations of identity/access.go.         *)
(*                                                                         *)
(* Each action is one transaction or one network step, but the transaction *)
(* that claims: it reads the clock anew in each of its statements, and     *)
(* leases run out in between.  There is one user and one invitation; a     *)
(* mail row is used for whatever purpose comes.  Deadlines are ticks left. *)
(* XMutant before X is a plausible bug in X.                               *)
(***************************************************************************)
EXTENDS Naturals, FiniteSets

CONSTANTS
    Nil,
    MailCount,      \* bound on delivery rows
    MaxClaims,      \* bound on the number of attempts of all of them
    Requested,      \* bound: the purposes that requests ask for
    Workers,        \* mail worker processes; a lease token is its worker's name,
                    \* since a worker delivers one mail at a time
    MaxAttempts,    \* 8
    LifeTicks,      \* until deadline_at: 24 hours, or 30 minutes for a reset
    LeaseTicks,     \* two minutes
    RetryTicks      \* 2^attempts minutes and up to 255 seconds

Mails == 1..MailCount     \* delivery rows, in the order of their ids

ASSUME MailAssumption ==
    /\ MailCount \in Nat /\ MaxClaims \in Nat
    /\ Requested \subseteq {"EMAIL_VERIFY", "PASSWORD_RESET", "INVITATION"}
    /\ MaxAttempts \in Nat \ {0} /\ LifeTicks \in Nat \ {0} /\ LeaseTicks \in Nat \ {0} /\ RetryTicks \in Nat
    /\ Nil \notin Workers \cup Mails

VARIABLES
    mail,         \* mail_deliveries
    proof,        \* the challenge, or the invitation's digest, a mail was made for
    attempts,     \* mail_attempts
    at,           \* a worker's place in DeliverOne and its locals
    relay,        \* the attempts the SMTP relay has accepted (the world's state)
    underway      \* history: when a mail became obsolete, the attempts that had
                  \* reached the relay or were past the last check

vars == <<mail, proof, attempts, at, relay, underway>>

Challenge == {"EMAIL_VERIFY", "PASSWORD_RESET"}
Purpose   == Challenge \cup {"INVITATION", "SECURITY_NOTICE"}
Waiting   == {"QUEUED", "RETRY_WAIT"}
Terminal  == {"SMTP_ACCEPTED", "FAILED", "EXPIRED", "CANCELLED"}

MailRow == [state : {"NONE", "SENDING"} \cup Waiting \cup Terminal,
            purpose : Purpose \cup {Nil}, count : 0..MaxAttempts, token : Workers \cup {Nil},
            lifeLeft : 0..LifeTicks, leaseLeft : 0..LeaseTicks, waitLeft : 0..RetryTicks]
NoMail  == [state |-> "NONE", purpose |-> Nil, count |-> 0, token |-> Nil,
            lifeLeft |-> 0, leaseLeft |-> 0, waitLeft |-> 0]
Attempt == [mail : Mails, no : 1..MaxAttempts,
            result : {"OPEN", "SMTP_ACCEPTED", "REJECTED", "UNKNOWN"}]
Verdict == [state : Terminal \cup {"RETRY_WAIT"}, result : {"SMTP_ACCEPTED", "REJECTED", "UNKNOWN"}]
Place   == [pc : {"idle", "sweeping", "claimed", "cleared", "answered"},
            closed : SUBSET Attempt,   \* attempts closed and not committed
            job : Mails \cup {Nil}, no : 0..MaxAttempts, verdict : Verdict \cup {Nil}]
Idle    == [pc |-> "idle", closed |-> {}, job |-> Nil, no |-> 0, verdict |-> Nil]

Init ==
    /\ mail = [m \in Mails |-> NoMail]
    /\ proof = [m \in Mails |-> "NONE"]
    /\ attempts = {}
    /\ at = [w \in Workers |-> Idle]
    /\ relay = [m \in Mails |-> {}]
    /\ underway = [m \in Mails |-> {}]

------------------------------------------------------------------------------
(* Proofs *)

Live(p) == {m \in Mails : mail[m].purpose = p /\ proof[m] = "LIVE"}
UsedUp(p) == \E m \in Mails : mail[m].purpose = p /\ proof[m] = "CONSUMED"

\* mailValid and the deadline.
Sendable(m) == mail[m].lifeLeft > 0 /\ proof[m] = "LIVE"

\* Bookkeeping of underway for mails that become obsolete in this step.
Snapshot(gone) ==
    underway' = [m \in Mails |->
        IF m \in gone /\ Sendable(m)
        THEN relay[m] \cup {at[w].no : w \in {v \in Workers : at[v].job = m /\ at[v].pc = "cleared"}}
        ELSE underway[m]]

Enqueued(p) == [NoMail EXCEPT !.state = "QUEUED", !.purpose = p, !.lifeLeft = LifeTicks]

\* The rows after every live proof of purpose p was revoked: deliveries of
\* revoked proofs that wait are cancelled, a delivery being sent is not.
Kin(p) == IF p \in Challenge THEN Challenge ELSE {p}
RevokedProof(p) == [m \in Mails |-> IF m \in Live(p) THEN "REVOKED" ELSE proof[m]]
CancelledMail(p) ==
    [m \in Mails |-> IF /\ mail[m].purpose \in Kin(p) /\ RevokedProof(p)[m] = "REVOKED"
                        /\ mail[m].state \in Waiting
                     THEN [mail[m] EXCEPT !.state = "CANCELLED"]
                     ELSE mail[m]]

\* The next row: ids are ordered by creation (UUIDv7).
New(m) == mail[m].state = "NONE" /\ \A n \in 1..(m - 1) : mail[n].state # "NONE"

\* public.verify.request and public.reset.request, org.invite and
\* org.invite.resend: a new proof in place of the live one, and its mail.  A
\* verified user gets none; an invitation is only resent while PENDING.
Issue(m, p) ==
    /\ New(m)
    /\ p = "EMAIL_VERIFY" => ~UsedUp(p)
    /\ p = "INVITATION" => (\A n \in Mails : mail[n].purpose # p) \/ Live(p) # {}
    /\ mail' = [CancelledMail(p) EXCEPT ![m] = Enqueued(p)]
    /\ proof' = [RevokedProof(p) EXCEPT ![m] = "LIVE"]
    /\ Snapshot(Live(p))
    /\ UNCHANGED <<attempts, at, relay>>

\* A changed factor is announced.
Notice(m) ==
    /\ New(m)
    /\ mail' = [mail EXCEPT ![m] = Enqueued("SECURITY_NOTICE")]
    /\ proof' = [proof EXCEPT ![m] = "LIVE"]
    /\ UNCHANGED <<attempts, at, relay, underway>>

\* org.invite.revoke.
RevokeInvitation ==
    /\ Live("INVITATION") # {}
    /\ mail' = CancelledMail("INVITATION")
    /\ proof' = RevokedProof("INVITATION")
    /\ Snapshot(Live("INVITATION"))
    /\ UNCHANGED <<attempts, at, relay>>

\* The link of a mail that arrived is used: public.verify.complete and
\* public.invitation.accept.  An invitation outlives its mail's deadline.
Usable(m) == /\ relay[m] # {} /\ proof[m] = "LIVE"
             /\ mail[m].purpose \in Challenge => mail[m].lifeLeft > 0

Complete(m) ==
    /\ Usable(m)
    /\ mail[m].purpose \in {"EMAIL_VERIFY", "INVITATION"}
    /\ proof' = [proof EXCEPT ![m] = "CONSUMED"]
    /\ Snapshot({m})
    /\ UNCHANGED <<mail, attempts, at, relay>>

\* public.reset.complete announces itself in a mail n of its own.
CompleteReset(m, n) ==
    /\ Usable(m)
    /\ mail[m].purpose = "PASSWORD_RESET"
    /\ New(n)
    /\ proof' = [proof EXCEPT ![m] = "CONSUMED", ![n] = "LIVE"]
    /\ mail' = [mail EXCEPT ![n] = Enqueued("SECURITY_NOTICE")]
    /\ Snapshot({m})
    /\ UNCHANGED <<attempts, at, relay>>

Before(n) == IF n = 0 THEN 0 ELSE n - 1

Tick ==
    /\ \E m \in Mails : mail[m].lifeLeft > 0 \/ mail[m].leaseLeft > 0 \/ mail[m].waitLeft > 0
    /\ mail' = [m \in Mails |-> [mail[m] EXCEPT !.lifeLeft = Before(@), !.leaseLeft = Before(@),
                                                !.waitLeft = Before(@)]]
    /\ Snapshot({m \in Mails : mail[m].lifeLeft = 1})
    /\ UNCHANGED <<proof, attempts, at, relay>>

------------------------------------------------------------------------------
(* DeliverOne *)

\* lease_until has passed, by the clock of the statement that asks.
Lapsed(m) == mail[m].state = "SENDING" /\ mail[m].leaseLeft = 0

\* Its first statement: the unfinished attempts of leases that ran out.  A row
\* that another worker has changed is waited for.  A transaction that finds no
\* mail to reopen, drop or claim changes nothing and is left out.
CloseAttempts(w) ==
    LET closed == {a \in attempts : a.result = "OPEN" /\ Lapsed(a.mail)} IN
    /\ at[w].pc = "idle" /\ \E m \in Mails : \/ mail[m].state = "SENDING"
                                             \/ mail[m].state \in Waiting /\ mail[m].waitLeft = 0
    /\ \A v \in Workers : at[v].closed \cap closed = {}
    /\ at' = [at EXCEPT ![w].pc = "sweeping", ![w].closed = closed]
    /\ UNCHANGED <<mail, proof, attempts, relay, underway>>

\* Its second statement: the deliveries whose leases have run out by then.
Swept == [m \in Mails |-> IF Lapsed(m)
                          THEN [mail[m] EXCEPT !.state = "RETRY_WAIT", !.token = Nil, !.waitLeft = 0]
                          ELSE mail[m]]
SweptAttempts(w) ==
    (attempts \ at[w].closed) \cup {[a EXCEPT !.result = "UNKNOWN"] : a \in at[w].closed}

\* Nothing is due, or what is due is locked.
Sweep(w) ==
    /\ at[w].pc = "sweeping"
    /\ mail' = Swept /\ attempts' = SweptAttempts(w)
    /\ at' = [at EXCEPT ![w] = Idle]
    /\ UNCHANGED <<proof, relay, underway>>

Due(m) == Swept[m].state \in Waiting /\ Swept[m].waitLeft = 0

\* What the claiming transaction makes of a due mail.
NextState(m) == IF mail[m].lifeLeft = 0 THEN "EXPIRED"
                ELSE IF mail[m].count >= MaxAttempts THEN "FAILED"
                ELSE IF ~Sendable(m) THEN "CANCELLED"
                ELSE "SENDING"

\* The delivery ends without another attempt.
Drop(w, m) ==
    /\ at[w].pc = "sweeping"
    /\ Due(m) /\ NextState(m) # "SENDING"
    /\ mail' = [Swept EXCEPT ![m].state = NextState(m)]
    /\ attempts' = SweptAttempts(w)
    /\ at' = [at EXCEPT ![w] = Idle]
    /\ UNCHANGED <<proof, relay, underway>>

Claim(w, m) ==
    /\ at[w].pc = "sweeping"
    /\ Due(m) /\ NextState(m) = "SENDING" /\ Cardinality(attempts) < MaxClaims
    /\ mail' = [Swept EXCEPT ![m].state = "SENDING", ![m].count = @ + 1, ![m].token = w,
                             ![m].leaseLeft = LeaseTicks]
    /\ attempts' = SweptAttempts(w) \cup {[mail |-> m, no |-> mail[m].count + 1, result |-> "OPEN"]}
    /\ at' = [at EXCEPT ![w] = [Idle EXCEPT !.pc = "claimed", !.job = m, !.no = mail[m].count + 1]]
    /\ UNCHANGED <<proof, relay, underway>>

Concluding(w, state, result) ==
    at' = [at EXCEPT ![w].pc = "answered", ![w].verdict = [state |-> state, result |-> result]]

\* The check just before the effect: SOURCE_OBSOLETE.
PassesMutant(w) == mail[at[w].job].lifeLeft > 0
Passes(w) == Sendable(at[w].job)

Recheck(w) ==
    /\ at[w].pc = "claimed"
    /\ IF Passes(w)
       THEN at' = [at EXCEPT ![w].pc = "cleared"]
       ELSE Concluding(w, "CANCELLED", "REJECTED")
    /\ UNCHANGED <<mail, proof, attempts, relay, underway>>

\* Sender.Send.  An error after DATA was written is SMTP_UNKNOWN, never permanent.
AmbiguousMutant(w) == Concluding(w, "FAILED", "REJECTED")
Ambiguous(w) ==
    Concluding(w, IF at[w].no >= MaxAttempts THEN "FAILED" ELSE "RETRY_WAIT", "UNKNOWN")

\* The relay accepts the mail; its answer arrives or is lost.
Transmit(w) ==
    /\ at[w].pc = "cleared"
    /\ relay' = [relay EXCEPT ![at[w].job] = @ \cup {at[w].no}]
    /\ Concluding(w, "SMTP_ACCEPTED", "SMTP_ACCEPTED") \/ Ambiguous(w)
    /\ UNCHANGED <<mail, proof, attempts, underway>>

\* The relay refuses for good, or for now, or is not reached.
Refuse(w) ==
    /\ at[w].pc = "cleared"
    /\ Concluding(w, "FAILED", "REJECTED") \/ Ambiguous(w)
    /\ UNCHANGED <<mail, proof, attempts, relay, underway>>

\* state = 'SENDING' and the lease token is the worker's own.
HoldsMutant(w) == mail[at[w].job].state = "SENDING"
Holds(w) == mail[at[w].job].state = "SENDING" /\ mail[at[w].job].token = w

\* A sweep under way has the attempt's row.
Contended(w) == \E v \in Workers : \E a \in at[v].closed : a.mail = at[w].job /\ a.no = at[w].no

Finish(w) ==
    LET m == at[w].job  v == at[w].verdict IN
    /\ at[w].pc = "answered" /\ Holds(w) /\ ~Contended(w)
    /\ mail' = [mail EXCEPT ![m].state = v.state, ![m].token = Nil, ![m].leaseLeft = 0,
                            ![m].waitLeft = RetryTicks]
    /\ attempts' = {IF a.mail = m /\ a.no = at[w].no /\ a.result = "OPEN"
                    THEN [a EXCEPT !.result = v.result] ELSE a : a \in attempts}
    /\ at' = [at EXCEPT ![w] = Idle]
    /\ UNCHANGED <<proof, relay, underway>>

\* "mail lease lost".
Lose(w) ==
    /\ at[w].pc = "answered" /\ ~Holds(w)
    /\ at' = [at EXCEPT ![w] = Idle]
    /\ UNCHANGED <<mail, proof, attempts, relay, underway>>

\* The worker dies, or its transaction fails: a finish and a sweep that wait for
\* each other's rows, too, are ended by the database.
Fault(w) ==
    /\ at[w].pc # "idle"
    /\ at' = [at EXCEPT ![w] = Idle]
    /\ UNCHANGED <<mail, proof, attempts, relay, underway>>

Next ==
    \/ \E m \in Mails : \/ \E p \in Requested : Issue(m, p)
                        \/ Notice(m) \/ Complete(m)
                        \/ \E n \in Mails : CompleteReset(m, n)
    \/ RevokeInvitation
    \/ Tick
    \/ \E w \in Workers : \/ CloseAttempts(w) \/ Sweep(w)
                          \/ \E m \in Mails : Drop(w, m) \/ Claim(w, m)
                          \/ Recheck(w) \/ Transmit(w) \/ Refuse(w)
                          \/ Finish(w) \/ Lose(w) \/ Fault(w)

Spec == Init /\ [][Next]_vars

------------------------------------------------------------------------------
(* Properties *)

Of(m, results) == {a.no : a \in {t \in attempts : t.mail = m /\ t.result \in results}}

\* Outcomes are fenced (mail.go:148-154,260-269): whatever lease was lost between
\* any two statements, the attempts are numbered one after the other, the last is
\* open while the mail is being sent, and a mail is accepted or rejected because
\* its last attempt was.  Not that every lost lease is on record as UNKNOWN: one
\* that runs out between the two statements leaves its attempt open.
AttemptsExplainDelivery ==
    \A m \in Mails :
        /\ Of(m, {"OPEN", "SMTP_ACCEPTED", "REJECTED", "UNKNOWN"}) = 1..mail[m].count
        /\ mail[m].state = "SENDING" => mail[m].count \in Of(m, {"OPEN"})
        /\ Of(m, {"SMTP_ACCEPTED"}) = IF mail[m].state = "SMTP_ACCEPTED" THEN {mail[m].count} ELSE {}
        /\ Of(m, {"REJECTED"}) \subseteq IF mail[m].state \in {"FAILED", "CANCELLED"}
                                         THEN {mail[m].count} ELSE {}

\* A mail that the relay took is on record as accepted, as unknown or not yet:
\* duplicates come from ambiguity only, and no record says "rejected" of a mail
\* that went out, nor "accepted" of one that did not (mail.go:107-115,238-250).
AcceptanceNeverDenied ==
    \A m \in Mails : /\ relay[m] \cap Of(m, {"REJECTED"}) = {}
                     /\ Of(m, {"SMTP_ACCEPTED"}) \subseteq relay[m]

\* "recheck challenge generation/deadline immediately before transmission"
\* (docs/08:94): once a proof is superseded, used or past its deadline, its mail
\* only goes out through a send that had passed the last check before, even
\* after a lost lease or a resend during a delivery (mail.go:186-218).
ObsoleteNotSent ==
    \A m \in Mails : mail[m].state # "NONE" /\ ~Sendable(m) => relay[m] \subseteq underway[m]
==============================================================================
