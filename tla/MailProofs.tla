------------------------------ MODULE MailProofs ------------------------------
(***************************************************************************)
(* What is on record about a security mail and what went out, for any      *)
(* number of mails, workers and attempts and any deadlines.  The argument: *)
(* a claim takes the next number of its mail, so nobody else concludes     *)
(* that attempt; a sweep that has closed attempts keeps their rows until   *)
(* it commits; a verdict says what its worker has seen; and a send that is *)
(* past the last check when its proof ends was counted as underway.        *)
(***************************************************************************)
EXTENDS Mail, TLAPS

Types ==
    /\ mail \in [Mails -> MailRow]
    /\ proof \in [Mails -> {"NONE", "LIVE", "CONSUMED", "REVOKED"}]
    /\ at \in [Workers -> Place]
    /\ relay \in [Mails -> SUBSET Nat]

\* A row that is not there yet carries nothing.
Absent == \A m \in Mails : mail[m].state = "NONE" => mail[m].count = 0 /\ proof[m] = "NONE"

\* The attempts are numbered, each number once, the last is open while the mail is
\* sent and says how the mail got where it is.  An earlier one may have been left
\* open.  Over tables, since a claim sweeps before it claims.
Book(rows, tries) ==
    /\ tries \subseteq Attempt
    /\ \A a, c \in tries : a.mail = c.mail /\ a.no = c.no => a = c
    /\ \A m \in Mails : \A n \in 1..rows[m].count : \E a \in tries : a.mail = m /\ a.no = n
    /\ \A a \in tries :
          LET row == rows[a.mail] IN
          /\ a.no <= row.count
          /\ row.state = "SENDING" /\ a.no = row.count => a.result = "OPEN"
          /\ a.result = "SMTP_ACCEPTED" <=> row.state = "SMTP_ACCEPTED" /\ a.no = row.count
          /\ a.result = "REJECTED" => row.state \in {"FAILED", "CANCELLED"} /\ a.no = row.count
    /\ \A m \in Mails : rows[m].state \in {"SENDING", "SMTP_ACCEPTED"} => rows[m].count > 0

\* What is on record of an attempt is what the relay did.
Honest(tries) ==
    \A a \in tries : /\ a.result = "REJECTED" => a.no \notin relay[a.mail]
                     /\ a.result = "SMTP_ACCEPTED" => a.no \in relay[a.mail]

\* A verdict moves the mail as it closes the attempt, and is true.
Sound(w) ==
    LET v == at[w].verdict IN
    /\ v \in Verdict
    /\ v.result = "SMTP_ACCEPTED" <=> v.state = "SMTP_ACCEPTED"
    /\ v.result = "REJECTED" => v.state \in {"FAILED", "CANCELLED"} /\ at[w].no \notin relay[at[w].job]
    /\ v.result = "SMTP_ACCEPTED" => at[w].no \in relay[at[w].job]

Busy(w) == at[w].pc \in {"claimed", "cleared", "answered"}

\* A busy worker has an attempt of its own, not yet concluded, which is the last
\* one as long as the mail is the worker's.
Works(w, rows, tries) ==
    Busy(w) =>
        /\ at[w].job \in Mails
        /\ at[w].no \in 1..rows[at[w].job].count
        /\ rows[at[w].job].state = "SENDING" /\ rows[at[w].job].token = w =>
              at[w].no = rows[at[w].job].count
        /\ \A a \in tries : a.mail = at[w].job /\ a.no = at[w].no => a.result \in {"OPEN", "UNKNOWN"}
        /\ at[w].pc \in {"claimed", "cleared"} => at[w].no \notin relay[at[w].job]
        /\ at[w].pc = "answered" => Sound(w)

Apart == \A w, v \in Workers :
            w # v /\ Busy(w) /\ Busy(v) /\ at[w].job = at[v].job => at[w].no # at[v].no

\* What a sweep has closed and not committed is still open for all others, and, if
\* it is the last attempt of a mail being sent, its lease is over.
Closes(v, rows, tries) ==
    \A a \in at[v].closed :
        /\ a \in tries /\ a.result = "OPEN"
        /\ rows[a.mail].state = "SENDING" /\ a.no = rows[a.mail].count => rows[a.mail].leaseLeft = 0
Sweeps == /\ \A v \in Workers : Closes(v, mail, attempts)
          /\ \A w, v \in Workers : w # v => at[w].closed \cap at[v].closed = {}

Taken(rows) == \A m \in Mails : relay[m] \subseteq 1..rows[m].count

\* Everything the invariant says of rows and attempts.
Ledger(rows, tries) ==
    /\ Book(rows, tries) /\ Honest(tries) /\ Taken(rows)
    /\ \A w \in Workers : Works(w, rows, tries)

\* What reached the relay, or still may, of a mail that is obsolete was underway.
Cleared(m) == {at[w].no : w \in {v \in Workers : at[v].job = m /\ at[v].pc = "cleared"}}
Covered == \A m \in Mails : mail[m].state # "NONE" /\ ~Sendable(m) => relay[m] \cup Cleared(m) \subseteq underway[m]

Inv == Types /\ Absent /\ Ledger(mail, attempts) /\ Apart /\ Sweeps /\ Covered

------------------------------------------------------------------------------
(* Rows *)

LEMMA Bounds ==
    /\ LifeTicks \in Nat \ {0} /\ LifeTicks \in 0..LifeTicks
    /\ 0 \in 0..LifeTicks /\ 0 \in 0..LeaseTicks /\ LeaseTicks \in 0..LeaseTicks
    /\ 0 \in 0..RetryTicks /\ RetryTicks \in 0..RetryTicks
    /\ 0 \in 0..MaxAttempts /\ MaxAttempts \in Nat
    /\ \A n \in 0..LifeTicks : Before(n) \in 0..LifeTicks
    /\ \A n \in 0..LeaseTicks : Before(n) \in 0..LeaseTicks
    /\ \A n \in 0..RetryTicks : Before(n) \in 0..RetryTicks
<1>1. LifeTicks \in Nat \ {0} /\ LeaseTicks \in Nat /\ RetryTicks \in Nat /\ MaxAttempts \in Nat
    BY MailAssumption
<1>2. ASSUME NEW m \in Nat, NEW n \in 0..m PROVE Before(n) \in 0..m BY DEF Before
<1> QED BY <1>1, <1>2

LEMMA NewRow ==
    ASSUME NEW p \in Purpose
    PROVE  /\ Enqueued(p) \in MailRow /\ Enqueued(p).state = "QUEUED" /\ Enqueued(p).count = 0
           /\ Enqueued(p).lifeLeft = LifeTicks
BY Bounds DEF Enqueued, NoMail, MailRow, Waiting

\* A row whose state moved, and no more.
LEMMA RowState ==
    ASSUME NEW r \in MailRow, NEW s \in {"NONE", "SENDING"} \cup Waiting \cup Terminal
    PROVE  /\ [r EXCEPT !.state = s] \in MailRow
           /\ [r EXCEPT !.state = s].state = s /\ [r EXCEPT !.state = s].count = r.count
           /\ [r EXCEPT !.state = s].token = r.token /\ [r EXCEPT !.state = s].lifeLeft = r.lifeLeft
           /\ [r EXCEPT !.state = s].leaseLeft = r.leaseLeft
BY DEF MailRow

\* The ledger does not see how a mail waits, nor that one that waits is cancelled.
LEMMA RowsMove ==
    ASSUME NEW r0, NEW r1, NEW tries, Ledger(r0, tries),
           \A m \in Mails :
              /\ r1[m].count = r0[m].count
              /\ r1[m].state = "SENDING" => r1[m].token = r0[m].token
              /\ \/ r1[m].state = r0[m].state
                 \/ r0[m].state \in Waiting \cup {"NONE"} /\ r1[m].state \notin {"SENDING", "SMTP_ACCEPTED"}
    PROVE  Ledger(r1, tries)
<1>1. Book(r0, tries) BY DEF Ledger
<1>2. \A a \in tries : a.mail \in Mails BY <1>1 DEF Book, Attempt
<1>3. Book(r1, tries)
    <2>1. \A a \in tries :
             /\ a.no <= r1[a.mail].count
             /\ r1[a.mail].state = "SENDING" /\ a.no = r1[a.mail].count => a.result = "OPEN"
             /\ a.result = "SMTP_ACCEPTED" <=> r1[a.mail].state = "SMTP_ACCEPTED" /\ a.no = r1[a.mail].count
             /\ a.result = "REJECTED" => r1[a.mail].state \in {"FAILED", "CANCELLED"} /\ a.no = r1[a.mail].count
        BY <1>1, <1>2 DEF Book, Waiting
    <2>2. \A m \in Mails : r1[m].state \in {"SENDING", "SMTP_ACCEPTED"} => r1[m].count > 0
        BY <1>1 DEF Book, Waiting
    <2> QED BY <1>1, <2>1, <2>2 DEF Book
<1>4. Taken(r1) BY DEF Ledger, Taken
<1>5. \A w \in Workers : Works(w, r1, tries)
    <2> TAKE w \in Workers
    <2>1. Works(w, r0, tries) BY DEF Ledger
    <2>2. SUFFICES ASSUME Busy(w) PROVE Works(w, r1, tries) BY DEF Works
    <2>3. at[w].job \in Mails BY <2>1, <2>2 DEF Works
    <2>4. r1[at[w].job].state = "SENDING" =>
             r0[at[w].job].state = "SENDING" /\ r1[at[w].job].token = r0[at[w].job].token
        BY <2>3
    <2> QED BY <2>1, <2>2, <2>3, <2>4 DEF Works
<1> QED BY <1>3, <1>4, <1>5 DEF Ledger

------------------------------------------------------------------------------
(* Requests, administrators and the clock *)

\* Steps of others than the workers: rows and proofs move, attempts do not.
LEMMA TableStep ==
    ASSUME Inv, UNCHANGED <<attempts, at, relay>>, NEW gone,
           mail' \in [Mails -> MailRow],
           proof' \in [Mails -> {"NONE", "LIVE", "CONSUMED", "REVOKED"}],
           \A m \in Mails :
              underway'[m] = IF m \in gone /\ Sendable(m) THEN relay[m] \cup Cleared(m) ELSE underway[m],
           \A m \in Mails :
              /\ mail'[m].count = mail[m].count
              /\ mail'[m].state = "SENDING" => mail'[m].token = mail[m].token
              /\ mail'[m].state = "SENDING" /\ mail[m].leaseLeft = 0 => mail'[m].leaseLeft = 0
              /\ \/ mail'[m].state = mail[m].state
                 \/ mail[m].state \in Waiting \cup {"NONE"} /\ mail'[m].state \in {"QUEUED", "CANCELLED"},
           \A m \in Mails : mail'[m].state = "NONE" => proof'[m] = proof[m],
           \A m \in Mails : mail'[m].state # "NONE" /\ ~Sendable(m)' =>
                                \/ mail[m].state # "NONE" /\ ~Sendable(m)
                                \/ m \in gone /\ Sendable(m)
    PROVE  Inv'
<1>1. Types' BY DEF Inv, Types
<1>2. Absent' BY DEF Inv, Absent, Waiting
<1>3. Ledger(mail', attempts) BY RowsMove DEF Inv
<1>4. Ledger(mail, attempts)' BY <1>3 DEF Ledger, Book, Honest, Taken, Works, Busy, Sound
<1>5. Apart' BY DEF Inv, Apart, Busy
<1>6. \A m \in Mails : Cleared(m)' = Cleared(m) BY DEF Cleared
<1>7. Covered' BY <1>6 DEF Inv, Covered
<1>8. Sweeps'
    <2>1. \A a \in attempts : a.mail \in Mails BY DEF Inv, Ledger, Book, Attempt
    <2>2. \A v \in Workers : Closes(v, mail, attempts)' BY <2>1 DEF Inv, Sweeps, Closes, Waiting
    <2> QED BY <2>2 DEF Inv, Sweeps
<1> QED BY <1>1, <1>2, <1>4, <1>5, <1>7, <1>8 DEF Inv

LEMMA SnapshotTaken ==
    ASSUME NEW gone, Snapshot(gone), NEW m \in Mails
    PROVE  underway'[m] = IF m \in gone /\ Sendable(m) THEN relay[m] \cup Cleared(m) ELSE underway[m]
BY DEF Snapshot, Cleared

\* A mail that was taken by the relay, or whose proof lives, is there.
LEMMA Present ==
    ASSUME Inv, NEW m \in Mails, relay[m] # {} \/ proof[m] = "LIVE"
    PROVE  mail[m].state # "NONE"
BY DEF Inv, Absent, Ledger, Taken

\* Revoking the proofs of a purpose cancels mails that wait, and nothing more.
LEMMA Revoked ==
    ASSUME Types, NEW p
    PROVE  /\ CancelledMail(p) \in [Mails -> MailRow]
           /\ RevokedProof(p) \in [Mails -> {"NONE", "LIVE", "CONSUMED", "REVOKED"}]
           /\ \A m \in Mails :
                 /\ CancelledMail(p)[m].count = mail[m].count /\ CancelledMail(p)[m].token = mail[m].token
                 /\ CancelledMail(p)[m].lifeLeft = mail[m].lifeLeft
                 /\ CancelledMail(p)[m].leaseLeft = mail[m].leaseLeft
                 /\ \/ CancelledMail(p)[m].state = mail[m].state
                    \/ mail[m].state \in Waiting /\ CancelledMail(p)[m].state = "CANCELLED"
           /\ \A m \in Mails : RevokedProof(p)[m] = IF m \in Live(p) THEN "REVOKED" ELSE proof[m]
<1>1. \A m \in Mails : mail[m] \in MailRow BY DEF Types
<1>2. \A m \in Mails : \/ CancelledMail(p)[m] = mail[m]
                       \/ mail[m].state \in Waiting /\ CancelledMail(p)[m] = [mail[m] EXCEPT !.state = "CANCELLED"]
    BY DEF CancelledMail
<1>3. \A m \in Mails :
         /\ CancelledMail(p)[m] \in MailRow
         /\ CancelledMail(p)[m].count = mail[m].count /\ CancelledMail(p)[m].token = mail[m].token
         /\ CancelledMail(p)[m].lifeLeft = mail[m].lifeLeft
         /\ CancelledMail(p)[m].leaseLeft = mail[m].leaseLeft
         /\ \/ CancelledMail(p)[m].state = mail[m].state
            \/ mail[m].state \in Waiting /\ CancelledMail(p)[m].state = "CANCELLED"
    <2> TAKE m \in Mails
    <2>1. /\ [mail[m] EXCEPT !.state = "CANCELLED"] \in MailRow
          /\ [mail[m] EXCEPT !.state = "CANCELLED"].state = "CANCELLED"
          /\ [mail[m] EXCEPT !.state = "CANCELLED"].count = mail[m].count
          /\ [mail[m] EXCEPT !.state = "CANCELLED"].token = mail[m].token
          /\ [mail[m] EXCEPT !.state = "CANCELLED"].lifeLeft = mail[m].lifeLeft
          /\ [mail[m] EXCEPT !.state = "CANCELLED"].leaseLeft = mail[m].leaseLeft
        BY <1>1, RowState DEF Terminal
    <2> QED BY <1>1, <1>2, <2>1
<1>4. CancelledMail(p) \in [Mails -> MailRow]
    <2>1. CancelledMail(p) = [m \in Mails |-> CancelledMail(p)[m]] BY DEF CancelledMail
    <2> QED BY <1>3, <2>1
<1>5. RevokedProof(p) \in [Mails -> {"NONE", "LIVE", "CONSUMED", "REVOKED"}]
    BY DEF RevokedProof, Types
<1>6. \A m \in Mails : RevokedProof(p)[m] = IF m \in Live(p) THEN "REVOKED" ELSE proof[m]
    BY DEF RevokedProof
<1> QED BY <1>3, <1>4, <1>5, <1>6

LEMMA IssueStep ==
    ASSUME Inv, NEW m \in Mails, NEW p \in Challenge \cup {"INVITATION"}, Issue(m, p)
    PROVE  Inv'
<1>1. /\ mail[m].state = "NONE" /\ mail[m].count = 0 /\ Types
      /\ mail' = [CancelledMail(p) EXCEPT ![m] = Enqueued(p)]
      /\ proof' = [RevokedProof(p) EXCEPT ![m] = "LIVE"]
      /\ Snapshot(Live(p)) /\ UNCHANGED <<attempts, at, relay>>
    BY DEF Inv, Absent, Issue, New
<1>2. p \in Purpose BY DEF Purpose
<1>3. /\ mail' \in [Mails -> MailRow]
      /\ proof' \in [Mails -> {"NONE", "LIVE", "CONSUMED", "REVOKED"}]
      /\ mail'[m] = Enqueued(p) /\ proof'[m] = "LIVE"
      /\ \A n \in Mails \ {m} : mail'[n] = CancelledMail(p)[n] /\ proof'[n] = RevokedProof(p)[n]
    BY <1>1, <1>2, Revoked, NewRow
<1>4. Sendable(m)' BY <1>2, <1>3, NewRow, Bounds DEF Sendable
<1>5. \A n \in Mails : mail'[n].state = "NONE" => proof'[n] = proof[n]
    <2>1. \A n \in Mails : mail'[n].state = "NONE" => n # m /\ mail[n].state = "NONE"
        BY <1>1, <1>2, <1>3, NewRow, Revoked
    <2> QED BY <1>1, <1>3, <2>1, Revoked, Present DEF Live
<1>6. \A n \in Mails \ {m} : ~Sendable(n)' => ~Sendable(n) \/ n \in Live(p)
    BY <1>1, <1>3, Revoked DEF Sendable
<1>7. \A n \in Mails : mail'[n].state # "NONE" /\ ~Sendable(n)' =>
                           \/ mail[n].state # "NONE" /\ ~Sendable(n)
                           \/ n \in Live(p) /\ Sendable(n)
    <2>1. \A n \in Mails \ {m} : mail'[n].state # "NONE" => mail[n].state # "NONE"
        BY <1>1, <1>3, Revoked DEF Waiting
    <2> QED BY <1>4, <1>6, <2>1
<1>8. \A n \in Mails :
         /\ mail'[n].count = mail[n].count
         /\ mail'[n].state = "SENDING" => mail'[n].token = mail[n].token
         /\ mail'[n].state = "SENDING" /\ mail[n].leaseLeft = 0 => mail'[n].leaseLeft = 0
         /\ \/ mail'[n].state = mail[n].state
            \/ mail[n].state \in Waiting \cup {"NONE"} /\ mail'[n].state \in {"QUEUED", "CANCELLED"}
    <2>1. \A n \in Mails \ {m} : /\ mail'[n].count = mail[n].count /\ mail'[n].token = mail[n].token
                                 /\ mail'[n].leaseLeft = mail[n].leaseLeft
                                 /\ \/ mail'[n].state = mail[n].state
                                    \/ mail[n].state \in Waiting /\ mail'[n].state = "CANCELLED"
        BY <1>1, <1>3, Revoked
    <2>2. mail'[m].count = 0 /\ mail'[m].state = "QUEUED" BY <1>2, <1>3, NewRow
    <2> QED BY <1>1, <2>1, <2>2
<1>9. \A n \in Mails :
         underway'[n] = IF n \in Live(p) /\ Sendable(n) THEN relay[n] \cup Cleared(n) ELSE underway[n]
    BY <1>1, SnapshotTaken
<1> QED BY <1>1, <1>3, <1>5, <1>7, <1>8, <1>9, TableStep

LEMMA RevokeStep == ASSUME Inv, RevokeInvitation PROVE Inv'
<1> DEFINE p == "INVITATION"
<1>1. /\ Types /\ mail' = CancelledMail(p) /\ proof' = RevokedProof(p)
      /\ Snapshot(Live(p)) /\ UNCHANGED <<attempts, at, relay>>
    BY DEF Inv, RevokeInvitation
<1>2. \A n \in Mails : mail'[n].state = "NONE" => proof'[n] = proof[n]
    <2>1. \A n \in Mails : mail'[n].state = "NONE" => mail[n].state = "NONE"
        BY <1>1, Revoked
    <2> QED BY <1>1, <2>1, Revoked, Present DEF Live
<1>3. \A n \in Mails : mail'[n].state # "NONE" /\ ~Sendable(n)' =>
                           \/ mail[n].state # "NONE" /\ ~Sendable(n)
                           \/ n \in Live(p) /\ Sendable(n)
    BY <1>1, Revoked DEF Sendable, Waiting
<1>4. \A n \in Mails :
         /\ mail'[n].count = mail[n].count /\ mail'[n].token = mail[n].token
         /\ mail'[n].leaseLeft = mail[n].leaseLeft
         /\ \/ mail'[n].state = mail[n].state
            \/ mail[n].state \in Waiting /\ mail'[n].state = "CANCELLED"
    BY <1>1, Revoked
<1>5. \A n \in Mails :
         underway'[n] = IF n \in Live(p) /\ Sendable(n) THEN relay[n] \cup Cleared(n) ELSE underway[n]
    BY <1>1, SnapshotTaken
<1>6. /\ mail' \in [Mails -> MailRow]
      /\ proof' \in [Mails -> {"NONE", "LIVE", "CONSUMED", "REVOKED"}]
    BY <1>1, Revoked
<1> QED BY <1>1, <1>2, <1>3, <1>4, <1>5, <1>6, TableStep

\* A proof is used up, and a notice may be made in a row n.
LEMMA NoticeStep ==
    ASSUME Inv, NEW n \in Mails, NEW used \in SUBSET Mails, New(n),
           mail' = [mail EXCEPT ![n] = Enqueued("SECURITY_NOTICE")],
           \A m \in used : proof[m] = "LIVE",
           proof' \in [Mails -> {"NONE", "LIVE", "CONSUMED", "REVOKED"}],
           proof'[n] = "LIVE", \A m \in Mails \ (used \cup {n}) : proof'[m] = proof[m],
           \A m \in Mails :
              underway'[m] = IF m \in used /\ Sendable(m) THEN relay[m] \cup Cleared(m) ELSE underway[m],
           UNCHANGED <<attempts, at, relay>>
    PROVE  Inv'
<1>1. /\ mail[n].state = "NONE" /\ mail[n].count = 0 /\ mail \in [Mails -> MailRow]
    BY DEF Inv, Absent, New, Types
<1>2. "SECURITY_NOTICE" \in Purpose BY DEF Purpose
<1>3. /\ mail' \in [Mails -> MailRow] /\ mail'[n] = Enqueued("SECURITY_NOTICE")
      /\ \A m \in Mails \ {n} : mail'[m] = mail[m]
    BY <1>1, <1>2, NewRow
<1>4. mail'[n].state = "QUEUED" /\ mail'[n].count = 0 /\ Sendable(n)'
    BY <1>2, <1>3, NewRow, Bounds DEF Sendable
<1>5. \A m \in Mails : mail'[m].state = "NONE" => proof'[m] = proof[m]
    BY <1>3, <1>4, Present
<1>6. \A m \in Mails : mail'[m].state # "NONE" /\ ~Sendable(m)' =>
                           \/ mail[m].state # "NONE" /\ ~Sendable(m)
                           \/ m \in used /\ Sendable(m)
    BY <1>3, <1>4 DEF Sendable
<1>7. \A m \in Mails :
         /\ mail'[m].count = mail[m].count
         /\ mail'[m].state = "SENDING" => mail'[m].token = mail[m].token
         /\ mail'[m].state = "SENDING" /\ mail[m].leaseLeft = 0 => mail'[m].leaseLeft = 0
         /\ \/ mail'[m].state = mail[m].state
            \/ mail[m].state \in Waiting \cup {"NONE"} /\ mail'[m].state \in {"QUEUED", "CANCELLED"}
    BY <1>1, <1>3, <1>4
<1> QED BY <1>3, <1>5, <1>6, <1>7, TableStep

LEMMA CompleteStep == ASSUME Inv, NEW m \in Mails, Complete(m) PROVE Inv'
<1>1. /\ proof[m] = "LIVE" /\ proof' = [proof EXCEPT ![m] = "CONSUMED"] /\ Snapshot({m})
      /\ UNCHANGED <<mail, attempts, at, relay>>
      /\ proof \in [Mails -> {"NONE", "LIVE", "CONSUMED", "REVOKED"}] /\ mail \in [Mails -> MailRow]
    BY DEF Complete, Usable, Inv, Types
<1>2. \A n \in Mails : mail'[n].state = "NONE" => proof'[n] = proof[n] BY <1>1, Present
<1>3. \A n \in Mails : mail'[n].state # "NONE" /\ ~Sendable(n)' =>
                           \/ mail[n].state # "NONE" /\ ~Sendable(n)
                           \/ n \in {m} /\ Sendable(n)
    BY <1>1 DEF Sendable
<1>4. \A n \in Mails :
         underway'[n] = IF n \in {m} /\ Sendable(n) THEN relay[n] \cup Cleared(n) ELSE underway[n]
    BY <1>1, SnapshotTaken
<1>5. proof' \in [Mails -> {"NONE", "LIVE", "CONSUMED", "REVOKED"}] BY <1>1
<1> QED BY <1>1, <1>2, <1>3, <1>4, <1>5, TableStep

LEMMA NoticesStep ==
    ASSUME Inv, NEW n \in Mails, Notice(n) \/ \E m \in Mails : CompleteReset(m, n)
    PROVE  Inv'
<1>1. proof \in [Mails -> {"NONE", "LIVE", "CONSUMED", "REVOKED"}] BY DEF Inv, Types
<1>2. CASE Notice(n)
    <2>1. proof' \in [Mails -> {"NONE", "LIVE", "CONSUMED", "REVOKED"}] /\ proof'[n] = "LIVE"
          /\ \A m \in Mails \ ({} \cup {n}) : proof'[m] = proof[m]
        BY <1>1, <1>2 DEF Notice
    <2>2. \A m \in Mails :
             underway'[m] = IF m \in {} /\ Sendable(m) THEN relay[m] \cup Cleared(m) ELSE underway[m]
        BY <1>2 DEF Notice
    <2>3. \A m \in {} : proof[m] = "LIVE" OBVIOUS
    <2>4. /\ New(n) /\ mail' = [mail EXCEPT ![n] = Enqueued("SECURITY_NOTICE")]
          /\ UNCHANGED <<attempts, at, relay>>
        BY <1>2 DEF Notice
    <2>5. {} \in SUBSET Mails OBVIOUS
    <2> QED BY <2>1, <2>2, <2>3, <2>4, <2>5, NoticeStep
<1>3. ASSUME NEW m \in Mails, CompleteReset(m, n) PROVE Inv'
    <2>1. m # n BY <1>3, Present DEF CompleteReset, Usable, New
    <2>2. /\ proof' \in [Mails -> {"NONE", "LIVE", "CONSUMED", "REVOKED"}] /\ proof'[n] = "LIVE"
          /\ \A k \in Mails \ ({m} \cup {n}) : proof'[k] = proof[k]
        BY <1>1, <1>3, <2>1 DEF CompleteReset
    <2>3. \A k \in Mails :
             underway'[k] = IF k \in {m} /\ Sendable(k) THEN relay[k] \cup Cleared(k) ELSE underway[k]
        BY <1>3, SnapshotTaken DEF CompleteReset
    <2>4. /\ New(n) /\ mail' = [mail EXCEPT ![n] = Enqueued("SECURITY_NOTICE")]
          /\ UNCHANGED <<attempts, at, relay>> /\ \A k \in {m} : proof[k] = "LIVE"
        BY <1>3 DEF CompleteReset, Usable
    <2>5. {m} \in SUBSET Mails OBVIOUS
    <2> QED BY <2>2, <2>3, <2>4, <2>5, NoticeStep
<1> QED BY <1>2, <1>3

LEMMA TickStep == ASSUME Inv, Tick PROVE Inv'
<1>1. UNCHANGED <<proof, attempts, at, relay>> /\ Snapshot({m \in Mails : mail[m].lifeLeft = 1})
      /\ proof \in [Mails -> {"NONE", "LIVE", "CONSUMED", "REVOKED"}]
    BY DEF Tick, Inv, Types
<1>2. \A m \in Mails : /\ mail'[m] \in MailRow /\ mail'[m].lifeLeft = Before(mail[m].lifeLeft)
                       /\ mail[m].leaseLeft = 0 => mail'[m].leaseLeft = 0
                       /\ UNCHANGED <<mail[m].state, mail[m].count, mail[m].token>>
    <2> TAKE m \in Mails
    <2>1. mail[m] \in MailRow BY DEF Inv, Types
    <2>2. mail'[m] = [mail[m] EXCEPT !.lifeLeft = Before(mail[m].lifeLeft),
                                     !.leaseLeft = Before(mail[m].leaseLeft),
                                     !.waitLeft = Before(mail[m].waitLeft)]
        BY <2>1 DEF Tick, MailRow
    <2>3. /\ Before(mail[m].lifeLeft) \in 0..LifeTicks /\ Before(mail[m].leaseLeft) \in 0..LeaseTicks
          /\ Before(mail[m].waitLeft) \in 0..RetryTicks
        BY <2>1, Bounds DEF MailRow
    <2> QED BY <2>1, <2>2, <2>3 DEF MailRow, Before
<1>3. mail' \in [Mails -> MailRow]
    <2>1. mail' = [m \in Mails |-> mail'[m]] BY DEF Tick
    <2> QED BY <1>2, <2>1
<1>4. \A m \in Mails : mail'[m].state # "NONE" /\ ~Sendable(m)' =>
                           \/ mail[m].state # "NONE" /\ ~Sendable(m)
                           \/ m \in {n \in Mails : mail[n].lifeLeft = 1} /\ Sendable(m)
    <2>1. \A m \in Mails : mail[m].lifeLeft \in Nat BY Bounds DEF Inv, Types, MailRow
    <2>2. \A m \in Mails : Before(mail[m].lifeLeft) > 0 \/ mail[m].lifeLeft \in {0, 1}
        BY <2>1 DEF Before
    <2> QED BY <1>1, <1>2, <2>1, <2>2 DEF Sendable
<1> QED BY <1>1, <1>2, <1>3, <1>4, SnapshotTaken, TableStep

------------------------------------------------------------------------------
(* The sweep of lapsed leases *)

LEMMA SweptRows ==
    ASSUME Types
    PROVE  /\ Swept \in [Mails -> MailRow]
           /\ \A m \in Mails :
                 /\ Swept[m].count = mail[m].count /\ Swept[m].lifeLeft = mail[m].lifeLeft
                 /\ Lapsed(m) => Swept[m].state = "RETRY_WAIT" /\ mail[m].state = "SENDING"
                 /\ ~Lapsed(m) => Swept[m] = mail[m]
<1>1. ASSUME NEW m \in Mails
      PROVE  /\ Swept[m] \in MailRow
             /\ Swept[m].count = mail[m].count /\ Swept[m].lifeLeft = mail[m].lifeLeft
             /\ Lapsed(m) => Swept[m].state = "RETRY_WAIT" /\ mail[m].state = "SENDING"
             /\ ~Lapsed(m) => Swept[m] = mail[m]
    <2>1. mail[m] \in MailRow BY DEF Types
    <2>2. CASE Lapsed(m)
        <3>1. Swept[m] = [mail[m] EXCEPT !.state = "RETRY_WAIT", !.token = Nil, !.waitLeft = 0]
            BY <2>2 DEF Swept
        <3> QED BY <2>1, <2>2, <3>1, Bounds DEF MailRow, Waiting, Lapsed
    <2>3. CASE ~Lapsed(m) BY <2>1, <2>3 DEF Swept
    <2> QED BY <2>2, <2>3
<1>2. Swept = [m \in Mails |-> Swept[m]] BY DEF Swept
<1> QED BY <1>1, <1>2

\* A sweep turns the attempts it has closed into unknown ones.
LEMMA SweptOnes ==
    ASSUME attempts \subseteq Attempt, NEW w, at[w].closed \subseteq attempts
    PROVE  /\ SweptAttempts(w) \subseteq Attempt
           /\ \A a \in attempts : \E c \in SweptAttempts(w) : c.mail = a.mail /\ c.no = a.no
           /\ \A a \in attempts \ at[w].closed : a \in SweptAttempts(w)
           /\ \A c \in SweptAttempts(w) : \E a \in attempts :
                 /\ c.mail = a.mail /\ c.no = a.no
                 /\ c = IF a \in at[w].closed THEN [a EXCEPT !.result = "UNKNOWN"] ELSE a
                 /\ c.result = IF a \in at[w].closed THEN "UNKNOWN" ELSE a.result
<1> DEFINE closed == at[w].closed
           new(a) == IF a \in closed THEN [a EXCEPT !.result = "UNKNOWN"] ELSE a
<1>1. \A a \in attempts : /\ new(a) \in Attempt /\ new(a).mail = a.mail /\ new(a).no = a.no
                          /\ new(a).result = IF a \in closed THEN "UNKNOWN" ELSE a.result
    BY DEF Attempt
<1>2. SweptAttempts(w) = {new(a) : a \in attempts}
    <2>1. \A a \in attempts : new(a) \in SweptAttempts(w) BY DEF SweptAttempts
    <2>2. \A c \in SweptAttempts(w) : \E a \in attempts : c = new(a) BY DEF SweptAttempts
    <2> QED BY <2>1, <2>2
<1>3. ASSUME NEW c \in SweptAttempts(w)
      PROVE  \E a \in attempts : /\ c.mail = a.mail /\ c.no = a.no /\ c = new(a)
                                 /\ c.result = IF a \in closed THEN "UNKNOWN" ELSE a.result
    <2>1. PICK a \in attempts : c = new(a) BY <1>2
    <2> HIDE DEF new
    <2>2. /\ new(a).mail = a.mail /\ new(a).no = a.no
          /\ new(a).result = IF a \in closed THEN "UNKNOWN" ELSE a.result
        BY <1>1
    <2> QED BY <2>1, <2>2
<1>4. ASSUME NEW a \in attempts PROVE \E c \in SweptAttempts(w) : c.mail = a.mail /\ c.no = a.no
    <2>1. new(a) \in SweptAttempts(w) BY <1>2
    <2> HIDE DEF new
    <2> QED BY <1>1, <2>1
<1>5. \A a \in attempts \ closed : a \in SweptAttempts(w) BY DEF SweptAttempts
<1> HIDE DEF new
<1>6. SweptAttempts(w) \subseteq Attempt BY <1>1, <1>2
<1> QED BY <1>3, <1>4, <1>5, <1>6 DEF new

LEMMA SweptLedger ==
    ASSUME Types, Ledger(mail, attempts), Sweeps, NEW z \in Workers
    PROVE  /\ Ledger(Swept, SweptAttempts(z))
           /\ \A v \in Workers \ {z} : \A a \in at[v].closed :
                 /\ a \in SweptAttempts(z) /\ a.result = "OPEN"
                 /\ ~(Swept[a.mail].state = "SENDING" /\ a.no = Swept[a.mail].count)
<1>1. Book(mail, attempts) BY DEF Ledger
<1>2. attempts \subseteq Attempt BY <1>1 DEF Book
<1>3. \A a \in attempts : a.mail \in Mails /\ a.no \in Nat BY <1>2 DEF Attempt
<1>0. \A v \in Workers : /\ at[v].closed \subseteq attempts
                         /\ \A a \in at[v].closed :
                               /\ a \in attempts /\ a.result = "OPEN" /\ a.mail \in Mails
                               /\ ~(Swept[a.mail].state = "SENDING" /\ a.no = Swept[a.mail].count)
    BY <1>3, SweptRows DEF Sweeps, Closes, Lapsed
<1>4. Book(Swept, SweptAttempts(z))
    <2>1. \A c, d \in SweptAttempts(z) : c.mail = d.mail /\ c.no = d.no => c = d
        BY <1>0, <1>1, <1>2, SweptOnes DEF Book
    <2>2. \A m \in Mails : \A n \in 1..Swept[m].count : \E c \in SweptAttempts(z) : c.mail = m /\ c.no = n
        <3>1. ASSUME NEW m \in Mails, NEW n \in 1..Swept[m].count
              PROVE  \E c \in SweptAttempts(z) : c.mail = m /\ c.no = n
            <4>1. PICK a \in attempts : a.mail = m /\ a.no = n BY <1>1, SweptRows DEF Book
            <4> QED BY <1>0, <1>2, <4>1, SweptOnes
        <3> QED BY <3>1
    <2>3. ASSUME NEW c \in SweptAttempts(z)
          PROVE  /\ c.no <= Swept[c.mail].count
                 /\ Swept[c.mail].state = "SENDING" /\ c.no = Swept[c.mail].count => c.result = "OPEN"
                 /\ c.result = "SMTP_ACCEPTED" <=> Swept[c.mail].state = "SMTP_ACCEPTED" /\ c.no = Swept[c.mail].count
                 /\ c.result = "REJECTED" => Swept[c.mail].state \in {"FAILED", "CANCELLED"} /\ c.no = Swept[c.mail].count
        <3>1. PICK a \in attempts :
                 /\ c.mail = a.mail /\ c.no = a.no
                 /\ c.result = IF a \in at[z].closed THEN "UNKNOWN" ELSE a.result
            BY <1>0, <1>2, SweptOnes
        <3>2. a.mail \in Mails BY <1>3
        <3>3. /\ a.no <= mail[a.mail].count
              /\ mail[a.mail].state = "SENDING" /\ a.no = mail[a.mail].count => a.result = "OPEN"
              /\ a.result = "SMTP_ACCEPTED" <=> mail[a.mail].state = "SMTP_ACCEPTED" /\ a.no = mail[a.mail].count
              /\ a.result = "REJECTED" => mail[a.mail].state \in {"FAILED", "CANCELLED"} /\ a.no = mail[a.mail].count
            BY <1>1 DEF Book
        <3>4. Swept[a.mail].count = mail[a.mail].count
              /\ \/ Swept[a.mail].state = mail[a.mail].state
                 \/ Swept[a.mail].state = "RETRY_WAIT" /\ mail[a.mail].state = "SENDING"
            BY <3>2, SweptRows
        <3>5. CASE a \in at[z].closed BY <1>0, <3>1, <3>3, <3>4, <3>5
        <3>6. CASE a \notin at[z].closed BY <3>1, <3>3, <3>4, <3>6
        <3> QED BY <3>5, <3>6
    <2>4. \A m \in Mails : Swept[m].state \in {"SENDING", "SMTP_ACCEPTED"} => Swept[m].count > 0
        BY <1>1, SweptRows DEF Book
    <2> QED BY <1>0, <1>2, <2>1, <2>2, <2>3, <2>4, SweptOnes DEF Book
<1>5. Honest(SweptAttempts(z)) BY <1>0, <1>2, SweptOnes DEF Ledger, Honest
<1>6. Taken(Swept) BY SweptRows DEF Ledger, Taken
<1>7. \A w \in Workers : Works(w, Swept, SweptAttempts(z))
    <2> TAKE w \in Workers
    <2>1. SUFFICES ASSUME Busy(w) PROVE Works(w, Swept, SweptAttempts(z)) BY DEF Works
    <2>2. Works(w, mail, attempts) BY DEF Ledger
    <2>3. at[w].job \in Mails /\ at[w].no \in 1..Swept[at[w].job].count BY <2>1, <2>2, SweptRows DEF Works
    <2>4. Swept[at[w].job].state = "SENDING" => Swept[at[w].job] = mail[at[w].job]
        BY <2>3, SweptRows
    <2>5. \A c \in SweptAttempts(z) : c.mail = at[w].job /\ c.no = at[w].no => c.result \in {"OPEN", "UNKNOWN"}
        BY <1>0, <1>2, <2>1, <2>2, SweptOnes DEF Works
    <2> QED BY <2>1, <2>2, <2>3, <2>4, <2>5 DEF Works
<1>8. \A v \in Workers \ {z} : \A a \in at[v].closed :
         /\ a \in SweptAttempts(z) /\ a.result = "OPEN"
         /\ ~(Swept[a.mail].state = "SENDING" /\ a.no = Swept[a.mail].count)
    <2> TAKE v \in Workers \ {z}
    <2>1. \A a \in at[v].closed : a \notin at[z].closed BY DEF Sweeps
    <2> QED BY <1>0, <1>2, <2>1, SweptOnes
<1> QED BY <1>4, <1>5, <1>6, <1>7, <1>8 DEF Ledger

------------------------------------------------------------------------------
(* The workers *)

\* What a worker's step leaves to show is the ledger and who has which attempt.
LEMMA Frame ==
    ASSUME Inv, UNCHANGED <<proof, underway>>,
           mail' \in [Mails -> MailRow], at' \in [Workers -> Place], relay' \in [Mails -> SUBSET Nat],
           \A m \in Mails : /\ mail'[m].state = "NONE" <=> mail[m].state = "NONE"
                            /\ mail'[m].state = "NONE" => mail'[m].count = mail[m].count
                            /\ mail'[m].lifeLeft = mail[m].lifeLeft,
           \A m \in Mails : Sendable(m) \/ relay'[m] \cup Cleared(m)' \subseteq relay[m] \cup Cleared(m)
    PROVE  Types' /\ Absent' /\ Covered'
<1>1. Types' /\ Absent' BY DEF Inv, Types, Absent
<1>2. \A m \in Mails : Sendable(m)' <=> Sendable(m) BY DEF Sendable
<1>3. Covered' BY <1>2 DEF Inv, Covered
<1> QED BY <1>1, <1>3

LEMMA LedgerPrimed ==
    ASSUME Ledger(mail', attempts'), UNCHANGED <<at, relay>> PROVE Ledger(mail, attempts)'
BY DEF Ledger, Book, Honest, Taken, Works, Busy, Sound

\* A sweep begins: some attempts of lapsed mails are closed, and no others have them.
LEMMA CloseStep == ASSUME Inv, NEW w \in Workers, CloseAttempts(w) PROVE Inv'
<1>0. PICK closed : closed = {a \in attempts : a.result = "OPEN" /\ Lapsed(a.mail)} OBVIOUS
<1> DEFINE p == [at[w] EXCEPT !.pc = "sweeping", !.closed = closed]
<1>1. /\ UNCHANGED <<mail, proof, attempts, relay, underway>> /\ at[w].pc = "idle"
      /\ at \in [Workers -> Place] /\ at[w] \in Place /\ attempts \subseteq Attempt
      /\ \A v \in Workers : at[v].closed \cap closed = {}
    BY <1>0 DEF Inv, Types, Ledger, Book, CloseAttempts
<1>2. at' = [at EXCEPT ![w] = p] BY <1>0, <1>1 DEF CloseAttempts
<1>3. closed \in SUBSET Attempt BY <1>0, <1>1
<1>4. p \in Place /\ p.pc = "sweeping" /\ p.closed = closed BY <1>1, <1>3 DEF Place
<1> HIDE DEF p
<1>5. /\ at'[w].pc = "sweeping" /\ at'[w].closed = closed /\ at' \in [Workers -> Place]
      /\ \A v \in Workers \ {w} : at'[v] = at[v]
    BY <1>1, <1>2, <1>4
<1>6. ~Busy(w) /\ ~Busy(w)' /\ \A v \in Workers \ {w} : Busy(v)' <=> Busy(v) BY <1>1, <1>5 DEF Busy
<1>7. \A v \in Workers : Works(v, mail, attempts)'
    <2> TAKE v \in Workers
    <2>1. Works(v, mail, attempts) BY DEF Inv, Ledger
    <2> QED BY <1>1, <1>5, <1>6, <2>1 DEF Works, Sound
<1>8. Ledger(mail, attempts)'
    <2>1. Book(mail, attempts)' BY <1>1 DEF Inv, Ledger, Book
    <2>2. Honest(attempts)' /\ Taken(mail)' BY <1>1 DEF Inv, Ledger, Honest, Taken
    <2> QED BY <1>7, <2>1, <2>2 DEF Ledger
<1>9. Apart' BY <1>5, <1>6 DEF Inv, Apart
<1>10. Sweeps'
    <2>1. \A v \in Workers \ {w} : Closes(v, mail, attempts)' BY <1>1, <1>5 DEF Inv, Sweeps, Closes
    <2>2. Closes(w, mail, attempts)' BY <1>0, <1>1, <1>5 DEF Closes, Lapsed
    <2> QED BY <1>1, <1>5, <2>1, <2>2 DEF Inv, Sweeps
<1>11. Types' /\ Absent' /\ Covered'
    <2>1. \A n \in Mails : Cleared(n)' \subseteq Cleared(n) BY <1>5 DEF Cleared
    <2>2. relay' \in [Mails -> SUBSET Nat] /\ mail' \in [Mails -> MailRow] BY <1>1 DEF Inv, Types
    <2> QED BY <1>1, <1>5, <2>1, <2>2, Frame
<1> QED BY <1>8, <1>9, <1>10, <1>11 DEF Inv

LEMMA IdlePlace == Idle \in Place /\ Idle.pc = "idle" /\ Idle.closed = {}
BY Bounds DEF Idle, Place

LEMMA SweepStep ==
    ASSUME Inv, NEW w \in Workers, Sweep(w) \/ \E m \in Mails : Drop(w, m) PROVE Inv'
<1>1. /\ Types /\ Ledger(mail, attempts) /\ Sweeps /\ UNCHANGED <<proof, relay, underway>>
      /\ attempts' = SweptAttempts(w) /\ at' = [at EXCEPT ![w] = Idle] /\ at \in [Workers -> Place]
    BY DEF Inv, Types, Sweep, Drop
<1>0. /\ at'[w] = Idle /\ at' \in [Workers -> Place] /\ \A v \in Workers \ {w} : at'[v] = at[v]
      /\ ~Busy(w)' /\ \A v \in Workers \ {w} : Busy(v)' <=> Busy(v)
    BY <1>1, IdlePlace DEF Busy
<1> DEFINE Moved ==
             \A n \in Mails :
                /\ mail'[n].count = Swept[n].count /\ mail'[n].token = Swept[n].token
                /\ mail'[n].lifeLeft = Swept[n].lifeLeft
                /\ \/ mail'[n].state = Swept[n].state
                   \/ Swept[n].state \in Waiting /\ mail'[n].state \in {"EXPIRED", "FAILED", "CANCELLED"}
<1>2. mail' \in [Mails -> MailRow] /\ Moved
    <2>1. CASE Sweep(w) BY <1>1, <2>1, SweptRows DEF Sweep
    <2>2. ASSUME NEW m \in Mails, Drop(w, m) PROVE mail' \in [Mails -> MailRow] /\ Moved
        <3> DEFINE row == [Swept[m] EXCEPT !.state = NextState(m)]
        <3>1. /\ Swept \in [Mails -> MailRow] /\ Swept[m] \in MailRow BY <1>1, SweptRows
        <3>2. mail' = [Swept EXCEPT ![m] = row] BY <2>2, <3>1 DEF Drop
        <3>3. NextState(m) \in {"EXPIRED", "FAILED", "CANCELLED"} BY <2>2 DEF Drop, NextState
        <3>4. NextState(m) \in {"NONE", "SENDING"} \cup Waiting \cup Terminal BY <3>3 DEF Terminal
        <3>5. /\ row \in MailRow /\ row.state = NextState(m) /\ row.count = Swept[m].count
              /\ row.token = Swept[m].token /\ row.lifeLeft = Swept[m].lifeLeft
            BY <3>1, <3>4, RowState
        <3> HIDE DEF row
        <3>6. mail'[m] = row /\ \A n \in Mails \ {m} : mail'[n] = Swept[n] BY <3>1, <3>2
        <3>7. Swept[m].state \in Waiting BY <2>2 DEF Drop, Due
        <3> QED BY <3>1, <3>2, <3>3, <3>5, <3>6, <3>7
    <2> QED BY <1>1, <2>1, <2>2 DEF Sweep
<1>3. Ledger(mail', SweptAttempts(w))
    <2>1. Ledger(Swept, SweptAttempts(w)) BY <1>1, SweptLedger
    <2>2. \A n \in Mails :
              /\ mail'[n].count = Swept[n].count
              /\ mail'[n].state = "SENDING" => mail'[n].token = Swept[n].token
              /\ \/ mail'[n].state = Swept[n].state
                 \/ Swept[n].state \in Waiting \cup {"NONE"} /\ mail'[n].state \notin {"SENDING", "SMTP_ACCEPTED"}
        BY <1>2
    <2> QED BY <2>1, <2>2, RowsMove
<1>4. Ledger(mail, attempts)'
    <2>1. \A v \in Workers : Works(v, mail', SweptAttempts(w)) BY <1>3 DEF Ledger
    <2>2. \A v \in Workers : Works(v, mail, attempts)'
        <3> TAKE v \in Workers
        <3>1. Works(v, mail', SweptAttempts(w)) BY <2>1
        <3> QED BY <1>0, <1>1, <3>1 DEF Works, Sound
    <2> QED BY <1>1, <1>3, <2>2 DEF Ledger, Book, Honest, Taken
<1>5. Apart' BY <1>0 DEF Inv, Apart
<1>6. \A n \in Mails : /\ mail'[n].state = "NONE" <=> mail[n].state = "NONE"
                       /\ mail'[n].state = "NONE" => mail'[n].count = mail[n].count
                       /\ mail'[n].lifeLeft = mail[n].lifeLeft
    BY <1>1, <1>2, SweptRows DEF Waiting
<1>7. Types' /\ Absent' /\ Covered'
    <2>1. \A n \in Mails : Cleared(n)' \subseteq Cleared(n) BY <1>0, IdlePlace DEF Cleared
    <2>2. relay' \in [Mails -> SUBSET Nat] BY <1>1 DEF Types
    <2> QED BY <1>0, <1>1, <1>2, <1>6, <2>1, <2>2, Frame
<1>8. Sweeps'
    <2>1. ASSUME NEW v \in Workers, NEW a \in at'[v].closed
          PROVE  /\ a \in attempts' /\ a.result = "OPEN"
                 /\ mail'[a.mail].state = "SENDING" /\ a.no = mail'[a.mail].count => mail'[a.mail].leaseLeft = 0
        <3>1. v # w /\ a \in at[v].closed BY <1>0, <2>1, IdlePlace
        <3>2. /\ a \in SweptAttempts(w) /\ a.result = "OPEN"
              /\ ~(Swept[a.mail].state = "SENDING" /\ a.no = Swept[a.mail].count)
            BY <1>1, <3>1, SweptLedger
        <3>3. a.mail \in Mails BY <1>3, <3>2 DEF Ledger, Book, Attempt
        <3> QED BY <1>1, <1>2, <3>2, <3>3 DEF Waiting
    <2> QED BY <1>0, <1>1, <2>1, IdlePlace DEF Sweeps, Closes
<1> QED BY <1>4, <1>5, <1>7, <1>8 DEF Inv

LEMMA ClaimStep == ASSUME Inv, NEW w \in Workers, NEW m \in Mails, Claim(w, m) PROVE Inv'
<1> DEFINE k == mail[m].count + 1
           row == [Swept[m] EXCEPT !.state = "SENDING", !.count = Swept[m].count + 1, !.token = w,
                                   !.leaseLeft = LeaseTicks]
           new == [mail |-> m, no |-> k, result |-> "OPEN"]
           p == [pc |-> "claimed", closed |-> {}, job |-> m, no |-> k, verdict |-> Nil]
<1>1. /\ Types /\ mail[m] \in MailRow /\ Swept \in [Mails -> MailRow] /\ Swept[m] \in MailRow
      /\ Swept[m].count = mail[m].count /\ Swept[m].lifeLeft = mail[m].lifeLeft
      /\ Swept[m].state \in Waiting
      /\ mail[m].count < MaxAttempts /\ Sendable(m) /\ at[w].pc = "sweeping"
      /\ UNCHANGED <<proof, relay, underway>>
    BY SweptRows, Bounds DEF Inv, Types, Claim, Due, NextState, MailRow, Sendable
<1>2. mail[m].count \in Nat /\ k \in 1..MaxAttempts /\ k \in 0..MaxAttempts
    BY <1>1, Bounds DEF MailRow
<1>3. /\ mail' = [Swept EXCEPT ![m] = row] /\ at' = [at EXCEPT ![w] = p]
      /\ attempts' = SweptAttempts(w) \cup {new}
    BY <1>1 DEF Claim, Idle, MailRow
<1>4. /\ row \in MailRow /\ row.state = "SENDING" /\ row.count = k /\ row.token = w
      /\ row.lifeLeft = mail[m].lifeLeft
    <2>1. Swept[m].count + 1 \in 0..MaxAttempts BY <1>1, <1>2
    <2> QED BY <1>1, <2>1, Bounds DEF MailRow
<1>5. new \in Attempt /\ new.mail = m /\ new.no = k /\ new.result = "OPEN"
    BY <1>2 DEF Attempt
<1>6. p \in Place /\ p.pc = "claimed" /\ p.closed = {} /\ p.job = m /\ p.no = k
    BY <1>2 DEF Place
<1> HIDE DEF row, new, p
<1>7. /\ mail'[m] = row /\ \A n \in Mails \ {m} : mail'[n] = Swept[n]
      /\ at'[w] = p /\ \A v \in Workers \ {w} : at'[v] = at[v]
      /\ mail' \in [Mails -> MailRow] /\ at' \in [Workers -> Place]
      /\ \A v \in Workers \ {w} : Busy(v)' <=> Busy(v)
    BY <1>1, <1>3, <1>4, <1>6 DEF Types, Busy
<1>8. Ledger(Swept, SweptAttempts(w)) BY <1>1, SweptLedger DEF Inv
<1>9. /\ SweptAttempts(w) \subseteq Attempt
      /\ \A a \in SweptAttempts(w) : a.mail \in Mails /\ a.no \in Nat /\ (a.mail = m => a.no < k)
    <2>1. SweptAttempts(w) \subseteq Attempt BY <1>8 DEF Ledger, Book
    <2>2. \A a \in SweptAttempts(w) : a.mail \in Mails /\ a.no \in Nat /\ a.no <= Swept[a.mail].count
        BY <1>8, <2>1 DEF Ledger, Book, Attempt
    <2> QED BY <1>1, <1>2, <2>1, <2>2
<1>10. Book(mail', attempts')
    <2>1. attempts' \subseteq Attempt BY <1>3, <1>5, <1>9
    <2>2. \A a, c \in attempts' : a.mail = c.mail /\ a.no = c.no => a = c
        BY <1>2, <1>3, <1>5, <1>8, <1>9 DEF Ledger, Book
    <2>3. ASSUME NEW n \in Mails, NEW i \in 1..mail'[n].count
          PROVE  \E a \in attempts' : a.mail = n /\ a.no = i
        <3>1. CASE n = m /\ i = k BY <1>3, <1>5, <3>1
        <3>2. CASE ~(n = m /\ i = k)
            <4>1. i \in 1..Swept[n].count BY <1>1, <1>2, <1>4, <1>7, <3>2
            <4> QED BY <1>3, <1>8, <4>1 DEF Ledger, Book
        <3> QED BY <3>1, <3>2
    <2>4. ASSUME NEW a \in SweptAttempts(w)
          PROVE  /\ a.no <= mail'[a.mail].count
                 /\ mail'[a.mail].state = "SENDING" /\ a.no = mail'[a.mail].count => a.result = "OPEN"
                 /\ a.result = "SMTP_ACCEPTED" <=> mail'[a.mail].state = "SMTP_ACCEPTED" /\ a.no = mail'[a.mail].count
                 /\ a.result = "REJECTED" => mail'[a.mail].state \in {"FAILED", "CANCELLED"} /\ a.no = mail'[a.mail].count
        <3>1. /\ a.no <= Swept[a.mail].count
              /\ Swept[a.mail].state = "SENDING" /\ a.no = Swept[a.mail].count => a.result = "OPEN"
              /\ a.result = "SMTP_ACCEPTED" <=> Swept[a.mail].state = "SMTP_ACCEPTED" /\ a.no = Swept[a.mail].count
              /\ a.result = "REJECTED" => Swept[a.mail].state \in {"FAILED", "CANCELLED"} /\ a.no = Swept[a.mail].count
            BY <1>8 DEF Ledger, Book
        <3>2. CASE a.mail = m BY <1>1, <1>2, <1>4, <1>7, <1>9, <3>1, <3>2 DEF Waiting
        <3>3. CASE a.mail # m BY <1>7, <1>9, <3>1, <3>3
        <3> QED BY <3>2, <3>3
    <2>5. /\ new.no <= mail'[new.mail].count
          /\ new.result = "OPEN" /\ mail'[new.mail].state = "SENDING" /\ new.no = mail'[new.mail].count
        BY <1>2, <1>4, <1>5, <1>7
    <2>6. \A n \in Mails : mail'[n].state \in {"SENDING", "SMTP_ACCEPTED"} => mail'[n].count > 0
        BY <1>2, <1>4, <1>7, <1>8 DEF Ledger, Book
    <2>7. \A a \in attempts' :
             /\ a.no <= mail'[a.mail].count
             /\ mail'[a.mail].state = "SENDING" /\ a.no = mail'[a.mail].count => a.result = "OPEN"
             /\ a.result = "SMTP_ACCEPTED" <=> mail'[a.mail].state = "SMTP_ACCEPTED" /\ a.no = mail'[a.mail].count
             /\ a.result = "REJECTED" => mail'[a.mail].state \in {"FAILED", "CANCELLED"} /\ a.no = mail'[a.mail].count
        BY <1>3, <2>4, <2>5
    <2> QED BY <2>1, <2>2, <2>3, <2>6, <2>7 DEF Book
<1>11. Honest(attempts)' BY <1>1, <1>3, <1>5, <1>8 DEF Ledger, Honest
<1>12. Taken(mail)'
    <2>1. \A n \in Mails : relay[n] \subseteq 1..Swept[n].count BY <1>8 DEF Ledger, Taken
    <2>2. \A n \in Mails : 1..Swept[n].count \subseteq 1..mail'[n].count
        BY <1>1, <1>2, <1>4, <1>7
    <2> QED BY <1>1, <2>1, <2>2 DEF Taken
<1>13. \A v \in Workers \ {w} : Busy(v) /\ at[v].job = m => at[v].no < k
    <2> TAKE v \in Workers \ {w}
    <2>1. Works(v, mail, attempts) BY DEF Inv, Ledger
    <2> QED BY <1>2, <2>1 DEF Works
<1>14. ASSUME NEW v \in Workers PROVE Works(v, mail, attempts)'
    <2>1. CASE v = w
        <3>1. k \in 1..k /\ k \notin relay[m]
            <4>1. relay[m] \subseteq 1..mail[m].count BY DEF Inv, Ledger, Taken
            <4> QED BY <1>2, <4>1
        <3>2. \A a \in attempts' : a.mail = m /\ a.no = k => a.result = "OPEN"
            BY <1>2, <1>3, <1>5, <1>9
        <3> QED BY <1>1, <1>4, <1>6, <1>7, <2>1, <3>1, <3>2 DEF Works
    <2>2. CASE v # w
        <3>1. at'[v] = at[v] /\ Works(v, Swept, SweptAttempts(w)) BY <1>7, <1>8, <2>2 DEF Ledger
        <3>2. SUFFICES ASSUME Busy(v) PROVE Works(v, mail, attempts)' BY <1>7, <2>2 DEF Works
        <3>3. at[v].job \in Mails /\ at[v].no \in 1..Swept[at[v].job].count BY <3>1, <3>2 DEF Works
        <3>4. at[v].no \in 1..mail'[at[v].job].count BY <1>1, <1>2, <1>4, <1>7, <3>3
        <3>5. mail'[at[v].job].state = "SENDING" /\ mail'[at[v].job].token = v =>
                 at[v].no = mail'[at[v].job].count
            BY <1>4, <1>7, <2>2, <3>1, <3>2, <3>3 DEF Works
        <3>6. \A a \in attempts' : a.mail = at[v].job /\ a.no = at[v].no => a.result \in {"OPEN", "UNKNOWN"}
            BY <1>3, <1>5, <3>1, <3>2 DEF Works
        <3>7. /\ at[v].pc \in {"claimed", "cleared"} => at[v].no \notin relay[at[v].job]
              /\ at[v].pc = "answered" => Sound(v)
            BY <3>1, <3>2 DEF Works
        <3>8. at[v].pc = "answered" => Sound(v)' BY <1>1, <3>1, <3>7 DEF Sound
        <3> QED BY <1>1, <3>1, <3>2, <3>3, <3>4, <3>5, <3>6, <3>7, <3>8 DEF Works
    <2> QED BY <2>1, <2>2
<1>15. Apart' BY <1>2, <1>6, <1>7, <1>13, SMTT(20) DEF Inv, Apart, Ledger, Works
<1>17. Sweeps'
    <2>1. ASSUME NEW v \in Workers, NEW a \in at'[v].closed
          PROVE  /\ a \in attempts' /\ a.result = "OPEN"
                 /\ mail'[a.mail].state = "SENDING" /\ a.no = mail'[a.mail].count => mail'[a.mail].leaseLeft = 0
        <3>1. v # w /\ a \in at[v].closed BY <1>6, <1>7, <2>1
        <3>2. /\ a \in SweptAttempts(w) /\ a.result = "OPEN"
              /\ ~(Swept[a.mail].state = "SENDING" /\ a.no = Swept[a.mail].count)
            BY <1>1, <3>1, SweptLedger DEF Inv
        <3>3. a.mail \in Mails /\ a.no \in Nat /\ (a.mail = m => a.no < k) BY <1>9, <3>2
        <3> QED BY <1>2, <1>3, <1>4, <1>7, <3>2, <3>3
    <2> QED BY <1>6, <1>7, <2>1 DEF Inv, Sweeps, Closes
<1>16. Types' /\ Absent' /\ Covered'
    <2>1. \A n \in Mails : /\ mail'[n].state = "NONE" <=> mail[n].state = "NONE"
                           /\ mail'[n].state = "NONE" => mail'[n].count = mail[n].count
                           /\ mail'[n].lifeLeft = mail[n].lifeLeft
        BY <1>1, <1>4, <1>7, SweptRows DEF Waiting
    <2>2. \A n \in Mails : Cleared(n)' \subseteq Cleared(n) BY <1>1, <1>6, <1>7 DEF Cleared
    <2> QED BY <1>1, <1>7, <2>1, <2>2, Frame DEF Types
<1> QED BY <1>10, <1>11, <1>12, <1>14, <1>15, <1>16, <1>17 DEF Inv, Ledger, Book

LEMMA FinishStep == ASSUME Inv, NEW w \in Workers, Finish(w) PROVE Inv'
<1>0. PICK m, k, v : m = at[w].job /\ k = at[w].no /\ v = at[w].verdict OBVIOUS
<1> DEFINE row == [mail[m] EXCEPT !.state = v.state, !.token = Nil, !.leaseLeft = 0, !.waitLeft = RetryTicks]
           new(a) == IF a.mail = m /\ a.no = k /\ a.result = "OPEN" THEN [a EXCEPT !.result = v.result] ELSE a
<1>1. /\ at[w].pc = "answered" /\ m \in Mails /\ mail[m].state = "SENDING" /\ k = mail[m].count
      /\ mail[m] \in MailRow /\ k \in 1..mail[m].count
      /\ mail \in [Mails -> MailRow] /\ at \in [Workers -> Place]
      /\ UNCHANGED <<proof, relay, underway>> /\ Sound(w) /\ Busy(w) /\ ~Contended(w)
    BY <1>0 DEF Inv, Types, Ledger, Works, Busy, Finish, Holds
<1>2. /\ v \in Verdict /\ v.state \notin {"NONE", "SENDING"}
      /\ v.state \in {"NONE", "SENDING"} \cup Waiting \cup Terminal
      /\ v.result \in {"SMTP_ACCEPTED", "REJECTED", "UNKNOWN"}
      /\ v.result = "SMTP_ACCEPTED" <=> v.state = "SMTP_ACCEPTED"
      /\ v.result = "REJECTED" => v.state \in {"FAILED", "CANCELLED"} /\ k \notin relay[m]
      /\ v.result = "SMTP_ACCEPTED" => k \in relay[m]
    BY <1>0, <1>1 DEF Sound, Verdict, Terminal, Waiting
<1>3. /\ mail' = [mail EXCEPT ![m] = row] /\ attempts' = {new(a) : a \in attempts}
      /\ at' = [at EXCEPT ![w] = Idle]
    <2>1. mail' = [mail EXCEPT ![m] = row] BY <1>0, <1>1 DEF Finish, MailRow
    <2>2. attempts' = {new(a) : a \in attempts} BY <1>0, Zenon DEF Finish
    <2>3. at' = [at EXCEPT ![w] = Idle] BY DEF Finish
    <2> QED BY <2>1, <2>2, <2>3
<1>4. /\ row \in MailRow /\ row.state = v.state /\ row.count = mail[m].count
      /\ row.lifeLeft = mail[m].lifeLeft
    BY <1>1, <1>2, Bounds DEF MailRow
<1>6. Book(mail, attempts) /\ attempts \subseteq Attempt BY DEF Inv, Ledger, Book
<1>7. \A a \in attempts :
         /\ new(a) \in Attempt /\ new(a).mail = a.mail /\ new(a).no = a.no
         /\ new(a).result = IF a.mail = m /\ a.no = k /\ a.result = "OPEN" THEN v.result ELSE a.result
    BY <1>2, <1>6 DEF Attempt
<1>8. /\ \A a \in attempts : new(a) \in attempts'
      /\ \A c \in attempts' : \E a \in attempts : c = new(a)
    BY <1>3
<1> HIDE DEF row, new
<1>9. /\ mail'[m] = row /\ \A n \in Mails \ {m} : mail'[n] = mail[n]
      /\ mail' \in [Mails -> MailRow]
      /\ at'[w] = Idle /\ (\A x \in Workers \ {w} : at'[x] = at[x])
      /\ at' \in [Workers -> Place]
      /\ ~Busy(w)' /\ \A x \in Workers \ {w} : Busy(x)' <=> Busy(x)
    BY <1>1, <1>3, <1>4, IdlePlace DEF Busy
<1>10. \A a \in attempts :
          /\ a.mail \in Mails /\ a.no <= mail[a.mail].count
          /\ mail[a.mail].state = "SENDING" /\ a.no = mail[a.mail].count => a.result = "OPEN"
          /\ a.result = "SMTP_ACCEPTED" <=> mail[a.mail].state = "SMTP_ACCEPTED" /\ a.no = mail[a.mail].count
          /\ a.result = "REJECTED" => mail[a.mail].state \in {"FAILED", "CANCELLED"} /\ a.no = mail[a.mail].count
    BY <1>6 DEF Book, Attempt
<1>11. Book(mail', attempts')
    <2>1. attempts' \subseteq Attempt BY <1>7, <1>8
    <2>2. \A a, c \in attempts' : a.mail = c.mail /\ a.no = c.no => a = c
        BY <1>6, <1>7, <1>8 DEF Book
    <2>3. \A n \in Mails : \A i \in 1..mail'[n].count : \E c \in attempts' : c.mail = n /\ c.no = i
        <3>1. \A n \in Mails : mail'[n].count = mail[n].count BY <1>4, <1>9
        <3>2. \A n \in Mails : \A i \in 1..mail[n].count : \E a \in attempts : a.mail = n /\ a.no = i
            BY <1>6 DEF Book
        <3>3. \A a \in attempts : new(a) \in attempts' /\ new(a).mail = a.mail /\ new(a).no = a.no
            BY <1>7, <1>8
        <3> QED BY <3>1, <3>2, <3>3
    <2>4. ASSUME NEW c \in attempts'
          PROVE  /\ c.no <= mail'[c.mail].count
                 /\ mail'[c.mail].state = "SENDING" /\ c.no = mail'[c.mail].count => c.result = "OPEN"
                 /\ c.result = "SMTP_ACCEPTED" <=> mail'[c.mail].state = "SMTP_ACCEPTED" /\ c.no = mail'[c.mail].count
                 /\ c.result = "REJECTED" => mail'[c.mail].state \in {"FAILED", "CANCELLED"} /\ c.no = mail'[c.mail].count
        <3>1. PICK a \in attempts : c = new(a) BY <1>8
        <3>2. /\ c.mail = a.mail /\ c.no = a.no
              /\ c.result = IF a.mail = m /\ a.no = k /\ a.result = "OPEN" THEN v.result ELSE a.result
            BY <1>7, <3>1
        <3>3. CASE a.mail # m BY <1>9, <1>10, <3>2, <3>3
        <3>4. CASE a.mail = m /\ a.no = k BY <1>1, <1>2, <1>4, <1>9, <1>10, <3>2, <3>4
        <3>5. CASE a.mail = m /\ a.no # k BY <1>1, <1>2, <1>4, <1>9, <1>10, <3>2, <3>5
        <3> QED BY <3>3, <3>4, <3>5
    <2>5. \A n \in Mails : mail'[n].state \in {"SENDING", "SMTP_ACCEPTED"} => mail'[n].count > 0
        BY <1>1, <1>4, <1>6, <1>9 DEF Book
    <2> QED BY <2>1, <2>2, <2>3, <2>4, <2>5 DEF Book
<1>12. Honest(attempts)'
    <2>1. Honest(attempts) BY DEF Inv, Ledger
    <2> QED BY <1>1, <1>2, <1>7, <1>8, <2>1 DEF Honest
<1>13. Taken(mail)' BY <1>1, <1>4, <1>9 DEF Inv, Ledger, Taken
<1>14. ASSUME NEW x \in Workers PROVE Works(x, mail, attempts)'
    <2>1. CASE x = w BY <1>9, <2>1 DEF Works
    <2>2. CASE x # w
        <3>1. at'[x] = at[x] /\ Works(x, mail, attempts) BY <1>9, <2>2 DEF Inv, Ledger
        <3>2. SUFFICES ASSUME Busy(x) PROVE Works(x, mail, attempts)' BY <1>9, <2>2 DEF Works
        <3>3. at[x].job \in Mails /\ at[x].no \in 1..mail'[at[x].job].count
            BY <1>4, <1>9, <3>1, <3>2 DEF Works
        <3>4. ~(at[x].job = m /\ at[x].no = k)
            BY <1>0, <1>1, <2>2, <3>2 DEF Inv, Apart
        <3>5. mail'[at[x].job].state = "SENDING" => mail'[at[x].job] = mail[at[x].job]
            BY <1>2, <1>4, <1>9, <3>3
        <3>6. \A c \in attempts' : c.mail = at[x].job /\ c.no = at[x].no => c.result \in {"OPEN", "UNKNOWN"}
            BY <1>7, <1>8, <3>1, <3>2, <3>4 DEF Works
        <3>7. at[x].pc = "answered" => Sound(x)' BY <1>1, <3>1, <3>2 DEF Works, Sound
        <3> QED BY <1>1, <3>1, <3>2, <3>3, <3>5, <3>6, <3>7 DEF Works
    <2> QED BY <2>1, <2>2
<1>15. Apart' BY <1>9 DEF Inv, Apart
<1>17. Sweeps'
    <2>1. ASSUME NEW x \in Workers, NEW a \in at'[x].closed
          PROVE  /\ a \in attempts' /\ a.result = "OPEN"
                 /\ mail'[a.mail].state = "SENDING" /\ a.no = mail'[a.mail].count => mail'[a.mail].leaseLeft = 0
        <3>1. x # w /\ a \in at[x].closed BY <1>9, <2>1, IdlePlace
        <3>2. /\ a \in attempts /\ a.result = "OPEN"
              /\ mail[a.mail].state = "SENDING" /\ a.no = mail[a.mail].count => mail[a.mail].leaseLeft = 0
            BY <3>1 DEF Inv, Sweeps, Closes
        <3>3. ~(a.mail = m /\ a.no = k) BY <1>0, <1>1, <3>1 DEF Contended
        <3>4. new(a) = a BY <3>3 DEF new
        <3>5. a.mail \in Mails BY <1>10, <3>2
        <3>6. CASE a.mail = m BY <1>2, <1>4, <1>8, <1>9, <3>2, <3>4, <3>6
        <3>7. CASE a.mail # m BY <1>8, <1>9, <3>2, <3>4, <3>5, <3>7
        <3> QED BY <3>6, <3>7
    <2> QED BY <1>9, <2>1, IdlePlace DEF Inv, Sweeps, Closes
<1>16. Types' /\ Absent' /\ Covered'
    <2>1. \A n \in Mails : /\ mail'[n].state = "NONE" <=> mail[n].state = "NONE"
                           /\ mail'[n].state = "NONE" => mail'[n].count = mail[n].count
                           /\ mail'[n].lifeLeft = mail[n].lifeLeft
        BY <1>1, <1>2, <1>4, <1>9
    <2>2. \A n \in Mails : Cleared(n)' \subseteq Cleared(n) BY <1>9, IdlePlace DEF Cleared
    <2> QED BY <1>1, <1>9, <2>1, <2>2, Frame DEF Inv, Types
<1> QED BY <1>11, <1>12, <1>13, <1>14, <1>15, <1>16, <1>17 DEF Inv, Ledger, Book

\* What a worker notes of its send.
LEMMA Concluded ==
    ASSUME Types, NEW w \in Workers, NEW s \in Terminal \cup {"RETRY_WAIT"},
           NEW r \in {"SMTP_ACCEPTED", "REJECTED", "UNKNOWN"}, Concluding(w, s, r)
    PROVE  /\ at' \in [Workers -> Place] /\ \A x \in Workers \ {w} : at'[x] = at[x]
           /\ at'[w].pc = "answered" /\ UNCHANGED <<at[w].job, at[w].no, at[w].closed>>
           /\ at'[w].verdict \in Verdict /\ at'[w].verdict.state = s /\ at'[w].verdict.result = r
<1> DEFINE v == [state |-> s, result |-> r]
           p == [at[w] EXCEPT !.pc = "answered", !.verdict = v]
<1>1. v \in Verdict /\ v.state = s /\ v.result = r BY DEF Verdict
<1>2. at \in [Workers -> Place] /\ at[w] \in Place BY DEF Types
<1>3. at' = [at EXCEPT ![w] = p] BY <1>2 DEF Concluding
<1> HIDE DEF v
<1>4. p \in Place /\ p.pc = "answered" /\ p.job = at[w].job /\ p.no = at[w].no /\ p.closed = at[w].closed
      /\ p.verdict = v
    BY <1>1, <1>2 DEF Place
<1> QED BY <1>1, <1>2, <1>3, <1>4

\* A worker's step between the claim and the end: its own place moves, and the
\* relay may take its attempt.
LEMMA SendStep ==
    ASSUME Inv, NEW w \in Workers, Recheck(w) \/ Transmit(w) \/ Refuse(w)
    PROVE  Inv'
<1>1. /\ UNCHANGED <<mail, proof, attempts, underway>> /\ Busy(w) /\ Types
      /\ at \in [Workers -> Place] /\ relay \in [Mails -> SUBSET Nat]
      /\ Works(w, mail, attempts) /\ at[w].job \in Mails /\ at[w].no \in 1..mail[at[w].job].count
      /\ mail[at[w].job].count \in Nat
    BY Bounds DEF Inv, Types, Ledger, Works, Busy, Recheck, Transmit, Refuse, MailRow
<1>2. /\ {"FAILED", "CANCELLED", "SMTP_ACCEPTED", "RETRY_WAIT"} \subseteq Terminal \cup {"RETRY_WAIT"}
    BY DEF Terminal
<1>3. /\ at' \in [Workers -> Place] /\ \A x \in Workers \ {w} : at'[x] = at[x]
      /\ at'[w].pc \in {"cleared", "answered"} /\ UNCHANGED <<at[w].job, at[w].no, at[w].closed>>
      /\ \/ relay' = relay
         \/ /\ at[w].pc = "cleared" /\ at'[w].pc = "answered"
            /\ relay' = [relay EXCEPT ![at[w].job] = relay[at[w].job] \cup {at[w].no}]
      /\ at'[w].pc = "cleared" => at[w].pc = "claimed" /\ Sendable(at[w].job) /\ relay' = relay
      /\ at'[w].pc = "answered" => Sound(w)'
    <2>1. CASE Recheck(w) /\ Passes(w)
        <3> DEFINE p == [at[w] EXCEPT !.pc = "cleared"]
        <3>1. /\ p \in Place /\ p.pc = "cleared" /\ p.job = at[w].job /\ p.no = at[w].no
              /\ p.closed = at[w].closed
            BY <1>1 DEF Place
        <3>2. at' = [at EXCEPT ![w] = p] /\ relay' = relay /\ at[w].pc = "claimed" BY <1>1, <2>1 DEF Recheck
        <3> QED BY <1>1, <2>1, <3>1, <3>2 DEF Passes
    <2>2. CASE Recheck(w) /\ ~Passes(w)
        <3>1. Concluding(w, "CANCELLED", "REJECTED") /\ relay' = relay /\ at[w].pc = "claimed"
            BY <2>2 DEF Recheck
        <3>2. at[w].no \notin relay[at[w].job] BY <1>1, <3>1 DEF Works, Busy
        <3> QED BY <1>1, <1>2, <3>1, <3>2, Concluded DEF Sound
    <2>3. CASE Transmit(w)
        <3>1. /\ at[w].pc = "cleared"
              /\ relay' = [relay EXCEPT ![at[w].job] = relay[at[w].job] \cup {at[w].no}]
              /\ at[w].no \in relay'[at[w].job]
            BY <1>1, <2>3 DEF Transmit
        <3>2. CASE Concluding(w, "SMTP_ACCEPTED", "SMTP_ACCEPTED")
            BY <1>1, <1>2, <3>1, <3>2, Concluded DEF Sound
        <3>3. CASE Ambiguous(w)
            <4>1. PICK s \in {"FAILED", "RETRY_WAIT"} : Concluding(w, s, "UNKNOWN") BY <3>3 DEF Ambiguous
            <4> QED BY <1>1, <1>2, <3>1, <4>1, Concluded DEF Sound
        <3> QED BY <2>3, <3>2, <3>3 DEF Transmit
    <2>4. CASE Refuse(w)
        <3>1. relay' = relay /\ at[w].pc = "cleared" /\ at[w].no \notin relay[at[w].job]
            BY <1>1, <2>4 DEF Refuse, Works, Busy
        <3>2. CASE Concluding(w, "FAILED", "REJECTED") BY <1>1, <1>2, <3>1, <3>2, Concluded DEF Sound
        <3>3. CASE Ambiguous(w)
            <4>1. PICK s \in {"FAILED", "RETRY_WAIT"} : Concluding(w, s, "UNKNOWN") BY <3>3 DEF Ambiguous
            <4> QED BY <1>1, <1>2, <3>1, <4>1, Concluded DEF Sound
        <3> QED BY <2>4, <3>2, <3>3 DEF Refuse
    <2> QED BY <2>1, <2>2, <2>3, <2>4
<1>11. Busy(w)' /\ \A x \in Workers \ {w} : Busy(x)' <=> Busy(x) BY <1>3 DEF Busy
<1>4. /\ relay' \in [Mails -> SUBSET Nat]
      /\ \A n \in Mails : relay'[n] \subseteq relay[n] \cup {i \in {at[w].no} : n = at[w].job /\ at[w].pc = "cleared"}
      /\ \A n \in Mails : relay[n] \subseteq relay'[n]
    BY <1>1, <1>3
<1>5. Book(mail, attempts)' BY <1>1 DEF Inv, Ledger, Book
<1>6. Honest(attempts)'
    <2>1. Honest(attempts) BY DEF Inv, Ledger
    <2>2. ASSUME NEW a \in attempts, a.result = "REJECTED" PROVE a.no \notin relay'[a.mail]
        <3>1. ~(a.mail = at[w].job /\ a.no = at[w].no) BY <1>1, <2>2 DEF Works
        <3>2. a.mail \in Mails BY DEF Inv, Ledger, Book, Attempt
        <3> QED BY <1>4, <2>1, <2>2, <3>1, <3>2 DEF Honest
    <2>3. ASSUME NEW a \in attempts, a.result = "SMTP_ACCEPTED" PROVE a.no \in relay'[a.mail]
        <3>1. a.mail \in Mails BY DEF Inv, Ledger, Book, Attempt
        <3> QED BY <1>4, <2>1, <2>3, <3>1 DEF Honest
    <2> QED BY <1>1, <2>2, <2>3 DEF Honest
<1>7. Taken(mail)' BY <1>1, <1>4 DEF Inv, Ledger, Taken
<1>8. ASSUME NEW x \in Workers PROVE Works(x, mail, attempts)'
    <2>1. CASE x = w BY <1>1, <1>3, <1>11, <2>1 DEF Works
    <2>2. CASE x # w
        <3>1. at'[x] = at[x] /\ Works(x, mail, attempts) BY <1>3, <2>2 DEF Inv, Ledger
        <3>2. SUFFICES ASSUME Busy(x) PROVE Works(x, mail, attempts)' BY <1>11, <2>2 DEF Works
        <3>3. at[x].job \in Mails /\ ~(at[x].job = at[w].job /\ at[x].no = at[w].no)
            BY <1>1, <2>2, <3>1, <3>2 DEF Inv, Apart, Works
        <3>4. at[x].no \in relay'[at[x].job] <=> at[x].no \in relay[at[x].job]
            BY <1>4, <3>3
        <3>5. at[x].pc = "answered" => Sound(x)' BY <3>1, <3>2, <3>4 DEF Works, Sound
        <3> QED BY <1>1, <3>1, <3>2, <3>4, <3>5 DEF Works
    <2> QED BY <2>1, <2>2
<1>9. Apart' BY <1>1, <1>3, <1>11 DEF Inv, Apart
<1>12. Sweeps' BY <1>1, <1>3 DEF Inv, Sweeps, Closes
<1>10. Types' /\ Absent' /\ Covered'
    <2>1. ASSUME NEW n \in Mails, ~Sendable(n)
          PROVE  relay'[n] \cup Cleared(n)' \subseteq relay[n] \cup Cleared(n)
        <3>1. Cleared(n)' \subseteq Cleared(n) BY <1>3, <2>1 DEF Cleared
        <3>2. relay'[n] \subseteq relay[n] \cup Cleared(n) BY <1>4 DEF Cleared
        <3> QED BY <3>1, <3>2
    <2>2. \A n \in Mails : /\ mail'[n].state = "NONE" <=> mail[n].state = "NONE"
                           /\ mail'[n].state = "NONE" => mail'[n].count = mail[n].count
                           /\ mail'[n].lifeLeft = mail[n].lifeLeft
        BY <1>1
    <2> QED BY <1>1, <1>3, <1>4, <2>1, <2>2, Frame DEF Types
<1> QED BY <1>5, <1>6, <1>7, <1>8, <1>9, <1>10, <1>12 DEF Inv, Ledger

\* A worker's work is lost, be it a sweep, a send or its outcome.
LEMMA GiveUpStep == ASSUME Inv, NEW w \in Workers, Lose(w) \/ Fault(w) PROVE Inv'
<1>1. /\ UNCHANGED <<mail, proof, attempts, relay, underway>>
      /\ at' = [at EXCEPT ![w] = Idle] /\ at \in [Workers -> Place]
    BY DEF Inv, Types, Lose, Fault
<1>2. /\ at' \in [Workers -> Place] /\ at'[w] = Idle /\ \A v \in Workers \ {w} : at'[v] = at[v]
      /\ ~Busy(w)' /\ \A v \in Workers \ {w} : Busy(v)' <=> Busy(v)
    BY <1>1, IdlePlace DEF Busy
<1>3. \A v \in Workers : Works(v, mail, attempts)'
    <2> TAKE v \in Workers
    <2>1. Works(v, mail, attempts) BY DEF Inv, Ledger
    <2> QED BY <1>1, <1>2, <2>1 DEF Works, Sound
<1>4. Ledger(mail, attempts)'
    <2>1. Book(mail, attempts)' BY <1>1 DEF Inv, Ledger, Book
    <2>2. Honest(attempts)' /\ Taken(mail)' BY <1>1 DEF Inv, Ledger, Honest, Taken
    <2> QED BY <1>3, <2>1, <2>2 DEF Ledger
<1>5. Apart' BY <1>2 DEF Inv, Apart
<1>6. Sweeps' BY <1>1, <1>2, IdlePlace DEF Inv, Sweeps, Closes
<1>7. Types' /\ Absent' /\ Covered'
    <2>1. \A n \in Mails : Cleared(n)' \subseteq Cleared(n) BY <1>2, IdlePlace DEF Cleared
    <2>2. relay' \in [Mails -> SUBSET Nat] /\ mail' \in [Mails -> MailRow] BY <1>1 DEF Inv, Types
    <2> QED BY <1>1, <1>2, <2>1, <2>2, Frame
<1> QED BY <1>4, <1>5, <1>6, <1>7 DEF Inv

------------------------------------------------------------------------------
(* The theorems *)

LEMMA InitInv == ASSUME Init PROVE Inv
<1>1. /\ \A m \in Mails : /\ mail[m].state = "NONE" /\ mail[m].count = 0 /\ mail[m].lifeLeft = 0
                          /\ proof[m] = "NONE" /\ relay[m] = {}
      /\ \A w \in Workers : at[w].pc = "idle" /\ at[w].closed = {}
      /\ attempts = {}
    BY DEF Init, NoMail, Idle
<1>2. Types
    <2>1. NoMail \in MailRow /\ Idle \in Place BY Bounds DEF NoMail, MailRow, Idle, Place
    <2> QED BY <2>1 DEF Init, Types
<1>3. \A m \in Mails : 1..mail[m].count = {} BY <1>1
<1>4. Ledger(mail, attempts)
    BY <1>1, <1>3 DEF Ledger, Book, Honest, Taken, Works, Busy
<1>5. Absent /\ Apart /\ Sweeps /\ Covered BY <1>1 DEF Absent, Apart, Busy, Sweeps, Closes, Covered
<1> QED BY <1>2, <1>4, <1>5 DEF Inv

LEMMA NextInv == ASSUME Inv, [Next]_vars PROVE Inv'
<1>1. CASE Next
    <2>1. Requested \subseteq Challenge \cup {"INVITATION"} BY MailAssumption DEF Challenge
    <2>2. CASE \E m \in Mails : \/ \E p \in Requested : Issue(m, p)
                                \/ Notice(m) \/ Complete(m)
                                \/ \E n \in Mails : CompleteReset(m, n)
        BY <2>1, <2>2, IssueStep, NoticesStep, CompleteStep
    <2>3. CASE RevokeInvitation \/ Tick BY <2>3, RevokeStep, TickStep
    <2>4. CASE \E w \in Workers : \/ CloseAttempts(w) \/ Sweep(w)
                                  \/ \E m \in Mails : Drop(w, m) \/ Claim(w, m)
                                  \/ Recheck(w) \/ Transmit(w) \/ Refuse(w)
                                  \/ Finish(w) \/ Lose(w) \/ Fault(w)
        BY <2>4, CloseStep, SweepStep, ClaimStep, SendStep, FinishStep, GiveUpStep
    <2> QED BY <1>1, <2>2, <2>3, <2>4 DEF Next
<1>2. CASE UNCHANGED vars
    <2>1. Types' /\ Absent' /\ Apart' BY <1>2 DEF Inv, vars, Types, Absent, Apart, Busy
    <2>4. Sweeps' BY <1>2 DEF Inv, vars, Sweeps, Closes
    <2>2. Ledger(mail, attempts)' BY <1>2, LedgerPrimed DEF Inv, vars
    <2>3. Covered' BY <1>2 DEF Inv, vars, Covered, Cleared, Sendable
    <2> QED BY <2>1, <2>2, <2>3, <2>4 DEF Inv
<1> QED BY <1>1, <1>2

\* The inductive invariant: what stands behind the statements below.
THEOREM Invariant == Spec => []Inv
BY InitInv, NextInv, PTL DEF Spec

LEMMA Explained == ASSUME Inv PROVE AttemptsExplainDelivery
<1> SUFFICES ASSUME NEW m \in Mails
             PROVE  /\ Of(m, {"OPEN", "SMTP_ACCEPTED", "REJECTED", "UNKNOWN"}) = 1..mail[m].count
                    /\ mail[m].state = "SENDING" => mail[m].count \in Of(m, {"OPEN"})
                    /\ Of(m, {"SMTP_ACCEPTED"}) = IF mail[m].state = "SMTP_ACCEPTED" THEN {mail[m].count} ELSE {}
                    /\ Of(m, {"REJECTED"}) \subseteq IF mail[m].state \in {"FAILED", "CANCELLED"}
                                                     THEN {mail[m].count} ELSE {}
    BY DEF AttemptsExplainDelivery
<1>1. Book(mail, attempts) /\ attempts \subseteq Attempt BY DEF Inv, Ledger, Book
<1>2. mail[m].count \in Nat BY Bounds DEF Inv, Types, MailRow
<1>3. \A a \in attempts : /\ a.no \in 1..MaxAttempts
                          /\ a.result \in {"OPEN", "SMTP_ACCEPTED", "REJECTED", "UNKNOWN"}
    BY <1>1 DEF Attempt
<1>4. \A i \in 1..mail[m].count : \E a \in attempts : a.mail = m /\ a.no = i
    BY <1>1 DEF Book
<1>5. \A a \in attempts : a.mail = m =>
          /\ a.no <= mail[m].count
          /\ mail[m].state = "SENDING" /\ a.no = mail[m].count => a.result = "OPEN"
          /\ a.result = "SMTP_ACCEPTED" <=> mail[m].state = "SMTP_ACCEPTED" /\ a.no = mail[m].count
          /\ a.result = "REJECTED" => mail[m].state \in {"FAILED", "CANCELLED"} /\ a.no = mail[m].count
    BY <1>1 DEF Book
<1>6. mail[m].state \in {"SENDING", "SMTP_ACCEPTED"} => mail[m].count \in 1..mail[m].count
    BY <1>1, <1>2 DEF Book
<1>7. Of(m, {"OPEN", "SMTP_ACCEPTED", "REJECTED", "UNKNOWN"}) = 1..mail[m].count
    BY <1>2, <1>3, <1>4, <1>5, Bounds DEF Of
<1>8. mail[m].state = "SENDING" => mail[m].count \in Of(m, {"OPEN"})
    BY <1>4, <1>5, <1>6 DEF Of
<1>9. Of(m, {"SMTP_ACCEPTED"}) = IF mail[m].state = "SMTP_ACCEPTED" THEN {mail[m].count} ELSE {}
    BY <1>4, <1>5, <1>6 DEF Of
<1>10. Of(m, {"REJECTED"}) \subseteq IF mail[m].state \in {"FAILED", "CANCELLED"} THEN {mail[m].count} ELSE {}
    BY <1>5 DEF Of
<1> QED BY <1>7, <1>8, <1>9, <1>10

\* Whatever lease was lost, the numbered attempts tell how a delivery got where
\* it is (mail.go:148-154,260-269).
THEOREM DeliveryExplained == Spec => []AttemptsExplainDelivery
BY Invariant, Explained, PTL

\* No record says "rejected" of a mail that went out, nor "accepted" of one that
\* did not (mail.go:107-115,238-250).
THEOREM NeverDenied == Spec => []AcceptanceNeverDenied
<1>1. Inv => AcceptanceNeverDenied BY DEF Inv, Ledger, Honest, AcceptanceNeverDenied, Of
<1> QED BY <1>1, Invariant, PTL

\* A mail whose proof is over only goes out by a send that was past the last
\* check before (mail.go:186-218).
THEOREM ObsoleteStays == Spec => []ObsoleteNotSent
<1>1. Inv => ObsoleteNotSent BY DEF Inv, Covered, ObsoleteNotSent
<1> QED BY <1>1, Invariant, PTL
=============================================================================
