# Formal models of the WhatsApp control plane

TLA+ models, model-checking runs and machine-checked proofs about the backend of
this repository (`src/backend`, Go over PostgreSQL). Everything is translated
from the code; documents and tests are consulted for what the code *promises*.

## 1. The system

One organization's agents answer WhatsApp conversations through an API
(`cmd/api`); three worker commands (`inboxworker`, `metaworker`, `mailworker`)
do the asynchronous work. All of them share one PostgreSQL database and nothing
else: every interaction is a row. Transactions are READ COMMITTED; workers
claim rows with `FOR UPDATE SKIP LOCKED`, hold leases with random tokens, do
their network call outside any transaction and write the outcome back
conditionally. Any number of each process may run, and any may die between two
statements.

| Component | State | Operations | Interacts with | What is hard |
| --- | --- | --- | --- | --- |
| Guard and price arithmetic (`inbox/guard.go`, `exposure.go`) | none | `Evaluate`, `intervalMaximum`, exposure of a service message | called by preflight, submission and dispatch | closed/half-open interval ends, equal starts, several deadlines within seconds |
| Outbound dispatch (`inbox/worker.go`, `guard.go`, `meta/send.go`) | authorizations, intents, attempts, messages, test slots | preflight, submit, claim, authorize, send, finish, recover | settings, sessions, assignments, the provider | no provider idempotency: a second request is a second message; stalls, crashes and recovery race with answers |
| Delivery statuses (`inbox/materialize.go`, `worker.go`) | `message_statuses`, messages | materialize, correlate | webhook events, finishing dispatches | duplicates, reordering, contradictory statuses, lock waits and deadlocks, write skew |
| Conversations and inbound messages (`materialize.go`, `operations.go`, `service.go`) | conversations, messages, notes, reads, presence | materialize, assign, patch, note, read, wake | dispatch reads window and assignment; its outcome, recovery and synchronisation lock the same rows | monotone window, compare-and-set revisions, lock order between five kinds of transactions |
| Webhook ingestion (`meta/webhook.go`, `processor.go`, `service.go`) | events, attempts, facts, replays | receive, claim, process, replay, purge | sync (known assets), inbox | at-least-once delivery, leases, retries, retention |
| Asset synchronisation (`meta/sync.go`, `graph.go`) | sync runs, WABAs, phones | request, claim, fetch, persist | webhook quarantine, sender binding | a fetch that outlives its lease, coalescing of requests |
| Rate registry and budgets (`inbox/registry.go`, `pricing_coverage.go`) | imports, publications, policies, budget periods, reservations | import, validate, diff, submit, review, publish, reserve | policy revision read by dispatch | four eyes over several requests, a base that goes stale, concurrent reservations |
| Security mail (`identity/mail.go`) | mail outbox | enqueue, claim, send, finish | challenges, invitations | lease, duplicates, revocation after claim |
| Sessions, factors, access (`identity/service.go`, `auth.go`, `access.go`) | users, sessions, challenges, members, roles, invitations | login, MFA, reset, rotate, role and member administration | every request | last owner, revocation racing use, code replay, permission ceiling |
| HTTP, config, migrations, realtime polling, SMTP probe, frontend | none that outlives a request | | | |

### What makes each component correct

* **Dispatch**: at most one request per intent and one intent per phone; a
  request is on record before it leaves; a recorded verdict is the provider's;
  the three tables agree; a withdrawn ground is never forgotten; every
  submitted intent ends.
* **Conversations**: inbound messages are numbered without gap or repetition and
  the window stands on the latest of them; a request changes only what its agent
  saw, within reach at that moment; a snooze ends for a cause; deadlocks only delay.
* **Delivery**: once nothing is in progress, a message's state reflects every
  stored status, each distinct fact counted once; every event is materialized.
* **Guard**: a send is allowed exactly when every instant of its horizon is
  free and covered; the maximum is the one of the covering intervals.
* **Webhook**: attempts explain the state; a batch's facts are all or none;
  only a replay reopens an event; every admitted body is concluded.
* **Synchronisation**: one active run; the newest snapshot is not overwritten by
  a run that lost its lease; every requested run ends.
* **Registry**: nobody approves their own import; a publication extends the
  base it was reviewed against; every publication moves the policy revision.
  **Budgets**: reservations never exceed the period, whatever the interleaving.
* **Mail**: a one-use token is not sent after it expired; an outcome is recorded
  by the lease's holder; eight attempts.
* **Sessions and factors**: no code, recovery code or challenge is accepted twice;
  guesses are counted even when they are refused; a change of credentials ends
  what was begun before it.
* **Access**: an organization keeps an owner; nobody grants more than they hold;
  a revoked session is refused at its next use.

## 2. Modules

| Module | Models | Notes |
| --- | --- | --- |
| `Guard` | `Evaluate`, `intervalMaximum` | pure operators; `Evaluate` is used by `Dispatch` |
| `MCGuard` | both applied to every bounded input, against reference definitions | a part of `MCPricing`, without a configuration of its own |
| `Dispatch` | outbound path | each action is a transaction or a network step |
| `DispatchInvariant` | the inductive invariant `IInv` | |
| `SendOnce`, `DispatchRefinement` | abstract promise; the mapping | `Refines` is checked and proved |
| `Delivery` | statuses | each action is a *statement*: the interesting races lie inside transactions |
| `Conversation` | conversations, inbound messages and statuses, one note, and whoever else locks their rows | each lock is a step, in one of four modes |
| `Webhook` | bodies, attempts, facts, replay, retention | each action is a transaction |
| `Sync` | synchronisation runs and snapshots | each action is a transaction or the fetch |
| `MetaWorker` | `Sync` and `Webhook` composed: the worker's loop over shared assets | |
| `Registry` | rate imports, publications, the settings row | a request, from its locks to its commit, is one action |
| `Budget` | budget periods and reservations beside the registry | each action of a reservation is a statement |
| `Mail` | proofs and the outbox that delivers them | each action is a transaction or a network step; the sweep of lost leases is two statements with a clock each |
| `Session` | one user's password, its hash, factor, challenges and sessions | each action is a transaction; login is two statements |
| `Access` | members, grants, roles, a team, invitations, sessions bound to the organization or elsewhere | a request authenticates, enters the barrier, commits |
| `MCInbound` | `MetaWorker` and `Delivery` under fair scheduling | a behaviour exercises one of the two, which share no variable |
| `MCDispatch`, `MCDelivery`, `MCConversation`, `MCWebhook`, `MCMeta`, `MCPricing`, `MCMail`, `MCSession`, `MCAccess` | instances | |
| `DispatchProofs`, `DeliveryProofs`, `PricingProofs`, `MetaProofs`, `ConversationProofs`, `IdentityProofs`, `WebhookProofs`, `MailProofs` | proofs | see section 4 |

A definition named `XMutant` is a plausible bug in the definition `X` that
follows it. It takes no part in any specification; it documents which mistake
each property catches.

### Dispatch

`intent`, `auth`, `attempt`, `message` and `slot` are the rows of
`outbound_intents`, `pricing_authorizations`, `send_attempts`, `messages` and
`test_send_slots`. `pc`, `job` and `outcome` are a worker's position in
`DispatchOnce` and its locals; a `Fault` clears them and leaves the rows.
`requests` and `effect` belong to the provider. `withdrawn` and `reclaimed` are
history variables: nothing reads them but properties.

| Code | Action |
| --- | --- |
| preflight (`guard.go:154-194`) | `Preflight` |
| submit (`guard.go:195-261`) | `Submit` |
| first transaction (`worker.go:43-58`) | `Claim` |
| second transaction (`worker.go:59-148`) | `LoseClaim`, `Block`, `Permit` |
| `SendText` (`send.go`) | `RefuseText`, `Transmit`, `Answer` |
| `finishDispatch` (`worker.go:157-198`) | `Finish`, `FinishFenced` |
| `recoverUncertain` (`worker.go:199-229`) | `RecoverUncertain` |
| settings, publication, policy lapse, binding, session, assignment, inbound text | `SetSending`, `RevisePolicy`, `PolicyLapses`, `RebindSender`, `RevokeSession`, `Assign`, `Inbound` |
| the clock | `Tick` |

Abstractions. Deadlines are ticks left; a transaction takes no tick. A scope
hash is the tuple it covers. The claim token is the worker's name, sound because
a worker holds one job at a time and a token dies with its job. Message text,
phone and recipient formats only matter through `RefuseText`, which may happen
to any text. Every conversation is with the controlled recipient, as the
process's configuration demands, and is open to its agent. Audit rows and inbox
events are left out.

### Delivery

Materializing an event and recording an acceptance are sequences of statements,
each with its own snapshot: claiming (the `NOT EXISTS` is evaluated on a
snapshot that may precede the row lock), inserting a fact (waits on an
uncommitted equal key), locking the message (waits for its holder), projecting.
`Commit` and `Rollback` end a transaction and wake its waiters;
`DeadlockDetected` is the database breaking a cycle. The delivery projection is
`deliveryProjection` over the set of statuses seen.

What history of webhooks there is, whose acceptances are still unanswered and how
many workers there are is the *shift*, chosen once at the start from `Shifts`. It is
`Untangled` when one worker does everything or no event is about a message whose
acceptance is still to be recorded. Its names differ from `MetaWorker`'s (`Crew` for the workers,
`DeliveryNext`, `taken` for a worker's event, `Interrupt`), so that one module can extend
both (`MCInbound`).

### Conversation

| Code | Action |
| --- | --- |
| GET of the page, then PATCH, assignment, note edit or redaction | `Ask`, then `Change`, or `LockNote` and `ChangeNote`; `NotFound` |
| `MaterializeOnce` (`materialize.go:92-163`) | `Materialize`, then its items in payload order, then `Materialized` |
| `materializeMessage` | `LockThread`, `Record` |
| `materializeStatus` (`materialize.go:224-284`) | `Insert` or `Told`, `Correlate` |
| `recoverUncertain` | `Recover`, `GiveUp`, `Sweep` (decides on the rows), `Wake` (tests each again) |
| second transaction of `DispatchOnce`, of a claim that was lost | `Authorize`, `Stand` |
| `finishDispatch`, of an acceptance or another outcome | `Finish`, `LockOutcome`, `Conclude` |
| `persistSnapshot` | `Synchronize`, `Synchronized` |
| the lock manager | `Acquire`, `DeadlockDetected`, `Fault` |

`conv` is what is committed and `draft` what the holder of the row's lock has made
of it, so `Rollback` forgets the draft. `todo` is the list of locks a transaction
still needs, `held` those it has, `woken` those whose wait has just ended: a lock
that is released goes to those who waited. `seen` is the page an agent's request was
made from. A *scene* says who takes part, which conversations are snoozed at the
start, what a worker has left to do, and how many faults count as had. What the
intent's claim and outcome are is `Dispatch`'s matter: here it is a row with a state,
and a duty in the memory of a worker. How a status is projected is `Delivery`'s; here
it is a fact, the row of the message it is about, and the event that tells of it.

**Locks.** `Conflict` has the four modes of a row lock that the statements take: FOR
KEY SHARE by an insert on the row it refers to, FOR SHARE, the mode of an UPDATE that
sets no column of a unique key, and FOR UPDATE (which an upsert of a conversation
takes as well, since it sets a column of one). A fact that is inserted and not yet
committed is a row, too: an equal insert waits for it. `event()`
(`service.go:104-107`) inserts into `inbox_events`, whose foreign key
(`00004_guarded_inbox.sql:112`) locks the conversation FOR KEY SHARE; `Event` is that
lock, for every event of a transaction that does not have the row already. The other
references of inserted rows (phone, recipient, account, intent, message, note,
webhook event) are left out: a key share conflicts with FOR UPDATE only, and nobody
takes those rows FOR UPDATE except `Authorize` the intent and a request the note, which
no insert of another transaction refers to while it could matter. Sessions and
organizations, which are also locked by requests, are out of this module's scope.

**Rings.** Waits can be circular between authorizing and finishing a dispatch
(`worker.go:59`, `:172`: conversation and intent in opposite orders), authorizing and
waking, two materializations that cross, authorizing and synchronising, an agent's
request and a synchronisation (anchors against `sync.go:80`), a recovery that wakes
several conversations (it holds one row and waits for the next in the order of its
scan, `worker.go:223`), and an agent and a materialization that told of a status: its
event has locked the agent's conversation, FOR KEY SHARE, and a message after that
status in the same payload needs the recipient, which the agent's request has FOR
SHARE while it waits for the conversation (`materialize.go:282`, `:164`;
`service.go:121-127`). `RequestsWaitInOrder` says that an agent is on no other kind
of ring. The code leaves the rings to the
database; the run shows that in its instance they only delay.

An observation no run is made for: if two events hold the same two conversations in
opposite orders *and* the same two statuses in opposite orders, two workers can abort
each other's transaction in turns, for ever, each retrying at the worst moment.
Fairness of each worker does not exclude that; the one-second loop and the database's
choice of the victim make it unlikely. The run's events cross in conversations or
repeat a status, not both in opposite orders.

Left out: the session's lock (nobody else's request has it), adding notes and
mentions, priority, and submissions (all take the locks of a request in the same
order), read watermarks, presence, and claims on a stale snapshot, which are in
`Delivery`.

### Webhook

`event` is the row of a body (the digest is unique per application), `attempts`
and `facts` the two append-only tables, `evidence` the ciphertext's life. `at`
is a worker's place in `processOne`; `Begin` is the start of its second
transaction, at which PostgreSQL fixes `now()`, so a worker whose lease runs out
between `Begin` and the row lock still passes the time test, and only the token
stops it. `attempt_count` is counted up to one more than the maximum: beyond
that only "exhausted" matters. Signatures, envelope checks and the parsing in
`classify` are inputs (`ClassOf`, `EffectsOf`, `AssetsOf`). Materialization is
one step here because `Delivery` models its statements.

### Sync and MetaWorker

`run` is `asset_sync_runs`; a snapshot is the number of the provider's state it was
read from, `remote` the provider's state now, `stored` the one last persisted,
`known` the assets recorded. `place` is a worker's position in `syncOne`. `Request`
is the insertion over the partial unique index; `Claim`, `Read`, then `Succeed`,
`GiveUp` or `Leave` are the run's course. A snapshot that lists a phone recorded
elsewhere cannot be persisted and rolls back: the run stays RUNNING until its lease
ends. Columns that only the health page shows are left out.

`MetaWorker` is `RunWorker`'s loop: each worker takes a synchronisation, then a
webhook event, then purges, and passes over what is not due. `Webhook` is
instantiated over the same `known` assets: what a synchronisation persists, the
receiver admits bodies by. A worker stuck in one part does not do the others.

### Registry and Budget

`settings` is the row of `inbox_settings`, `import` those of `rate_imports`,
`publications` those of `rate_publications` in order. `Begin` is the permission check
of a request, which then may wait for the settings row: between `Begin` and the
request's action anything may be committed. Every transition names the import's
revision as its client read it. `Content` is what the review's fingerprint hashes.
What the artifacts say and how two of them are compared are pure functions and left
out: a report is VALID, a diff is against a publication. `approvals` and `submitted`
are history variables.

In `Budget` a reservation holds the settings row FOR SHARE and the period's row FOR
UPDATE and reads in between: `Start`, `ReadExisting`, `ReadExposure`, `Reserve`.
`reserveBudget` (`registry.go:393-457`) has no caller in the repository; a reserver
stands for the transaction that will.

An observation no run is made for: `docs/06-api-contract.md:198` says "A stale base
requires reset to DRAFT". An APPROVED import whose base went stale has no way out in the
code: it cannot be published, compared again, revised or reviewed again.

### Session

`user` is the authentication revision, the password, whether its hash was made with
parameters of the past (`outdated`) and whether the email is verified;
`factor`, `recovery`, `challenge`, `session` are the rows that still count. `now` counts
TOTP steps, and `Checked` accepts the codes of three of them, as `checkFactor` does.
Every transaction locks the user's row first and is one action; login reads the
password and the factor in the statement that waits for that row (`LoginReads`, then
`LoginPasses`), so it may pass on what was true before a change it waited for:
`login` keeps what was read. Such a login gets its session or second step under the
revision it finds after the wait, and if the hash it read was outdated, `Rehashed` puts
the password it read back (`auth.go:219-227`). That is the finding of run
`session_overtaken`; `OnlyLatestChallenge` says when a second step was issued, not what
its login had read. A failed code is committed (`MfaFails`). `spent` and `doubled` are
history variables.

### Mail

`mail` and `attempts` are the rows of `mail_deliveries` and `mail_attempts`, `proof` the
challenge or invitation digest a mail was made for, `relay` what the SMTP relay has
accepted. `Issue`, `Notice`, `RevokeInvitation`, `Complete` are the requests that
enqueue, supersede and use up proofs; `CloseAttempts`, then `Sweep`, `Claim` or `Drop`,
`Recheck`, `Transmit`/`Refuse`, `Finish`/`Lose` are `DeliverOne` in its order. There is
one user and one invitation; a row is used for whatever purpose comes, and rows are in
the order of their ids. The key that seals payloads never changes, so a payload always
opens. `underway` is a history variable: the attempts that were past their last check
when the mail became obsolete.

The first transaction reads the clock in each of its statements. `CloseAttempts` is the
UPDATE of `mail_attempts` (`mail.go:148`); leases may run out before the UPDATE of
`mail_deliveries` (`:152`), which with the rest of the transaction is the next action.
Until it commits, the attempts it closes are locked (`closed`), and a worker that
finishes one of them waits (`Contended`). The third reading, for the claim, is that of
the second: what lapses between these two is not claimed either way.

Two observations no run is made for. `docs/24-sprint-1-evidence.md:38` says "Crashed
leases retain UNKNOWN attempt evidence"; a lease that runs out between the two
statements goes to RETRY_WAIT with its attempt still open, and the next claim opens
another. `AttemptsExplainDelivery` therefore does not claim it. And
`docs/05-database-design.md:261` speaks of consuming a proof and invalidating its queued
deliveries together; the code cancels them at their next claim (`mailValid`). What
matters, that an obsolete proof does not go out, is `ObsoleteNotSent`.

### Access

`request[u]` is a request of a user: `authenticated` once `authenticate` has locked the
user's row and compared the session's revision, `ready` once
`authorize_membership_write` has locked the organization's row (`barrier`) and every
check has passed. The user's row lock lets a user have one request at a time. The access
revision is compared, and moved along by the request's own changes, for a session bound
to the organization only (`access.go:129`, `Unmoved`); `Elsewhere` are the users who may
come with a session bound to another or to none, whose permissions are checked all the
same. `Commit` writes all tables at once; `Abort` is a refusal, a lock timeout or a
crash. `acceptor[a]` is a request that accepts the invitation: `read` before any lock,
`locked` with both users' rows, `ready` under the barrier. A request's revision
(`If-Match`) is what the client read when it sent the request. Email verification,
recent authentication and MFA hold: they are read under the user's row lock. Users are
globally active. The model has one organization, one team and one invitation; the
invitation's revision counts on over its rows, which identifies the row as well. Roles
and teams exist from the start; renaming, SELF scope and grant expiry are left out.

## 3. Runs

| Run | Instance | Question |
| --- | --- | --- |
| `dispatch_workers` | 1 intent, 2 workers, 2 authorizations, 2 faults, two-tick leases, fairness | truth, agreement, reclaimed claims, `Refines`, and that a submitted intent ends |
| `dispatch_policy` | 2 intents of one phone, 1 worker, 2 policy revisions, 1 reassignment, revocation, binding loss | one request per phone, withdrawn grounds, use and lifetime of authorizations |
| `dispatch_late_acceptance` | 1 intent, 2 workers | *violated*, see Findings |
| `delivery_orphan` | 1 message, 2 workers | *violated*, see Findings |
| `conversation` | five scenes of two or three out of 2 agents, 2 workers and a synchronisation, with no conversation snoozed or all; 2 conversations, 3 events: two that cross with a repeated message, one of them with a status in front, and one that repeats the status; 1 request each, 1 tick, 1 fault in every scene but that of two workers and an agent, fairness | are inbound messages accounted for, do changes build on what was seen, do snoozes end for a cause, are requests on a ring only with a synchronisation, a recovery or a status told before a message, and do deadlocks only delay? |
| `webhook` | 2 bodies with a common effect, one invalid, 2 assets, 2 workers, 2 attempts, 1 replay, 1 fault | leases, late transactions, attempts and state, batches, retention |
| `inbound` | `MetaWorker`: 2 runs, 1 body, 2 workers, 3 provider states (one asset dropped, then a foreign phone added), 1 mishap; or `Delivery`: 2 workers and 3 crossing events of 2 accepted messages, or 2 workers, 2 events of one message and the acceptance of another, or 1 worker, 4 events and 2 unanswered acceptances, 2 lost connections; fairness | are snapshots in order, does admission hold while assets change, does every run and every body end? are statuses reflected under waits, deadlocks, stale claims and early arrival, and is every event materialized? |
| `pricing` | 2 members, 2 imports of 2 revisions, 4 policy revisions, 1 revoked permission; 1 period, 2 reservations by 2 transactions; `Guard`'s procedures on all instants up to 4, up to 3 intervals over 4 instants | four eyes over the base that was reviewed, settings not overwritten, budgets not exceeded, `Evaluate` and `intervalMaximum` right at every boundary |
| `mail` | 2 mails of any combination of resets, invitations and notices, 2 workers, 2 attempts each and 3 in all, leases that end between any two statements, unbounded crashes | does the record explain what went out, and is an obsolete proof withheld? |
| `session` | 1 login in flight, 3 sessions, 3 steps of time, 2 challenges of 2 attempts, 1 recovery code per set, 2 enrolments, 2 changes of credentials | is every proof accepted once, are guesses bounded, does a change of credentials end what was before? |
| `session_overtaken` | 1 login, 2 sessions, 1 enrolment, 2 changes of credentials | *violated*, see Findings |
| `access` | 2 owners, one of whom may also use a session bound elsewhere, an invited user, 2 roles, 3 requests, 2 acceptances | last owner, stale sessions, delegation, admission |

**Bounds.** Two workers and one row exhibit every race over a row, since a row has one
holder and a third worker repeats the role of one of the two. Two intents are needed for
the slot and for key and authorization conflicts (`dispatch_policy`). That run has one
worker, one session and no faults: its `AtMostOneRequest` is about the slot, and the
half about two workers and crashes is `Refines` and theorem `OneRequest`; authorizations
and keys that two sessions or two texts compete for are theorem `SingleUse`. Lease,
staleness and authorization ticks of 2 keep "fresh", "about to lapse" and "lapsed"
apart; where the lease is 1 and the retry 0 (`webhook`, `inbound`, `mail`), a worker can
still lose its lease at every place and a retry is due at once. `MaxAttempts` is 2
instead of 8: one retry and one exhaustion suffice; an event has one attempt in `inbound`,
so that RETRY_WAIT does not occur there: its retries are run `webhook`'s and
`WebhookProofs`'. `MaxPolicyRev`, `MaxAssignment`, `MaxReplays`, `MaxFaults`,
`MaxInterrupts`, `MaxClaims` and `MaxChanges` bound counters in the guards of the actions
that move them. In `mail`, three claims exhaust one mail beside an attempt of the
other, and a verification would repeat what a reset shows. In `access`, `Elsewhere` is one of the two owners, and three requests are
one that prepares, and two that race, or an invitation and two changes of its inviter's
authority; what they may set is bounded by `GrantChoices`, `KeyChoices` and
`RoleChoices`: no grant, the helper role for the organization or the team, a role edit
that keeps or widens it, and the owner role for team and invitation. In `pricing` a
behaviour exercises one of three parts (`part`), whose variables do not touch each
other: the registry alone; a single import beside the budgets; the procedures. Two
imports compared with one base and one published first are the smallest case of a stale
base; a second revision is needed for a verdict that comes late; one unit against a
limit of two, and two, for a race that exceeds it. In `session`, steps 1 to 3 let a code
be ahead of its time, in time and behind it, and two changes of credentials let a third
session be between them. In `conversation`, at most three take part at a time, which is
the scene's `cast`; more of them are the proofs' matter. A status comes before a message
of its conversation and is repeated by an event of its own, which is what puts an agent
and a materialization on a ring: without the third disjunct of `RequestsWaitInOrder` the
run finds it. One worker may have an outcome to record and the other a claim it lost
(`duty`): the workers are alike, so which is which does not matter. One request of each
agent meets every other writer once; a second would start from a page that is no older.
One tick makes a snooze and a dispatch overdue, and since it comes at any moment, after
a recovery has decided as well as before.

Symmetry is used over interchangeable workers, acceptors and rows, in runs without
liveness only. Deadlock (a state without a step) is not checked where the system or the
bounds bring it to rest: `pricing` (requests against the largest policy revision; the
procedures stop with their inputs), `session` (time and credentials exhausted), `mail`
(all mails terminal and their time over) and `conversation` (everything has landed). A
ring of locks is not such a state, since the database breaks it; that it does not last
is `EverythingLands`. The other runs never stop.

**Fairness.** Assumed of the workers is what their main loops do: every second
they call recovery, claim and processing; network calls are bounded by a 25 s timeout;
the database clock runs. The second transaction of a claim is strongly fair: it takes
milliseconds, a lease a minute, and no schedule stalls past every lease for ever. With
weak fairness alone two workers that always stall could take a row from each other in
turns. In `MetaWorker` weak fairness of each worker's loop is enough, since `MaxMishaps`
bounds how often a worker dies or outlasts its lease; the run `webhook` and `MetaProofs`
have such stalls without bound. In `Conversation` each process's statements are answered
(`Answered`), each worker's loop goes on (`Loop`) and the clock runs, each weakly fair.
Nothing is assumed of agents, administrators, the provider or the faults, except that
these are finitely many.

## 4. Proofs

For every value of the constants that satisfies the assumptions named in the
modules. Every invariant and every action property of the passing runs is proved. The
assumptions (`GuardAssumption`, `DeliveryAssumption`, `DispatchAssumption`,
`RegistryAssumption`, `BudgetAssumption`, `SessionAssumption`, `SyncAssumption`,
`MetaAssumption`, `ConversationAssumption`, `WebhookAssumption`, `MailAssumption`,
`AccessAssumption`, `ProceduresAssumption`) say what the constants are: numbers, sets,
functions between them, and names that differ. Four say more:
`LeaseAssumption`, that an authorization's life is at most a claim's (both are one
minute in the code); `BudgetAssumption`, that amounts are positive (as the table's
check demands); `AccessAssumption`, that the organization starts with an owner; and
`ConversationAssumption`, that one worker at most has the outcome of the one intent (that
is `DispatchProofs!OneRequest`) and that no event states the same status twice.

| Theorem | Establishes |
| --- | --- |
| `DispatchProofs!TypeCorrect` | `[]TypeOK` |
| `DispatchProofs!OneRequest`, `OnRecord`, `Truth`, `Agreement` | `AtMostOneRequest`, `RequestIsOnRecord`, `TruthfulOutcome`, `OutcomeAgreement` |
| `DispatchProofs!Withdrawal`, `Reclaim` | `WithdrawnNeverSent`, `ReclaimedNeverSent` |
| `DispatchProofs!SingleUse`, `InsideWindow` | `AuthorizationSpentOnce`, `AuthorizationInsideWindow` |
| `DispatchProofs!Implements` | `Refines`: the detailed protocol implements `SendOnce` |
| `DeliveryProofs!Reflected` | `StatusesReflected`, of every shift that is `Untangled` |
| `PricingProofs!EveryPublicationReviewed`, `EveryApprovalAsSubmitted`, `SettingsNotLost` | `PublicationsReviewed`, `ApprovedAsSubmitted`, `SavedOverWhatWasRead` |
| `PricingProofs!AllowedExactly`, `MaximumFound`, `ProceduresRight` | `AllowedIffCovered`, `MaximumIsExact`: for every input, and so in every state |
| `PricingProofs!LimitsHold` | `BudgetHolds` |
| `IdentityProofs!ProofsAcceptedOnce`, `GuessesAreBounded`, `LatestCompletes`, `ChangesEndSessions` | `EachProofOnce`, `GuessesBounded`, `OnlyLatestChallenge`, `CredentialChangeEndsSessions` |
| `MetaProofs!InOrder`, `LoopInOrder` | `SnapshotsInOrder`, of `Sync` alone and in the worker's loop |
| `MetaProofs!LoopAdmission` | `AdmittedStaysAdmitted` in the worker's loop, where assets change |
| `ConversationProofs!InboundInOrder`, `ChangesAreInformed` | `InboundAccounted`, `ChangesBuildOnWhatWasSeen` |
| `ConversationProofs!SnoozesEndForCause`, `RequestsKeepOrder` | `SnoozeEndsForCause`, `RequestsWaitInOrder` |
| `IdentityProofs!AlwaysOwned`, `AlwaysCurrent` | `OwnerRemains`, `StaleSessionNeverWrites` |
| `IdentityProofs!NobodyGivesMore`, `OnlyTheInvitationAdmits` | `GrantedByHolder`, `AdmittedByLiveInvitation` |
| `WebhookProofs!Explained`, `WholeFacts`, `NoneForeign`, `ReplayAlone` | `AttemptsExplainState`, `FactsAreAllOrNothing`, `AdmittedStaysAdmitted`, `OnlyReplayReopens` |
| `MailProofs!DeliveryExplained`, `NeverDenied`, `ObsoleteStays` | `AttemptsExplainDelivery`, `AcceptanceNeverDenied`, `ObsoleteNotSent` |
| `Inductive`, `RegistryInvariant`, `SessionInvariant`, `AccessInvariant`, `SyncInvariant`, `LoopInvariant`, `Kept`, `Invariant` of those modules | their inductive invariants, type correctness included |

TLC checked each inductive invariant on the instance of the component's run before
it was proved. Attempts to prove corrected the project: `RequestsWaitInOrder` had named
synchronisations alone, and the proof did not go through for recovery's update of
several rows, which the run's conversations, none of them snoozed, did not reach;
`AllowedIffCovered` had left out that a policy must have an end and that the latest
delivery must not lie before now, which the enumerated inputs always satisfied.

### Dispatch

**The argument.** None of the properties is inductive. `IInv` is
`TypeInv /\ SendInv /\ GroundsInv`.

* `SendInv` speaks of one worker and one row at a time. A worker past its
  authorization *owns* its intent: the token is its own and only recovery has
  touched the row since (`Owns`). Hence two workers in flight never have the
  same job (both would own the token), a worker about to send finds no earlier
  request (`Fresh`), and what it will record is what the provider said
  (`Honest`). A row's requests, slot and references follow its state
  (`Follows`). `SendInv` is inductive on top of `TypeInv` without any clock.
* `GroundsInv` explains why a check made later still sees what happened in
  between. Every withdrawal leaves a mark that never goes back: a dead session,
  an authorization older than the policy revision, a lapsed policy, an old
  assignment revision (`Lapsed`); so the second transaction must refuse. For
  reclaimed intents the mark is time: a claim was taken after the authorization
  was issued and lives at least as long (`ClaimCoversLife`), so when a claim has
  run out, the authorization has too.
* The refinement maps `QUEUED` and `RESERVED` to *pending*, forgets leases,
  authorizations and workers, and is proved step by step from `SendInv`.

### Registry, procedures, budgets

A verdict names a revision, a publication happens later and by another request. The
invariant ties them: what an import's state promises about its row (a DIFFED import
has a valid report and a comparison with its base; an APPROVED one the content that
was reviewed, and an approval for it), and that a revision once put to review is
either over or still the row's, so no revision is submitted with two contents. The
fresh base then makes the publications one chain. `SettingsNotLost` rests on the
policy revision: every writer of the settings row moves it, so an equal revision
means an equal row.

`Evaluate` compares ends of intervals; `AllowedExactly` says that this decides every
instant between them, for any integers, and each of its denials is met on the way.
`intervalMaximum` is a fold over a sorted list. Its result is found by a least
counterexample instead of an induction: were the walk ever wrong, there would be a
first place at which it is (`WFMin` over the naturals takes a set, not an operator),
and at that place the code's comparison with the end so far decides. So a walk that
does not stop has covered every instant exactly once (`GaplessCoversOnce`), one that
stops has met a gap, an overlap or a faulty price (`CoveredOnceIsGapless`), and the
maximum is attained and not exceeded. The sort is any order that puts starts in
order, as the code's unstable sort may.

`BudgetHolds` compares sums over sets. The sum is a recursive function over the
subsets of a finite set; that it exists and that one more reservation adds its amount
is again a least counterexample, over cardinalities. `BudgetInv` then says that a
period has one holder at a time, that a reservation has its period, and that what a
holder has compared with the limit still holds (`StillWithin`), because nobody else
adds to that period meanwhile. The three parts share no variables, and each is proved
with the others standing still.

### Delivery

`StatusesReflected` is false of some shifts (run `delivery_orphan`), so the theorem names
those it is about: `Untangled(shift)`, a statement about the initial state, since the
shift never changes. `MCDelivery` assumes of its instances that the passing run's shifts
are untangled and the violated run's are not, and TLC checks that. There are two halves.
`ProjectionTells` is about the projection alone: it takes what some of a message's
statuses say, adds all of them, and yields what all say, so neither order nor repetition
matters. The invariant is about the transactions: a draft says what its holder has
projected (`Drafts`); of a worker's uncommitted facts all but the one at hand belong to
messages it has locked, or to messages without a provider id (`Covered`); and whoever
records an acceptance does so of a message no other worker has facts of (`Apart`). So
nobody else's commit adds a fact to a message under lock, and a commit leaves row and
facts in agreement. `EndStep` does this for every way in which a transaction ends,
`GoesOn` for steps that write no message and `Writes` for those that do.

### Session

Which proofs *can* have been accepted: TOTP steps of the present secret up to the
factor's `last_step`, recovery codes of the present set that are gone from it and
those of earlier sets, challenges no longer open, secrets not generated after this
one. What is accepted next is outside these. `OnlyLatestChallenge` needs that open
challenges are one per kind and that the login's is under the present revision; it says
when a challenge was issued, whatever its login had read.
`ChangesEndSessions` goes through the actions: each change ends every live session
and adds at most its own.

### Sync and the worker's loop

Only the run under way has a token, and whoever still holds it has read nothing
older than what is stored (`HolderIsNewest`): another snapshot can only have been
persisted by a holder of the same run, which ended it. This has no assumption on
the length of leases; they may end at any moment. Each step of `MetaWorker` is a step
of `Sync` or leaves its variables alone (`StepsAreSync`), so the invariant carries
over to the loop. `Admission` needs the two parts together: the receiver admits a
body when its assets are known, the processor looks again, and what a synchronisation
persists in between only ever adds, since rows are upserted and never deleted.

### Conversation

Rows are locked exclusively (`LocksApart`), so the draft of a row nobody has locked is
the row (`Drafts`), and a draft is ahead of its row by its revision
(`Later`). A page is therefore never newer than the row (`Pages`), and an equal
revision means the same row: that is `ChangesAreInformed`. Who has come to lock the
note has its conversation locked and in reach (`NoteReached`), so nobody can move it
out of reach before the note is written. `Counted` says of rows and drafts what
`InboundAccounted` says of rows. For snoozes, a draft of a row not yet committed is
either the row or has more inbound messages (`Ahead`), and no worker's time of
decision is to come (`Ages`); so who wakes a row does so by one of the three causes
even if it waited. For the order of locks, `Routes` says how far along its list each
transaction is and what it holds there, in which mode: what a process waits for says what
it holds. Where neither a synchronisation, nor a waking recovery, nor a materialization
that holds the agent's conversation FOR KEY SHARE runs, whoever holds what an agent waits
for waits, if at all, only for transactions that never come to wait for an agent
(`NoteHolder`, `IntentHolder`, `RowHolder`), and a ring cannot leave such a set
(`NoWayBack`, `NoRing`). `RollbackKeeps`, `CommitKeeps` and `Acquired` are the
ways in which a transaction ends or goes on; there is one lemma for each action.

### Access

A request checks its session and its permissions under the organization's barrier
and writes at its commit. Only one request or acceptance is under the barrier
(`Exclusion`), and whoever writes needs it, so what was checked still holds when it is
used (`ChecksHold`; for an acceptance, that the inviter may still delegate the roles
and that the token is the invitation's). `OwnerRemains` and `StaleSessionNeverWrites`
are parts of the invariant. `NobodyGivesMore` compares, kind by kind, what a step
gives with the ceiling that was checked; it needs `TeamIsActive`: a member who comes
back from deactivation has nothing but the grants the ceiling was checked over.

### Webhook

A row's token is held by one worker, whose generation and number are the row's
(`Fenced`), and no two attempts have one number (`Counted`). So the attempt that is
written is a new one, it is the last, and the row's new state is what it came to;
recovery after a lost lease writes the attempt of the number it ends. Facts are
written with their attempt. A token may be lost at any place; what is left of that
worker's transaction is refused.

### Mail

`Ledger` numbers the attempts of each mail, without gap and each once, and says of
the last of them how the mail got where it is; an earlier one may be left open, by a lease
that ran out between the two statements of a sweep. A busy worker owns the number it
claimed (`Apart`), so a late verdict concludes its own attempt or none; and what a sweep
has closed and not committed is nobody else's to conclude. A verdict
says what the worker saw at the relay (`Sound`), and every number the relay knows
has been claimed. Of a mail that is obsolete, what reached the relay or still may was
counted as underway when its proof ended (`Covered`); nobody passes the last check
after that.

**Only model-checked.** Liveness (`EventuallySettled`, `EventuallyMaterialized`,
`RequestedRunEnds`, `EventuallyConcluded`, `EverythingLands`), which is beyond the
prover. No module has a RECURSIVE operator: the folds are recursive functions, which is
what let the procedures and sums be proved.

## 5. Findings

* `docs/17-testing-strategy.md:49` says "Stale worker loses fence but later
  positive response can reconcile the existing attempt". `finishDispatch`
  (`worker.go:172`) drops an acceptance that arrives after recovery gave the
  attempt up: attempt, message and provider id never learn of it, and its
  delivery statuses find no message. Run `dispatch_late_acceptance`.
* `docs/28-sprint-3-evidence.md:35` claims orphan correlation of statuses. With
  two workers, a status can be stored while the acceptance of its message is
  being recorded: each transaction misses the other's uncommitted write, and the
  message stays ACCEPTED beside a stored DELIVERED. Run `delivery_orphan`. It takes
  several workers and a status of the very message whose acceptance is being recorded:
  otherwise it does not happen (run `inbound`, theorem `Reflected`).
* `docs/24-sprint-1-evidence.md:28` says "Reset and MFA changes invalidate global auth
  revision and pending login-MFA proofs". The statement of `public.login` that waits for
  the user's row (`auth.go:207`) has the password hash and the factor of its snapshot. A
  login that a reset or a confirmation of the factor overtakes there is judged by what is
  no longer true, and is given a session, or a second step, of the revision of
  afterwards; the rehash (`auth.go:219-227`) may even put the old password back. Run
  `session_overtaken`.

## 6. Not modelled

* HTTP parsing, encryption, hashing and tokens (taken as collision-free values),
  configuration, migrations, the SMTP dialogue, logging, audit rows and the
  frontend: no state of their own that outlives a request.
* The realtime stream (`realtime.go`) polls `inbox_events`, sends the last minute
  again and always asks for a refresh: it has no cursor to go wrong.
* The contents of rate artifacts, their validation and comparison, `serviceExposure`
  and `maximumStillApproved` beyond the maximum itself: pure functions over decimals
  and dates, with table tests of their own.
* Read watermarks and presence. One hazard is left without a property there: the
  page's messages are selected before its details (`operations.go:198`, `:216`), each with
  a snapshot of its own, and the frontend marks `inbound_sequence` of the details as
  read (`inbox-panel.tsx:75-76`), so a message that arrives in between is marked read
  unseen (compare `docs/04-domain-model.md:52`). It needs one snapshot per
  statement of that request, and the frontend.
* Creating and renaming roles and teams, SELF scope and grant expiry (`Access`), rate
  limits (`Session`).

## 7. Plan

1. `Guard`, `Dispatch`, `SendOnce`, `Delivery`, `Webhook`, `Mail`, `Access`, `Registry`,
   `Budget`, `Sync`, `MetaWorker`, `Session`, `Conversation` and their runs. *Done.*
2. Proofs about `Dispatch`, `Registry`, `Session`, `Sync`, `Conversation`, then `Access`,
   `Webhook`, `Mail`, `MetaWorker`, `Guard`, `Budget`. *Done.*
3. `StatusesReflected` for every untangled shift. *Done.*
4. An abstract specification of a lease-protected job, implemented by `Webhook`, `Mail`
   and `Sync`.
5. Read watermarks with the snapshots of the page's statements; liveness of `Mail`;
   a payload that no longer opens.
