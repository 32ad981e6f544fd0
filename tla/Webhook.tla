------------------------------- MODULE Webhook -------------------------------
(***************************************************************************)
(* Webhook bodies from receipt to materialization: the callback stores a   *)
(* body once by its digest or quarantines it, meta workers process it      *)
(* under a lease with bounded attempts, administrators replay it, the      *)
(* retention purge takes its ciphertext away, and an inbox worker          *)
(* materializes what was processed.  Sources: webhook.go, processor.go and *)
(* service.go in backend/internal/meta, MaterializeOnce in                 *)
(* inbox/materialize.go, and the tables of 00003.                          *)
(*                                                                         *)
(* Each action is one transaction, or the step between the two of          *)
(* processOne.  Leases and retry delays are ticks left.  XMutant before X  *)
(* is a plausible bug in X that the runs must detect.                      *)
(***************************************************************************)
EXTENDS Naturals, FiniteSets

CONSTANTS
    Nil,
    Bodies,         \* distinct raw bodies; a row is named by its digest
    Workers,        \* meta worker processes; a lease token is its worker's name,
                    \* since a worker works on one event at a time
    Assets,         \* external ids of WABAs and phones
    AssetsOf,       \* the assets a body names
    Effects,        \* effect keys: hashes without collisions
    EffectsOf,      \* the facts classify finds in a body
    ClassOf,        \* classify's verdict on a body
    MaxAttempts,    \* 8
    LeaseTicks,     \* one minute
    RetryTicks,     \* backoff: 2^count seconds, at most 256
    MaxReplays,     \* bound on the replays of a body
    MaxFaults       \* bound on crashes and database errors

ASSUME WebhookAssumption ==
    /\ AssetsOf \in [Bodies -> SUBSET Assets]
    /\ EffectsOf \in [Bodies -> SUBSET Effects]
    /\ ClassOf \in [Bodies -> {"PROCESSED", "UNKNOWN", "INVALID"}]
    /\ MaxAttempts \in Nat \ {0} /\ LeaseTicks \in Nat \ {0} /\ RetryTicks \in Nat
    /\ MaxReplays \in Nat /\ MaxFaults \in Nat
    /\ Nil \notin Workers \cup Bodies

VARIABLES
    known,        \* wabas and phone_numbers: rows are upserted, never deleted
    event,        \* webhook_events
    evidence,     \* raw_ciphertext: NONE, KEPT, EXPIRED (retain_until passed), PURGED
    attempts,     \* webhook_processing_attempts
    facts,        \* webhook_facts, by effect key
    inbox,        \* inbox_materializations.state, or NONE
    at,           \* a worker's place in processOne and its locals
    faults

rowVars == <<event, attempts, facts>>
vars == <<known, event, evidence, attempts, facts, inbox, at, faults>>

EventState == {"NONE", "QUEUED", "PROCESSING", "RETRY_WAIT", "PROCESSED", "UNKNOWN",
               "INVALID", "QUARANTINED", "DEAD_LETTER"}
Written == {"PROCESSED", "UNKNOWN"}                  \* the facts were written
Ended   == Written \cup {"INVALID", "DEAD_LETTER"}   \* may be replayed

\* attempt_count stays at MaxAttempts + 1: beyond it only that matters.
Count == 0..(MaxAttempts + 1)
EventRow == [state : EventState, gen : 0..MaxReplays, count : Count,
             token : Workers \cup {Nil}, leaseLeft : 0..LeaseTicks, waitLeft : 0..RetryTicks]
NoEvent  == [state |-> "NONE", gen |-> 0, count |-> 0, token |-> Nil,
             leaseLeft |-> 0, waitLeft |-> 0]
Attempt  == [body : Bodies, gen : 0..MaxReplays, no : Count, result : EventState]
Place    == [pc : {"idle", "claimed", "open"}, job : Bodies \cup {Nil},
             gen : 0..MaxReplays, no : Count, sealed : BOOLEAN, inTime : BOOLEAN]
Idle     == [pc |-> "idle", job |-> Nil, gen |-> 0, no |-> 0,
             sealed |-> FALSE, inTime |-> FALSE]

Init ==
    /\ known = {}
    /\ event = [b \in Bodies |-> NoEvent]
    /\ evidence = [b \in Bodies |-> "NONE"]
    /\ attempts = {} /\ facts = {}
    /\ inbox = [b \in Bodies |-> "NONE"]
    /\ at = [w \in Workers |-> Idle]
    /\ faults = 0

------------------------------------------------------------------------------
(* The callback, the administrators and the clock *)

\* Synchronisation discovers an asset.
Discover(x) ==
    /\ x \notin known
    /\ known' = known \cup {x}
    /\ UNCHANGED <<event, evidence, attempts, facts, inbox, at, faults>>

\* One foreign asset quarantines the whole body.
Admitted(b) == IF AssetsOf[b] \subseteq known THEN "QUEUED" ELSE "QUARANTINED"

\* INSERT .. ON CONFLICT(organization_id, app_id, raw_digest) DO NOTHING.
Stored(b) == IF event[b] = NoEvent THEN [NoEvent EXCEPT !.state = Admitted(b)] ELSE event[b]

\* POST of a signed body, possibly one that was stored before.
Receive(b) ==
    /\ event' = [event EXCEPT ![b] = Stored(b)]
    /\ evidence' = [evidence EXCEPT ![b] = IF @ = "NONE" THEN "KEPT" ELSE @]
    /\ UNCHANGED <<known, attempts, facts, inbox, at, faults>>

\* POST /meta/webhook-events/{id}/replay.
GenerationMutant(b) == event[b].gen
Generation(b) == event[b].gen + 1

Replay(b) ==
    /\ event[b].state \in Ended
    /\ evidence[b] = "KEPT"
    /\ event[b].gen < MaxReplays
    /\ event' = [event EXCEPT ![b] = [NoEvent EXCEPT !.state = "QUEUED", !.gen = Generation(b)]]
    /\ UNCHANGED <<known, evidence, attempts, facts, inbox, at, faults>>

\* Seven days have passed.
Expire(b) ==
    /\ evidence[b] = "KEPT"
    /\ evidence' = [evidence EXCEPT ![b] = "EXPIRED"]
    /\ UNCHANGED <<known, rowVars, inbox, at, faults>>

\* RunWorker's purge, whatever the event's state.
Purge ==
    /\ \E b \in Bodies : evidence[b] = "EXPIRED"
    /\ evidence' = [b \in Bodies |-> IF evidence[b] = "EXPIRED" THEN "PURGED" ELSE evidence[b]]
    /\ UNCHANGED <<known, rowVars, inbox, at, faults>>

Before(n) == IF n = 0 THEN 0 ELSE n - 1

Tick ==
    /\ \E b \in Bodies : event[b].leaseLeft > 0 \/ event[b].waitLeft > 0
    /\ event' = [b \in Bodies |-> [event[b] EXCEPT !.leaseLeft = Before(@), !.waitLeft = Before(@)]]
    /\ UNCHANGED <<known, evidence, attempts, facts, inbox, at, faults>>

------------------------------------------------------------------------------
(* processOne *)

DueMutant(b) == event[b].state \in {"QUEUED", "RETRY_WAIT"} /\ event[b].waitLeft = 0
Due(b) == \/ event[b].state \in {"QUEUED", "RETRY_WAIT"} /\ event[b].waitLeft = 0
          \/ event[b].state = "PROCESSING" /\ event[b].leaseLeft = 0

Next1(n) == IF n > MaxAttempts THEN n ELSE n + 1

\* The claim: FOR UPDATE SKIP LOCKED may pass over older rows.
Claim(w, b) ==
    /\ at[w].pc = "idle"
    /\ Due(b)
    /\ event' = [event EXCEPT ![b].state = "PROCESSING", ![b].count = Next1(@),
                              ![b].token = w, ![b].leaseLeft = LeaseTicks]
    /\ at' = [at EXCEPT ![w] = [pc |-> "claimed", job |-> b, gen |-> event[b].gen,
                                no |-> Next1(event[b].count), sealed |-> evidence[b] # "PURGED",
                                inTime |-> FALSE]]
    /\ UNCHANGED <<known, evidence, attempts, facts, inbox, faults>>

\* The second transaction begins.  Its now() is fixed here, before the statement
\* that locks the row and compares lease_until with it.
Begin(w) ==
    /\ at[w].pc = "claimed"
    /\ at' = [at EXCEPT ![w].pc = "open", ![w].inTime = event[at[w].job].leaseLeft > 0]
    /\ UNCHANGED <<known, rowVars, evidence, inbox, faults>>

\* lease_token = $2 AND lease_until > now(), the row locked.
MatchesMutant(w) == at[w].inTime
Matches(w) == at[w].inTime /\ event[at[w].job].token = w

\* UNIQUE(organization_id, event_id, generation, attempt_no).
Numbered(w) == \E a \in attempts : a.body = at[w].job /\ a.gen = at[w].gen /\ a.no = at[w].no

\* What the attempt comes to; err: the savepoint that writes the facts fails for
\* another reason than a missing asset (a deadlock over an effect key, say).
Classified(w) == IF at[w].no > MaxAttempts \/ ~at[w].sealed THEN "DEAD_LETTER"
                 ELSE ClassOf[at[w].job]
Verdict(w, err) ==
    LET c == Classified(w) IN
    CASE c \notin Written -> c
      [] c \in Written /\ ~(AssetsOf[at[w].job] \subseteq known) -> "QUARANTINED"
      [] c \in Written /\ AssetsOf[at[w].job] \subseteq known /\ err ->
            IF at[w].no >= MaxAttempts THEN "DEAD_LETTER" ELSE "RETRY_WAIT"
      [] OTHER -> c

\* The savepoint: all of a body's facts or none; known keys are kept.
RecordedMutant(b, result) == facts \cup IF result = "INVALID" THEN {} ELSE EffectsOf[b]
Recorded(b, result) == facts \cup IF result \in Written THEN EffectsOf[b] ELSE {}

Conclude(w, err) ==
    LET b == at[w].job  result == Verdict(w, err) IN
    /\ facts' = Recorded(b, result)
    /\ attempts' = attempts \cup {[body |-> b, gen |-> at[w].gen, no |-> at[w].no,
                                   result |-> result]}
    /\ event' = [event EXCEPT ![b].state = result, ![b].token = Nil, ![b].leaseLeft = 0,
                              ![b].waitLeft = RetryTicks]
    /\ at' = [at EXCEPT ![w] = Idle]
    /\ UNCHANGED <<known, evidence, inbox>>

Finish(w) ==
    /\ at[w].pc = "open" /\ Matches(w) /\ ~Numbered(w)
    /\ Conclude(w, FALSE)
    /\ UNCHANGED faults

FinishError(w) ==
    /\ at[w].pc = "open" /\ Matches(w) /\ ~Numbered(w)
    /\ Classified(w) \in Written
    /\ faults < MaxFaults
    /\ faults' = faults + 1
    /\ Conclude(w, TRUE)

\* "webhook lease lost", or the attempt's number is taken: nothing is written.
Lose(w) ==
    /\ at[w].pc = "open" /\ (~Matches(w) \/ Numbered(w))
    /\ at' = [at EXCEPT ![w] = Idle]
    /\ UNCHANGED <<known, rowVars, evidence, inbox, faults>>

\* The worker dies or its second transaction rolls back.
Fault(w) ==
    /\ at[w].pc # "idle"
    /\ faults < MaxFaults
    /\ faults' = faults + 1
    /\ at' = [at EXCEPT ![w] = Idle]
    /\ UNCHANGED <<known, rowVars, evidence, inbox>>

------------------------------------------------------------------------------
(* MaterializeOnce, as one step: Delivery models its statements *)

Ready(b) == event[b].state \in Written

Materialize(b) ==
    /\ Ready(b)
    /\ inbox[b] = "NONE"
    /\ inbox' = [inbox EXCEPT ![b] = IF evidence[b] = "PURGED" THEN "UNAVAILABLE"
                                     ELSE "MATERIALIZED"]
    /\ UNCHANGED <<known, rowVars, evidence, at, faults>>

Next ==
    \/ \E x \in Assets : Discover(x)
    \/ \E b \in Bodies : Receive(b) \/ Replay(b) \/ Expire(b) \/ Materialize(b)
    \/ Purge
    \/ Tick
    \/ \E w \in Workers : \/ \E b \in Bodies : Claim(w, b)
                          \/ Begin(w) \/ Finish(w) \/ FinishError(w) \/ Lose(w) \/ Fault(w)

Spec == Init /\ [][Next]_vars

\* The worker's own lease still runs.
Leased(w) == event[at[w].job].token = w /\ event[at[w].job].leaseLeft > 0

------------------------------------------------------------------------------
(* Properties *)

OfRow(b) == {a \in attempts : a.body = b /\ a.gen = event[b].gen}

\* The attempts of the current generation tell how the row got where it is.
Consistent(b) ==
    LET tried == OfRow(b) IN
    CASE event[b].state \in {"NONE", "QUEUED", "QUARANTINED"} -> tried = {}
      [] event[b].state = "PROCESSING" ->
            \A a \in tried : a.result = "RETRY_WAIT" /\ a.no < event[b].count
      [] OTHER ->
            /\ \E a \in tried : a.no = event[b].count /\ a.result = event[b].state
            /\ \A a \in tried : a.no < event[b].count => a.result = "RETRY_WAIT"
            /\ \A a \in tried : a.no <= event[b].count

\* "Claims use SKIP LOCKED, lease tokens and completion fencing" (docs/08:108):
\* whoever stalls, dies or is overtaken, an event's state is what its last
\* attempt of this generation came to and every earlier one was a retry.  A
\* body refused at the door was never tried (processor.go:138-204).
AttemptsExplainState == \A b \in Bodies : Consistent(b)

\* A body's facts are recorded together with the attempt that found them, all of
\* them or none, and nothing else records facts: "Successful local fact writes
\* and attempt/state audit commit atomically" (docs/08:108, processor.go:145-202).
FactsAreAllOrNothing ==
    facts = UNION {EffectsOf[a.body] : a \in {t \in attempts : t.result \in Written}}

\* Only an administrator's replay reopens an event: neither a late worker nor a
\* redelivered body does, and quarantine is for good (processor.go:138-144,
\* webhook.go:196, service.go:185).
OnlyReplayReopens ==
    [][\A b \in Bodies :
          event[b].state \in Ended \cup {"QUARANTINED"} /\ event'[b] # event[b] =>
              \/ event'[b].gen = event[b].gen + 1 /\ event'[b].state = "QUEUED"
              \/ event'[b].state = event[b].state /\ event'[b].count = event[b].count]_vars

\* The callback and the processor agree on which assets are the organization's:
\* what was admitted is never found foreign later (webhook.go:172-191,
\* processor.go:150-170).
AdmittedStaysAdmitted == \A a \in attempts : a.result # "QUARANTINED"

\* Every admitted body comes to an end that is not a retry, and what was written
\* is materialized or, after a failed replay, a dead letter.
EventuallyConcluded ==
    \A b \in Bodies :
        /\ event[b].state = "QUEUED" ~> event[b].state \in Ended
        /\ event[b].state \in Written ~> (inbox[b] # "NONE" \/ event[b].state = "DEAD_LETTER")
==============================================================================
