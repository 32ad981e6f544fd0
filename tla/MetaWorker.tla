------------------------------ MODULE MetaWorker ------------------------------
(***************************************************************************)
(* The meta worker's loop: every second it takes up a synchronisation,     *)
(* then one webhook event, then purges expired evidence.  Sync and Webhook *)
(* share the assets: what the one persists the other admits bodies by.     *)
(* Source: RunWorker in meta/service.go.                                   *)
(***************************************************************************)
EXTENDS Sync

CONSTANTS Bodies, AssetsOf, Effects, EffectsOf, ClassOf, LeaseTicks, RetryTicks, MaxReplays,
          EventAttempts,   \* attempts at an event: 8, as at a synchronisation
          MaxMishaps       \* bound on faults and on leases that end under a worker

ASSUME MetaAssumption ==
    /\ AssetsOf \in [Bodies -> SUBSET Assets] /\ EffectsOf \in [Bodies -> SUBSET Effects]
    /\ ClassOf \in [Bodies -> {"PROCESSED", "UNKNOWN", "INVALID"}]
    /\ EventAttempts \in Nat \ {0} /\ LeaseTicks \in Nat \ {0} /\ RetryTicks \in Nat
    /\ MaxReplays \in Nat /\ MaxMishaps \in Nat
    /\ Nil \notin Bodies

VARIABLES
    event, evidence, attempts, facts, inbox, at,    \* of Webhook
    turn,                                           \* where a worker is in its loop
    stalls

W == INSTANCE Webhook WITH MaxAttempts <- EventAttempts

eventVars == <<event, evidence, attempts, facts, inbox, at>>
runVars   == <<run, remote, stored, place>>
vars      == <<syncVars, eventVars, turn, stalls>>

Init == SyncInit /\ W!Init /\ turn = [w \in Workers |-> "sync"] /\ stalls = 0

Passes(w, from, to) ==
    /\ turn[w] = from /\ turn' = [turn EXCEPT ![w] = to]
    /\ UNCHANGED stalls

------------------------------------------------------------------------------
(* One worker *)

SyncTurn(w) ==
    /\ \/ ((\E r \in Runs : Claim(w, r)) \/ Read(w)) /\ Passes(w, "sync", "sync")
       \/ (Succeed(w) \/ GiveUp(w) \/ Leave(w)) /\ Passes(w, "sync", "process")
    /\ UNCHANGED eventVars

\* pgx.ErrNoRows: no run is due.
SkipSync(w) ==
    /\ place[w].pc = "idle" /\ \A r \in Runs : ~Due(r)
    /\ Passes(w, "sync", "process")
    /\ UNCHANGED <<syncVars, eventVars>>

ProcessTurn(w) ==
    /\ \/ ((\E b \in Bodies : W!Claim(w, b)) \/ W!Begin(w)) /\ Passes(w, "process", "process")
       \/ (W!Finish(w) \/ W!FinishError(w) \/ W!Lose(w)) /\ Passes(w, "process", "purge")
    /\ UNCHANGED runVars

SkipProcess(w) ==
    /\ at[w].pc = "idle" /\ \A b \in Bodies : ~W!Due(b)
    /\ Passes(w, "process", "purge")
    /\ UNCHANGED <<syncVars, eventVars>>

\* The purge touches what has expired, if anything has.
PurgeTurn(w) ==
    /\ Passes(w, "purge", "sync")
    /\ \/ W!Purge
       \/ /\ \A b \in Bodies : evidence[b] # "EXPIRED"
          /\ UNCHANGED <<known, faults, eventVars>>
    /\ UNCHANGED runVars

\* A transaction fails and the loop goes on, or the process restarts.
Fails(w) ==
    /\ faults + stalls < MaxMishaps
    /\ \/ \E to \in {"process", "sync"} : Crash(w) /\ Passes(w, "sync", to) /\ UNCHANGED eventVars
       \/ \E to \in {"purge", "sync"} : W!Fault(w) /\ Passes(w, "process", to) /\ UNCHANGED runVars

Step(w) == SyncTurn(w) \/ SkipSync(w) \/ ProcessTurn(w) \/ SkipProcess(w) \/ PurgeTurn(w)

------------------------------------------------------------------------------
(* Around them *)

Requests == (\E r \in Runs : Request(r)) /\ UNCHANGED <<eventVars, turn, stalls>>
Changed  == Change /\ UNCHANGED <<eventVars, turn, stalls>>

Outside(b) == (W!Receive(b) \/ W!Replay(b) \/ W!Expire(b)) /\ UNCHANGED <<runVars, turn, stalls>>
Inbox(b)   == W!Materialize(b) /\ UNCHANGED <<runVars, turn, stalls>>

\* A worker's lease ends before it has finished.
Stalls(ending) ==
    IF ending THEN faults + stalls < MaxMishaps /\ stalls' = stalls + 1 ELSE UNCHANGED stalls

Leased(w) == place[w].pc # "idle" /\ run[place[w].run].token = w
SyncAges ==
    /\ SyncTick /\ UNCHANGED <<eventVars, turn>>
    /\ Stalls(\E w \in Workers : Leased(w) /\ run[place[w].run].leaseLeft = 1)

EventAges ==
    /\ W!Tick /\ UNCHANGED <<runVars, turn>>
    /\ Stalls(\E w \in Workers : at[w].pc # "idle" /\ W!Leased(w) /\ event[at[w].job].leaseLeft = 1)

Next ==
    \/ Requests \/ Changed \/ SyncAges \/ EventAges
    \/ \E b \in Bodies : Outside(b) \/ Inbox(b)
    \/ \E w \in Workers : Step(w) \/ Fails(w)

\* Workers loop and clocks run; that no worker stalls past its leases for ever is
\* the bound on mishaps.  The provider, administrators, retention and faults do as
\* they like.
Fairness ==
    /\ WF_vars(SyncAges) /\ WF_vars(EventAges)
    /\ \A b \in Bodies : WF_vars(Inbox(b))
    /\ \A w \in Workers : WF_vars(Step(w))

Spec == Init /\ [][Next]_vars /\ Fairness

------------------------------------------------------------------------------
(* Properties *)

\* The callback and the processor agree on which assets are the organization's:
\* what was admitted is never found foreign later, whichever snapshots are
\* persisted meanwhile (webhook.go:172-191, processor.go:150-170, sync.go:80-102).
AdmittedStaysAdmitted == W!AdmittedStaysAdmitted

\* Every admitted body comes to an end that is not a retry, and what was written
\* is materialized or, after a failed replay, a dead letter, although each
\* worker also has synchronisations to do (service.go:272-298).
EventuallyConcluded == W!EventuallyConcluded
==============================================================================
