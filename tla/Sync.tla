--------------------------------- MODULE Sync ---------------------------------
(***************************************************************************)
(* Synchronising a connection's WABA and phones with the provider:         *)
(* administrators request runs, meta workers claim one under a three       *)
(* minute lease, read a snapshot in at most two minutes and persist it, or *)
(* requeue or fail the run.  Sources: meta/sync.go, POST /meta/sync in     *)
(* meta/service.go, Snapshot in meta/graph.go, asset_sync_runs in 00003.   *)
(*                                                                         *)
(* A snapshot is the number of the provider's state it was read from.      *)
(* Leases and delays are ticks left.  What only the health page shows      *)
(* (credential_state, last_error, names and profiles) is left out.         *)
(* XMutant before X is a plausible bug in X.                               *)
(***************************************************************************)
EXTENDS Integers, FiniteSets

CONSTANTS
    Nil,
    Runs,           \* asset_sync_runs, numbered in the order of their ids
    Workers,        \* meta workers; a lease token is its worker's name
    Assets,         \* external ids of WABAs and phones
    AssetsAt,       \* those the provider lists in each of its states
    Foreign,        \* phones recorded under another WABA or organization
    MaxAttempts,    \* 8
    SyncLease,      \* three minutes
    SyncRetry,      \* backoff: 2^count seconds, at most 256
    MaxRemote,      \* bound on the provider's states
    MaxFaults       \* bound on crashes and database errors

ASSUME SyncAssumption ==
    /\ Runs \subseteq Nat /\ Nil \notin Workers \cup Runs
    /\ MaxRemote \in Nat \ {0} /\ AssetsAt \in [1..MaxRemote -> SUBSET Assets]
    /\ MaxAttempts \in Nat \ {0} /\ SyncLease \in Nat \ {0} /\ SyncRetry \in Nat
    /\ MaxFaults \in Nat

VARIABLES
    run,          \* asset_sync_runs
    remote,       \* the provider's present state
    stored,       \* the state persisted last; its phones are PRESENT
    known,        \* wabas and phone_numbers: rows are upserted, never deleted
    place,        \* a worker's place in syncOne and its locals
    faults

syncVars == <<run, remote, stored, known, place, faults>>

Active == {"QUEUED", "RUNNING"}
Over   == {"SUCCEEDED", "FAILED"}
NoRun  == [state |-> "NONE", count |-> 0, token |-> Nil, leaseLeft |-> 0, waitLeft |-> 0]

\* What reading a snapshot comes to: errors that are retryable (transport, rate
\* limit, 5xx), errors that are not, and a run with no attempt left.
Results == {"READ", "TRANSIENT", "REFUSED", "EXHAUSTED"}

Away == [pc |-> "idle", run |-> Nil, no |-> 0, got |-> "READ", seen |-> 0, inTime |-> "no"]

SyncInit ==
    /\ run = [r \in Runs |-> NoRun]
    /\ remote = 1 /\ stored = 0 /\ known = {}
    /\ place = [w \in Workers |-> Away]
    /\ faults = 0

------------------------------------------------------------------------------
(* The administrators, the provider and the clock *)

\* INSERT .. ON CONFLICT over the partial unique index: one active run.
Taken == \E r \in Runs : run[r].state \in Active

Request(r) ==
    /\ \A q \in Runs : run[q].state = "NONE" <=> q >= r
    /\ ~Taken
    /\ run' = [run EXCEPT ![r] = [NoRun EXCEPT !.state = "QUEUED"]]
    /\ UNCHANGED <<remote, stored, known, place, faults>>

Change ==
    /\ remote < MaxRemote /\ remote' = remote + 1
    /\ UNCHANGED <<run, stored, known, place, faults>>

Less(n) == IF n = 0 THEN 0 ELSE n - 1
Aged(row) == [row EXCEPT !.leaseLeft = Less(@), !.waitLeft = Less(@)]

SyncTick ==
    /\ \E r \in Runs : run[r].leaseLeft > 0 \/ run[r].waitLeft > 0
    /\ run' = [r \in Runs |-> Aged(run[r])]
    /\ UNCHANGED <<remote, stored, known, place, faults>>

------------------------------------------------------------------------------
(* syncOne *)

DueMutant(r) == run[r].state = "QUEUED" /\ run[r].waitLeft = 0
Due(r) == \/ run[r].state = "QUEUED" /\ run[r].waitLeft = 0
          \/ run[r].state = "RUNNING" /\ run[r].leaseLeft = 0

\* attempt_count stays at MaxAttempts + 1: beyond it only that matters.
Attempt(r) == IF run[r].count > MaxAttempts THEN run[r].count ELSE run[r].count + 1

Claim(w, r) ==
    /\ place[w].pc = "idle" /\ Due(r)
    /\ run' = [run EXCEPT ![r] = [NoRun EXCEPT !.state = "RUNNING", !.count = Attempt(r),
                                              !.token = w, !.leaseLeft = SyncLease]]
    /\ place' = [place EXCEPT ![w] = [pc |-> "claimed", run |-> r, no |-> Attempt(r),
                                      got |-> "READ", seen |-> 0, inTime |-> "no"]]
    /\ UNCHANGED <<remote, stored, known, faults>>

\* After the last attempt nothing is read; otherwise the provider answers, refuses
\* or fails, the deadline of two minutes being one more failure.  The second
\* transaction follows, and its now() is that of its beginning.
Read(w) ==
    /\ place[w].pc = "claimed"
    /\ \E got \in Results :
          /\ (got = "EXHAUSTED") = (place[w].no > MaxAttempts)
          /\ place' = [place EXCEPT ![w] =
                [pc |-> "open", run |-> place[w].run, no |-> place[w].no, got |-> got,
                 seen |-> IF got = "READ" THEN remote ELSE 0,
                 inTime |-> IF run[place[w].run].leaseLeft > 0 THEN "yes" ELSE "no"]]
    /\ UNCHANGED <<run, remote, stored, known, faults>>

\* lease_token=$2 AND lease_until>now(), the row locked.
HoldsMutant(w) == place[w].inTime = "yes"
Holds(w) == place[w].inTime = "yes" /\ run[place[w].run].token = w

\* The row of a run that ends or waits: no token and no lease.
Closed(w, state, wait) ==
    [NoRun EXCEPT !.state = state, !.count = run[place[w].run].count, !.waitLeft = wait]

\* A snapshot that lists a foreign phone updates no row of it and rolls back.
Persistable(w) == AssetsAt[place[w].seen] \cap Foreign = {}

\* persistSnapshot: rows are added, those not listed become NOT_OBSERVED.
KeptMutant(w) == AssetsAt[place[w].seen]
Kept(w) == known \cup AssetsAt[place[w].seen]

Succeed(w) ==
    /\ place[w].pc = "open" /\ Holds(w) /\ place[w].got = "READ" /\ Persistable(w)
    /\ stored' = place[w].seen
    /\ known' = Kept(w)
    /\ run' = [run EXCEPT ![place[w].run] = Closed(w, "SUCCEEDED", 0)]
    /\ place' = [place EXCEPT ![w] = Away]
    /\ UNCHANGED <<remote, faults>>

Retryable(w) == place[w].got = "TRANSIENT" /\ place[w].no < MaxAttempts

GiveUp(w) ==
    /\ place[w].pc = "open" /\ Holds(w) /\ place[w].got # "READ"
    /\ run' = [run EXCEPT ![place[w].run] =
                  IF Retryable(w) THEN Closed(w, "QUEUED", SyncRetry) ELSE Closed(w, "FAILED", 0)]
    /\ place' = [place EXCEPT ![w] = Away]
    /\ UNCHANGED <<remote, stored, known, faults>>

\* "sync lease lost", or a snapshot that cannot be persisted.
Leave(w) ==
    /\ place[w].pc = "open"
    /\ Holds(w) => place[w].got = "READ" /\ ~Persistable(w)
    /\ place' = [place EXCEPT ![w] = Away]
    /\ UNCHANGED <<run, remote, stored, known, faults>>

\* The worker dies, or its second transaction fails for another reason.
Crash(w) ==
    /\ place[w].pc # "idle" /\ faults < MaxFaults
    /\ faults' = faults + 1
    /\ place' = [place EXCEPT ![w] = Away]
    /\ UNCHANGED <<run, remote, stored, known>>

SyncOne(w) == Read(w) \/ Succeed(w) \/ GiveUp(w) \/ Leave(w)

SyncNext ==
    \/ Change \/ SyncTick
    \/ \E r \in Runs : Request(r) \/ \E w \in Workers : Claim(w, r)
    \/ \E w \in Workers : SyncOne(w) \/ Crash(w)

SyncSpec == SyncInit /\ [][SyncNext]_syncVars

------------------------------------------------------------------------------
(* Properties *)

\* What is persisted is never older than what was, and a run that is over stays
\* as it is, however late a worker comes to finish it: "stale completions cannot
\* overwrite a new claim" (docs/05:294; sync.go:38-45, 00003:39).
SnapshotsInOrder ==
    [][/\ stored' >= stored
       /\ \A r \in Runs : run[r].state \in Over => run'[r] = run[r]]_syncVars

\* A requested run ends, even when every attempt dies, loses its lease or reads a
\* snapshot that can never be persisted; there is one at a time (sync.go:14-53).
Requested(r) == run[r].state \in Active
RequestedRunEnds == (\E r \in Runs : Requested(r)) ~> \A r \in Runs : ~Requested(r)
==============================================================================
