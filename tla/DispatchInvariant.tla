------------------------- MODULE DispatchInvariant -------------------------
(***************************************************************************)
(* The inductive invariant of Dispatch, in named parts: what is true of    *)
(* workers and rows between any two transactions, and why the properties   *)
(* of Dispatch hold.  DispatchProofs proves it; the runs check it.         *)
(***************************************************************************)
EXTENDS Dispatch

Sent == {"DISPATCHING", "ACCEPTED", "FAILED", "UNCERTAIN"}

\* The worker may have a request out or an answer to record.
InFlight(w) == pc[w] \in {"authorized", "waiting", "answered"}

\* A busy worker has a job and an answered one an outcome.
Placed == \A w \in Workers :
             /\ pc[w] # "idle" => job[w] \in Intents
             /\ pc[w] = "answered" => outcome[w] \in Outcome

TypeInv == TypeOK /\ Placed

\* A worker past its authorization owns its intent for good: the claim token is
\* its own, and nobody but recovery has touched the row since.
Owns(w) == InFlight(w) => /\ intent[job[w]].token = w
                          /\ intent[job[w]].state \in {"DISPATCHING", "UNCERTAIN"}

\* No request precedes the one a worker is about to make.
Fresh(w) == pc[w] = "authorized" => requests[job[w]] = 0 /\ effect[job[w]] = "NONE"

\* What a worker is about to record is what the provider said.
Honest(w) == pc[w] = "answered" =>
                /\ outcome[w] = "ACCEPTED" => effect[job[w]] = "ACCEPTED"
                /\ outcome[w] = "REJECTED" => effect[job[w]] # "ACCEPTED"

WorkerInv == \A w \in Workers : Owns(w) /\ Fresh(w) /\ Honest(w)

\* Requests, slots and references follow the intent's state.
Follows(i) ==
    /\ requests[i] <= 1
    /\ intent[i].state \notin Sent => requests[i] = 0 /\ effect[i] = "NONE"
    /\ intent[i].state \in Sent => slot[PhoneFor(i)] = i
    /\ intent[i].state # "NONE" => intent[i].scope \in Scope /\ intent[i].auth \in Authorizations

RowInv == \A i \in Intents : Follows(i) /\ Agrees(i) /\ Truthful(i)

SendInv == WorkerInv /\ RowInv

\* An issued authorization has a scope, and revisions that have been current.
Issued == \A a \in Authorizations : auth[a] # NoAuth =>
             /\ auth[a].scope \in Scope
             /\ auth[a].rev <= policyRev
             /\ auth[a].scope.assignment <= assignment[auth[a].scope.conv]

\* Grounds that never come back: a dead session, a superseded revision, a lapsed
\* policy, a superseded assignment.
Lapsed(i) == \/ intent[i].scope.session \notin active
             \/ auth[intent[i].auth].rev < policyRev
             \/ ~covered
             \/ intent[i].scope.assignment < assignment[intent[i].scope.conv]

WithdrawnLapsed == \A i \in withdrawn :
    /\ intent[i].state # "NONE"
    /\ i \in Undispatched => Lapsed(i)

\* A claim outlives the authorization of its intent.
ClaimCoversLife == \A i \in Intents :
    intent[i].state = "RESERVED" => auth[intent[i].auth].left <= intent[i].claimLeft

ReclaimedLapsed == \A i \in reclaimed :
    /\ intent[i].state # "NONE"
    /\ i \in Undispatched => auth[intent[i].auth].left = 0

GroundsInv == /\ Issued /\ AuthorizationSpentOnce /\ AuthorizationInsideWindow
              /\ WithdrawnLapsed /\ WithdrawnNeverSent
              /\ ClaimCoversLife /\ ReclaimedLapsed /\ ReclaimedNeverSent

IInv == TypeInv /\ SendInv /\ GroundsInv
==============================================================================
