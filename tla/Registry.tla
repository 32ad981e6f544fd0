------------------------------- MODULE Registry -------------------------------
(***************************************************************************)
(* The rate registry and the settings row it shares with sending: a rate   *)
(* import is validated, compared with the active publication, submitted,   *)
(* reviewed by somebody else and published, each by a request of its own.  *)
(* Sources: registry (inbox/registry.go:137-389), recordBillingCurrency    *)
(* (pricing_coverage.go) and /inbox/settings (operations.go:81-99).        *)
(*                                                                         *)
(* A request checks its permission when it arrives (Begin) and may then    *)
(* wait for the settings row, which it locks before the import: from there *)
(* to its commit nothing interleaves, so the rest is one action.  The      *)
(* artifacts and their reports stand for themselves; an import's content   *)
(* is what its fingerprint hashes.  XMutant before X is a plausible bug.   *)
(***************************************************************************)
EXTENDS Naturals, Sequences, FiniteSets

CONSTANTS
    None,
    Members,
    Imports,        \* ids of rate_imports rows
    InitMay,        \* the permissions each member starts with
    MaxRevision,    \* bound on an import's revision
    MaxPolicy,      \* bound on the settings' policy revision
    MaxRevoked      \* bound on the number of permissions revoked

Permissions == {"import", "review", "publish", "sending"}

ASSUME RegistryAssumption ==
    /\ None \notin Members \cup Imports
    /\ None \notin Nat
    /\ InitMay \in [Members -> SUBSET Permissions]
    /\ MaxRevision \in Nat /\ MaxPolicy \in Nat /\ MaxRevoked \in Nat

VARIABLES
    settings,       \* inbox_settings: one row
    import,         \* rate_imports
    publications,   \* rate_publications, in the order of their creation
    may,            \* permissions a member holds
    request,        \* a member's request, between its permission check and its locks
    approvals,      \* history: the revision a reviewer named, and the content approved
    submitted,      \* history: content put to review
    overdue         \* the common next_review_at has passed

registryVars == <<settings, import, publications, may, request, approvals, submitted, overdue>>

State == {"NONE", "DRAFT", "VALIDATED", "DIFFED", "IN_REVIEW", "CHANGES_REQUIRED", "APPROVED", "PUBLISHED"}

\* The content that a review fingerprints (reportHash).
Content(i) == [import |-> i, revision |-> import[i].revision, base |-> import[i].base,
               report |-> import[i].report, diff |-> import[i].diff]

NoImport == [state |-> "NONE", revision |-> 1, importer |-> None, reviewer |-> None,
             base |-> 0, report |-> None, diff |-> None, reviewed |-> None]

Init ==
    /\ settings = [enabled |-> FALSE, currency |-> None, policy |-> 1, head |-> 0]
    /\ import = [i \in Imports |-> NoImport]
    /\ publications = <<>>
    /\ may = InitMay
    /\ request = [m \in Members |-> None]
    /\ approvals = {} /\ submitted = {}
    /\ overdue = FALSE

------------------------------------------------------------------------------
(* Requests *)

Key == [validate |-> "import", diff |-> "import", submit |-> "import", revise |-> "import",
        approve |-> "review", reject |-> "review", publish |-> "publish"]

\* What clients send: a revision they have read at some time.
ImportRequests ==
    UNION {{[op |-> o, on |-> i, named |-> r] : o \in DOMAIN Key, r \in 1..import[i].revision} :
              i \in {j \in Imports : import[j].state # "NONE"}}

Begin(m) ==
    /\ request[m] = None
    /\ \/ \E r \in ImportRequests : Key[r.op] \in may[m] /\ request' = [request EXCEPT ![m] = r]
       \/ \E i \in Imports :
             /\ import[i].state = "NONE" /\ "import" \in may[m]
             /\ request' = [request EXCEPT ![m] = [op |-> "import", on |-> i, named |-> 1]]
       \/ /\ "sending" \in may[m]
          /\ request' = [request EXCEPT ![m] = [op |-> "save", read |-> settings]]
       \/ /\ "publish" \in may[m]
          /\ request' = [request EXCEPT ![m] = [op |-> "currency"]]
    /\ UNCHANGED <<settings, import, publications, may, approvals, submitted, overdue>>

\* A request that some check refuses writes nothing.
Refuse(m) ==
    /\ request[m] # None
    /\ request' = [request EXCEPT ![m] = None]
    /\ UNCHANGED <<settings, import, publications, may, approvals, submitted, overdue>>

\* The import's row is locked and its revision is the one the client named.
NamesMutant(m, op, i, from) == request[m] # None /\ request[m].op = op /\ request[m].on = i /\ import[i].state = from
Names(m, op, i, from) ==
    /\ request[m] # None /\ request[m].op = op /\ request[m].on = i
    /\ import[i].state = from
    /\ request[m].named = import[i].revision

Done(m) == request' = [request EXCEPT ![m] = None]

Import(m, i) ==
    /\ Names(m, "import", i, "NONE")
    /\ import' = [import EXCEPT ![i] = [NoImport EXCEPT !.state = "DRAFT", !.importer = m,
                                                        !.base = settings.head]]
    /\ Done(m)
    /\ UNCHANGED <<settings, publications, may, approvals, submitted, overdue>>

Validate(m, i) ==
    /\ Names(m, "validate", i, "DRAFT")
    /\ import' = [import EXCEPT ![i].state = "VALIDATED", ![i].report = "VALID"]
    /\ Done(m)
    /\ UNCHANGED <<settings, publications, may, approvals, submitted, overdue>>

\* The comparison moves the import's base to the publication compared with.
Diff(m, i) ==
    /\ Names(m, "diff", i, "VALIDATED")
    /\ import' = [import EXCEPT ![i].state = "DIFFED", ![i].base = settings.head,
                                ![i].diff = settings.head]
    /\ Done(m)
    /\ UNCHANGED <<settings, publications, may, approvals, submitted, overdue>>

Submit(m, i) ==
    /\ Names(m, "submit", i, "DIFFED")
    /\ import' = [import EXCEPT ![i].state = "IN_REVIEW"]
    /\ submitted' = submitted \cup {Content(i)}
    /\ Done(m)
    /\ UNCHANGED <<settings, publications, may, approvals, overdue>>

OtherPerson(m, i) == import[i].importer # m

Review(m, i, verdict) ==
    /\ Names(m, verdict, i, "IN_REVIEW")
    /\ OtherPerson(m, i)
    /\ import' = [import EXCEPT ![i].state = IF verdict = "approve" THEN "APPROVED" ELSE "CHANGES_REQUIRED",
                                ![i].reviewer = m, ![i].reviewed = Content(i)]
    /\ approvals' = IF verdict = "approve"
                    THEN approvals \cup {[by |-> m, named |-> request[m].named, content |-> Content(i)]}
                    ELSE approvals
    /\ Done(m)
    /\ UNCHANGED <<settings, publications, may, submitted, overdue>>

Revise(m, i) ==
    /\ Names(m, "revise", i, "CHANGES_REQUIRED")
    /\ import[i].revision < MaxRevision
    /\ import' = [import EXCEPT ![i].state = "DRAFT", ![i].revision = @ + 1, ![i].report = None,
                                ![i].diff = None, ![i].reviewer = None, ![i].reviewed = None]
    /\ Done(m)
    /\ UNCHANGED <<settings, publications, may, approvals, submitted, overdue>>

\* The active publication is still the one the import was compared with.
FreshBaseMutant(i) == TRUE
FreshBase(i) == settings.head = import[i].base

\* Every change of what a send depends on moves the policy revision.
BumpMutant(s) == s
Bump(s) == [s EXCEPT !.policy = @ + 1]

Publish(m, i) ==
    /\ Names(m, "publish", i, "APPROVED")
    /\ import[i].reviewer # None /\ import[i].reviewed = Content(i)
    /\ "review" \in may[import[i].reviewer]
    /\ settings.currency # None
    /\ FreshBase(i)
    /\ ~overdue
    /\ settings.policy < MaxPolicy
    /\ publications' = Append(publications,
                              [import |-> i, publisher |-> m, reviewer |-> import[i].reviewer,
                               content |-> Content(i), supersedes |-> settings.head])
    /\ settings' = [Bump(settings) EXCEPT !.head = Len(publications) + 1]
    /\ import' = [import EXCEPT ![i].state = "PUBLISHED"]
    /\ Done(m)
    /\ UNCHANGED <<may, approvals, submitted, overdue>>

\* Recorded without reading anything first: the statement is the transaction.
RecordCurrency(m) ==
    /\ request[m] # None /\ request[m].op = "currency"
    /\ settings.policy < MaxPolicy
    /\ settings' = [Bump(settings) EXCEPT !.currency = "IDR"]
    /\ Done(m)
    /\ UNCHANGED <<import, publications, may, approvals, submitted, overdue>>

\* Sending is switched, against the policy revision the client has read.
UnchangedPolicy(m) == request[m].read.policy = settings.policy

SaveSettings(m, enabled) ==
    /\ request[m] # None /\ request[m].op = "save"
    /\ UnchangedPolicy(m)
    /\ settings.policy < MaxPolicy
    /\ settings' = [Bump(settings) EXCEPT !.enabled = enabled]
    /\ Done(m)
    /\ UNCHANGED <<import, publications, may, approvals, submitted, overdue>>

------------------------------------------------------------------------------
(* The environment *)

\* An administrator takes a permission away.
Revoke(m, k) ==
    /\ k \in may[m]
    /\ Cardinality({p \in Members \X Permissions : p[2] \in InitMay[p[1]] \ may[p[1]]}) < MaxRevoked
    /\ may' = [may EXCEPT ![m] = @ \ {k}]
    /\ UNCHANGED <<settings, import, publications, request, approvals, submitted, overdue>>

Lapse ==
    /\ ~overdue /\ overdue' = TRUE
    /\ UNCHANGED <<settings, import, publications, may, request, approvals, submitted>>

\* Requests that write the settings row, and those that do not.
WritesSettings(m) == \/ \E i \in Imports : Publish(m, i)
                     \/ RecordCurrency(m)
                     \/ \E enabled \in BOOLEAN : SaveSettings(m, enabled)

ReadsSettings(m) ==
    \/ Begin(m) \/ Refuse(m)
    \/ \E i \in Imports : \/ Import(m, i) \/ Validate(m, i) \/ Diff(m, i) \/ Submit(m, i) \/ Revise(m, i)
                          \/ \E v \in {"approve", "reject"} : Review(m, i, v)

Next ==
    \/ \E m \in Members : WritesSettings(m) \/ ReadsSettings(m) \/ \E k \in Permissions : Revoke(m, k)
    \/ Lapse

Spec == Init /\ [][Next]_registryVars

------------------------------------------------------------------------------
(* Properties *)

ContentType == [import : Imports, revision : Nat, base : Nat, report : {None, "VALID"}, diff : Nat \cup {None}]

\* "transaction rejects stale base/evidence/review" (docs/06:196): each publication continues the one before it, and its content is
\* exactly what a person other than its importer approved after comparing it with
\* that predecessor, whatever was revised, published or submitted in between
\* (registry.go:292-389).
Reviewed(k) ==
    LET p == publications[k] IN
    /\ p.supersedes = k - 1
    /\ p.content.report = "VALID" /\ p.content.base = k - 1 /\ p.content.diff = k - 1
    /\ p.content.import = p.import
    /\ \E a \in approvals : /\ a.content = p.content /\ a.by = p.reviewer
                            /\ a.by # import[p.import].importer

PublicationsReviewed ==
    /\ settings.head = Len(publications)
    /\ \A k \in DOMAIN publications : Reviewed(k)
    /\ \A j, k \in DOMAIN publications : publications[j].import = publications[k].import => j = k

\* An approval means the content its reviewer named: one revision of an import is
\* put to review with one content, and a verdict sent for an earlier revision
\* never lands on a later one (registry.go:281-283, 328-336).
ApprovedAsSubmitted ==
    /\ \A a \in approvals : a.content \in submitted /\ a.named = a.content.revision
    /\ \A c, d \in submitted : c.import = d.import /\ c.revision = d.revision => c = d

\* Whoever switches sending overwrites the settings they have read, not a
\* publication or a currency recorded since (operations.go:92-98).
SavedOverWhatWasRead ==
    [][\A m \in Members :
          request[m] # None /\ request[m].op = "save" /\ settings' # settings /\ request'[m] = None
              => settings = request[m].read]_registryVars
==============================================================================
