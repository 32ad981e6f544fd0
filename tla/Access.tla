-------------------------------- MODULE Access --------------------------------
(***************************************************************************)
(* Administration of one organization: members and their grants, roles, a  *)
(* team, an invitation, and sessions, bound to the organization or not.    *)
(* Every request authenticates (it holds its user's row from then on),     *)
(* takes the organization barrier, checks and writes, and commits;         *)
(* accepting an invitation reads first and locks afterwards.  Sources:     *)
(* organization, accept, permissionSQL, ceiling and ownerInvariant in      *)
(* identity/access.go, authenticate and rotate, and                        *)
(* authorize_membership_write of 00002.                                    *)
(*                                                                         *)
(* Verified email, recent authentication and MFA are taken as given: they  *)
(* are read under the user's row lock.  XMutant before X is a plausible    *)
(* bug in X.                                                               *)
(***************************************************************************)
EXTENDS Naturals, FiniteSets

CONSTANTS
    Nil,
    Users,
    Acceptors,      \* concurrent requests that accept the invitation
    Invitee,        \* the invited user
    Roles,
    Keys,           \* permission keys
    InitKeys,       \* the keys of the roles at the start
    InitGrants,     \* the members at the start, with their grants
    GrantChoices,   \* bound: grants a request may set
    KeyChoices,     \* bound: permissions a request may give a role
    RoleChoices,    \* bound: roles a request may give a team or an invitation
    Elsewhere,      \* bound: the users who may use a session that is not bound here
    MaxChanges      \* bound on the number of requests that are begun

Scopes == {"ORG", "TEAM"}
Grant  == [role : Roles, scope : Scopes]

\* The members at the start: they exist and one of them is an owner.
ASSUME AccessAssumption ==
    /\ Invitee \in Users /\ Nil \notin Users \cup Acceptors
    /\ Users \cap Acceptors = {}
    /\ InitKeys \in [Roles -> SUBSET Keys]
    /\ InitGrants \in [Users -> (SUBSET Grant) \cup {Nil}]
    /\ \E u \in Users : /\ InitGrants[u] # Nil
                        /\ \E g \in InitGrants[u] : g.scope = "ORG" /\ "owners.manage" \in InitKeys[g.role]
    /\ GrantChoices \subseteq SUBSET Grant /\ KeyChoices \subseteq SUBSET Keys
    /\ RoleChoices \subseteq SUBSET Roles /\ MaxChanges \in Nat

VARIABLES
    member,       \* organization_members
    grants,       \* member_roles
    role,         \* roles and role_permissions
    team,         \* teams, team_members and team_roles: one team
    invitation,   \* the last row of invitations for the invitee; its revision counts on
                  \* from the row before, so that it names the row too
    bound,        \* the access revision a user's session is bound to; Nil: the session
                  \* is bound to another organization or to none, or there is none
    request,      \* a user's request: its place, its input, what authenticate read
    acceptor,     \* a request that accepts the invitation
    barrier,      \* who holds the organization's row
    changes

tables == <<member, grants, role, team, invitation>>
accessVars == <<tables, bound, request, acceptor, barrier, changes>>

Revision == 0..(MaxChanges + 1)
Member  == [status : {"NONE", "ACTIVE", "DEACTIVATED"}, revision : Revision, access : Revision]

AccessInit ==
    /\ member = [u \in Users |-> IF InitGrants[u] = Nil
                                 THEN [status |-> "NONE", revision |-> 0, access |-> 0]
                                 ELSE [status |-> "ACTIVE", revision |-> 1, access |-> 1]]
    /\ grants = [u \in Users |-> IF InitGrants[u] = Nil THEN {} ELSE InitGrants[u]]
    /\ role = [r \in Roles |-> [keys |-> InitKeys[r], revision |-> 1]]
    /\ team = [members |-> {}, roles |-> {}, archived |-> FALSE, revision |-> 1]
    /\ invitation = [state |-> "NONE", roles |-> {}, inviter |-> Nil, token |-> 0,
                     revision |-> 0, expired |-> FALSE]
    /\ bound = [u \in Users |-> Nil]
    /\ request = [u \in Users |-> [pc |-> "idle"]]
    /\ acceptor = [a \in Acceptors |-> [pc |-> "idle"]]
    /\ barrier = Nil
    /\ changes = 0

------------------------------------------------------------------------------
(* Permissions *)

Org(u, k)    == \E g \in grants[u] : g.scope = "ORG" /\ k \in role[g.role].keys
InTeam(u, k) == /\ ~team.archived
                /\ \/ \E g \in grants[u] : g.scope = "TEAM" /\ k \in role[g.role].keys
                   \/ u \in team.members /\ \E r \in team.roles : k \in role[r].keys
May(u, k, inTeam) == Org(u, k) \/ (inTeam /\ InTeam(u, k))

Ceiling(u, roles, inTeam) == \A r \in roles : \A k \in role[r].keys : May(u, k, inTeam)
RolesOf(u) == {g.role : g \in grants[u]}

\* ownerInvariant, over the tables as a request would leave them.
Owners(mem, gr, ro) ==
    {u \in Users : /\ mem[u].status = "ACTIVE"
                   /\ \E g \in gr[u] : g.scope = "ORG" /\ "owners.manage" \in ro[g.role].keys}

------------------------------------------------------------------------------
(* What an organization request asks, checks and writes *)

\* Inputs: a revision is what the client read before it sent the request.
Inputs ==
    UNION {
      {[kind |-> k, who |-> v, rev |-> member[v].revision] :
          k \in {"deactivate", "reactivate"}, v \in {x \in Users : member[x].status # "NONE"}},
      {[kind |-> "member.roles", who |-> v, rev |-> member[v].revision, grants |-> gs] :
          v \in {x \in Users : member[x].status # "NONE"}, gs \in GrantChoices},
      {[kind |-> "role.update", role |-> r, rev |-> role[r].revision, keys |-> ks] :
          r \in Roles, ks \in KeyChoices},
      {[kind |-> k, who |-> v, rev |-> team.revision] :
          k \in {"team.add", "team.remove"}, v \in {x \in Users : member[x].status # "NONE"}},
      {[kind |-> "team.roles", roles |-> rs, rev |-> team.revision] : rs \in RoleChoices},
      {[kind |-> "team.archive", rev |-> team.revision]},
      {[kind |-> "invite", roles |-> rs] : rs \in RoleChoices \ {{}}},
      {[kind |-> k, rev |-> invitation.revision] : k \in {"invite.revoke", "invite.resend"}}}

StatusOp == {"deactivate", "reactivate"}
TeamOp   == {"team.add", "team.remove", "team.roles", "team.archive"}

GrantsAfter(op) ==
    IF op.kind = "member.roles" THEN [grants EXCEPT ![op.who] = op.grants] ELSE grants

RoleAfter(op) ==
    IF op.kind = "role.update"
    THEN [role EXCEPT ![op.role] = [keys |-> op.keys, revision |-> @.revision + 1]] ELSE role

TeamAfter(op) ==
    CASE op.kind = "team.add"     -> [team EXCEPT !.members = @ \cup {op.who}, !.revision = @ + 1]
      [] op.kind = "team.remove"  -> [team EXCEPT !.members = @ \ {op.who}, !.revision = @ + 1]
      [] op.kind = "team.roles"   -> [team EXCEPT !.roles = op.roles, !.revision = @ + 1]
      [] op.kind = "team.archive" -> [team EXCEPT !.archived = TRUE, !.revision = @ + 1]
      [] op.kind = "deactivate"   -> [team EXCEPT !.members = @ \ {op.who}]
      [] OTHER -> team

\* Whose access revision moves beside the target's.
Touched(op) ==
    IF op.kind = "role.update"
    THEN {v \in Users : op.role \in RolesOf(v) \/ (v \in team.members /\ op.role \in team.roles)}
    ELSE IF op.kind \in TeamOp
    THEN {v \in Users : \/ v \in TeamAfter(op).members
                        \/ \E g \in grants[v] : g.scope = "TEAM"
                        \/ op.kind \in {"team.add", "team.remove"} /\ v = op.who}
    ELSE {}

MemberAfter(op) ==
    [v \in Users |->
        IF op.kind \in StatusOp \cup {"member.roles"} /\ v = op.who
        THEN [status |-> CASE op.kind = "deactivate" -> "DEACTIVATED"
                           [] op.kind = "reactivate" -> "ACTIVE"
                           [] OTHER -> member[v].status,
              revision |-> member[v].revision + 1, access |-> member[v].access + 1]
        ELSE IF v \in Touched(op) THEN [member[v] EXCEPT !.access = @ + 1] ELSE member[v]]

InvitationAfter(u, op) ==
    CASE op.kind = "invite" ->
            [state |-> "PENDING", roles |-> op.roles, inviter |-> u,
             token |-> invitation.token + 1, revision |-> invitation.revision + 1,
             expired |-> FALSE]
      [] op.kind = "invite.revoke" -> [invitation EXCEPT !.state = "REVOKED", !.revision = @ + 1]
      [] op.kind = "invite.resend" ->
            [invitation EXCEPT !.inviter = u, !.token = @ + 1, !.expired = FALSE, !.revision = @ + 1]
      [] OTHER -> invitation

StillOwned(op) == Owners(MemberAfter(op), GrantsAfter(op), RoleAfter(op)) # {}

\* The permission, the revision (If-Match), the delegation ceiling, the owner.
\* ceiling is checked over the old roles of what is changed, and the new ones.
Permitted(u, op) ==
    CASE op.kind \in StatusOp ->
            /\ Org(u, "members.manage") /\ op.rev = member[op.who].revision
            /\ Ceiling(u, RolesOf(op.who), FALSE)
            /\ StillOwned(op)
      [] op.kind = "member.roles" ->
            /\ Org(u, "roles.assign") /\ op.rev = member[op.who].revision
            /\ Ceiling(u, RolesOf(op.who), FALSE)
            /\ \A g \in op.grants : Ceiling(u, {g.role}, g.scope = "TEAM")
            /\ StillOwned(op)
      [] op.kind = "role.update" ->
            /\ Org(u, "roles.manage") /\ op.rev = role[op.role].revision
            /\ Ceiling(u, {op.role}, FALSE)
            /\ \A k \in op.keys : Org(u, k)
            /\ StillOwned(op)
      [] op.kind \in TeamOp ->
            /\ May(u, IF op.kind = "team.roles" THEN "roles.assign" ELSE "teams.manage", TRUE)
            /\ op.rev = team.revision
            /\ Ceiling(u, team.roles, TRUE)
            /\ op.kind = "team.roles" => Ceiling(u, op.roles, TRUE)
            /\ op.kind = "team.add" => member[op.who].status = "ACTIVE" /\ ~team.archived
      [] op.kind = "invite" ->
            /\ Org(u, "members.invite") /\ Ceiling(u, op.roles, FALSE)
            /\ invitation.state = "PENDING" => invitation.expired
      [] OTHER ->
            /\ Org(u, "members.invite") /\ op.rev = invitation.revision
            /\ invitation.state = "PENDING"
            /\ op.kind = "invite.resend" => Ceiling(u, invitation.roles, FALSE)

------------------------------------------------------------------------------
(* Sessions and requests *)

\* Accepting locks the rows of the invitee and of the inviter.
Locked(u) == \E a \in Acceptors : acceptor[a].pc \in {"locked", "ready"}
                                  /\ u \in {Invitee, acceptor[a].inviter}

\* Login, or choosing an organization, this one or another: a login binds to the
\* only organization that its user belongs to, if there is just one.
Login(u) ==
    /\ request[u].pc = "idle" /\ ~Locked(u)
    /\ \/ member[u].status = "ACTIVE" /\ bound' = [bound EXCEPT ![u] = member[u].access]
       \/ u \in Elsewhere /\ bound' = [bound EXCEPT ![u] = Nil]
    /\ UNCHANGED <<tables, request, acceptor, barrier, changes>>

\* The access that a session was bound to is compared where it was bound to this
\* organization: at once when a request arrives, and under the barrier.
Unmoved(u) == bound[u] # Nil => bound[u] = member[u].access
Current(u) == member[u].status = "ACTIVE" /\ Unmoved(u)

Authenticate(u, op) ==
    /\ request[u].pc = "idle" /\ ~Locked(u)
    /\ IF bound[u] = Nil THEN u \in Elsewhere ELSE Current(u)
    /\ changes < MaxChanges
    /\ changes' = changes + 1
    /\ request' = [request EXCEPT ![u] = [pc |-> "authenticated", op |-> op]]
    /\ UNCHANGED <<tables, bound, acceptor, barrier>>

FreeMutant == TRUE
Free == barrier = Nil

\* authorize_membership_write, and the revision read after it.
AuthorizedMutant(u) == member[u].status = "ACTIVE"
Authorized(u) == Current(u)

Enter(u) ==
    /\ request[u].pc = "authenticated" /\ Free
    /\ Authorized(u) /\ Permitted(u, request[u].op)
    /\ request' = [request EXCEPT ![u].pc = "ready"]
    /\ barrier' = u
    /\ UNCHANGED <<tables, bound, acceptor, changes>>

\* The tables move and the actor's session, if it is bound here, follows the
\* actor's own revision, unless actors have deactivated themselves.
Commit(u) ==
    LET op == request[u].op IN
    /\ request[u].pc = "ready"
    /\ member' = MemberAfter(op) /\ grants' = GrantsAfter(op) /\ role' = RoleAfter(op)
    /\ team' = TeamAfter(op) /\ invitation' = InvitationAfter(u, op)
    /\ bound' = IF bound[u] = Nil \/ (op.kind = "deactivate" /\ op.who = u) THEN bound
                  ELSE [bound EXCEPT ![u] = MemberAfter(op)[u].access]
    /\ request' = [request EXCEPT ![u] = [pc |-> "idle"]]
    /\ barrier' = Nil
    /\ UNCHANGED <<acceptor, changes>>

\* Refused, a lock timeout, or the process dies: nothing is written.
Abort(u) ==
    /\ request[u].pc # "idle"
    /\ request' = [request EXCEPT ![u] = [pc |-> "idle"]]
    /\ barrier' = IF request[u].pc = "ready" THEN Nil ELSE barrier
    /\ UNCHANGED <<tables, bound, acceptor, changes>>

------------------------------------------------------------------------------
(* Accepting the invitation *)

\* Seventy-two hours have passed.
ExpireInvitation ==
    /\ invitation.state = "PENDING" /\ ~invitation.expired
    /\ invitation' = [invitation EXCEPT !.expired = TRUE]
    /\ UNCHANGED <<member, grants, role, team, bound, request, acceptor, barrier, changes>>

\* The link's invitation is read without a lock.
AcceptStart(a) ==
    /\ acceptor[a].pc = "idle"
    /\ invitation.state = "PENDING" /\ ~invitation.expired
    /\ acceptor' = [acceptor EXCEPT ![a] = [pc |-> "read", token |-> invitation.token,
                                            inviter |-> invitation.inviter]]
    /\ UNCHANGED <<tables, bound, request, barrier, changes>>

\* The advisory lock of the address, then both users' rows.  Taking them one
\* by one in the order of their ids only adds states that wait.
AcceptLock(a) ==
    /\ acceptor[a].pc = "read"
    /\ \A v \in {Invitee, acceptor[a].inviter} : ~Locked(v) /\ request[v].pc = "idle"
    /\ acceptor' = [acceptor EXCEPT ![a].pc = "locked"]
    /\ UNCHANGED <<tables, bound, request, barrier, changes>>

\* The inviter's present authority, over the invitation's roles as they are now.
DelegatedMutant(v) == Org(v, "members.invite")
Delegated(v) == Org(v, "members.invite") /\ Ceiling(v, invitation.roles, FALSE)

\* The last read of the invitation, under its row lock.
ValidMutant(a) == invitation.state = "PENDING" /\ ~invitation.expired
Valid(a) == /\ invitation.state = "PENDING" /\ ~invitation.expired
            /\ invitation.token = acceptor[a].token

AcceptEnter(a) ==
    LET v == acceptor[a].inviter IN
    /\ acceptor[a].pc = "locked" /\ Free
    /\ member[v].status = "ACTIVE" /\ Delegated(v)
    /\ Valid(a)
    /\ member[Invitee].status = "NONE"
    /\ acceptor' = [acceptor EXCEPT ![a].pc = "ready"]
    /\ barrier' = a
    /\ UNCHANGED <<tables, bound, request, changes>>

AcceptCommit(a) ==
    /\ acceptor[a].pc = "ready"
    /\ member' = [member EXCEPT ![Invitee] = [status |-> "ACTIVE", revision |-> 1, access |-> 1]]
    /\ grants' = [grants EXCEPT ![Invitee] = {[role |-> r, scope |-> "ORG"] : r \in invitation.roles}]
    /\ invitation' = [invitation EXCEPT !.state = "ACCEPTED", !.revision = @ + 1]
    /\ acceptor' = [acceptor EXCEPT ![a] = [pc |-> "idle"]]
    /\ barrier' = Nil
    /\ UNCHANGED <<role, team, bound, request, changes>>

AcceptAbort(a) ==
    /\ acceptor[a].pc # "idle"
    /\ acceptor' = [acceptor EXCEPT ![a] = [pc |-> "idle"]]
    /\ barrier' = IF acceptor[a].pc = "ready" THEN Nil ELSE barrier
    /\ UNCHANGED <<tables, bound, request, changes>>

AccessNext ==
    \/ \E u \in Users : \/ Login(u) \/ Enter(u) \/ Commit(u) \/ Abort(u)
                        \/ \E op \in Inputs : Authenticate(u, op)
    \/ ExpireInvitation
    \/ \E a \in Acceptors : \/ AcceptStart(a) \/ AcceptLock(a) \/ AcceptEnter(a)
                            \/ AcceptCommit(a) \/ AcceptAbort(a)

AccessSpec == AccessInit /\ [][AccessNext]_accessVars

------------------------------------------------------------------------------
(* Properties *)

\* "at least one active organization-wide owners.manage grant" (docs/24:30),
\* whatever owners do to each other, to roles and to themselves at the same time
\* (access.go:68-83, authorize_membership_write).
OwnerRemains == Owners(member, grants, role) # {}

Effective(v, k, inTeam) == member[v].status = "ACTIVE" /\ May(v, k, inTeam)

\* On whose authority the step commits.
Authority == IF barrier \in Acceptors THEN acceptor[barrier].inviter ELSE barrier

\* "No member can grant permissions or resource scope beyond current delegation
\* authority" (docs/04:42): a permission that a member comes to hold, directly
\* or through a role edit, a team, a reactivation or an invitation made earlier,
\* was held by whoever stands behind that step (access.go:51-67,614-630).
GrantedByHolder ==
    [][\A v \in Users, k \in Keys, t \in BOOLEAN :
          ~Effective(v, k, t) /\ Effective(v, k, t)' =>
              Authority \in Users /\ Effective(Authority, k, t)]_accessVars

\* A request that writes is an active member's, and one from a session bound to
\* the organization still has the access it was bound to, however many changes
\* overtook it while it waited for the barrier (access.go:119-137).
StaleSessionNeverWrites == \A u \in Users : request[u].pc = "ready" => Current(u)

\* "Resend creates a new token and invalidates old one" (docs/04:26): nobody
\* becomes a member but by the token that is the invitation's at that moment,
\* once, and with the roles it names (access.go:570-649).
AdmittedByLiveInvitation ==
    [][\A v \in Users :
          member[v].status = "NONE" /\ member'[v].status # "NONE" =>
              /\ v = Invitee /\ invitation.state = "PENDING" /\ invitation'.state = "ACCEPTED"
              /\ \E a \in Acceptors : acceptor[a].pc = "ready" /\ acceptor[a].token = invitation.token
              /\ RolesOf(v)' = invitation.roles]_accessVars
==============================================================================
