\* Two owners and an invited user; up to three requests and two acceptances, any
\* number of them at a time.
CONSTANTS
    Nil = Nil
    u1 = u1
    u2 = u2
    u3 = u3
    owner = owner
    helper = helper
    Users = {u1, u2, u3}
    Acceptors = {a1, a2}
    Invitee = u3
    Roles = {owner, helper}
    Keys <- AllKeys
    InitKeys <- TheKeys
    InitGrants <- TheGrants
    GrantChoices <- Grants
    KeyChoices <- KeySets
    RoleChoices <- RoleSets
    Elsewhere = {u2}
    MaxChanges = 3
SPECIFICATION AccessSpec
INVARIANTS OwnerRemains StaleSessionNeverWrites
PROPERTIES GrantedByHolder AdmittedByLiveInvitation
SYMMETRY Symmetric
