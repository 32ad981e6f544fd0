------------------------------- MODULE MCAccess -------------------------------
(***************************************************************************)
(* A small instance of Access: two owners, an administrator who may invite *)
(* and assign but owns nothing, and an invited user.                       *)
(***************************************************************************)
EXTENDS Access, TLC

CONSTANTS u1, u2, u3, owner, helper

AllKeys    == {"owners.manage", "members.manage", "members.invite", "roles.assign",
               "roles.manage", "teams.manage"}
HelperKeys == {"members.invite", "roles.assign"}
TheKeys    == [r \in Roles |-> IF r = owner THEN AllKeys ELSE HelperKeys]
In(r, s)   == [role |-> r, scope |-> s]
TheGrants  == [u \in Users |-> IF u = u3 THEN Nil ELSE {In(owner, "ORG")}]
Grants     == {{}, {In(helper, "ORG")}, {In(helper, "TEAM")}}
KeySets    == {HelperKeys, HelperKeys \cup {"teams.manage"}}
RoleSets   == {{owner}}
Symmetric  == Permutations(Acceptors)
==============================================================================
