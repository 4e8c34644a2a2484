------------------------- MODULE AuthorizationPolicy -------------------------
(***************************************************************************)
(* The role model of tenancy/application/authorization.ts: which           *)
(* permissions a membership role carries, and which roles an actor may     *)
(* give to or take from others.                                            *)
(***************************************************************************)

MembershipRole == {"Owner", "Admin", "Seller", "Viewer"}

ReadOnlyPermissions == {"organization.read"}

AdminPermissions == ReadOnlyPermissions \cup
  {"organization.settings.manage", "memberships.read", "memberships.manage",
   "invitations.manage", "audit.read"}

Permission == AdminPermissions \cup {"memberships.manage_owner"}

RolePermissions ==
  [role \in MembershipRole |->
     CASE role = "Owner" -> Permission
       [] role = "Admin" -> AdminPermissions
       [] role \in {"Seller", "Viewer"} -> ReadOnlyPermissions]

\* AuthorizationPolicy.authorize on a context the resolver issued: the
\* resolver denies a role it does not know.
Grants(role, permission) ==
  role \in MembershipRole /\ permission \in RolePermissions[role]

\* TARGET_ROLES_BY_ACTOR
TargetRoles ==
  [actor \in MembershipRole |->
     CASE actor = "Owner" -> MembershipRole
       [] actor = "Admin" -> {"Seller", "Viewer"}
       [] actor \in {"Seller", "Viewer"} -> {}]

\* RoleTargetEligibilityPolicy.evaluate
Eligible(actor, target) ==
  actor \in MembershipRole /\ target \in TargetRoles[actor]
==============================================================================
