-------------------------------- MODULE Rbac --------------------------------
(***************************************************************************)
(* The decision engine of rbac.js: who may do what, given a store.         *)
(*                                                                         *)
(* A store is the parsed rbac.json. Its lists hold at most one element of  *)
(* each id or principal (the admin API replaces by id), so roles and       *)
(* assignments are functions on the ids present, and tenants, of which the *)
(* engine reads the ids only, a set.                                       *)
(***************************************************************************)
(* A user is what auth.js makes of a request: its upn (or Null), the       *)
(* groups in its claims and isAdmin.                                       *)
CONSTANTS
  Upns, Groups, Tenants, Roles,
  Reports, Areas,
  AreaOf,      \* reportArea: the area of each report
  AllTenants,  \* "*" as the tenants of a role
  AllReports,  \* "*" as the reports of a role
  Null

ASSUME RbacAssumption ==
  /\ AreaOf \in [Reports -> Areas]
  /\ Null \notin Upns \cup Groups
  /\ AllTenants \notin SUBSET Tenants
  /\ AllReports \notin [areas : SUBSET Areas, ids : SUBSET Reports]

Principals == Upns \cup Groups
ReportScopes == {AllReports} \cup [areas : SUBSET Areas, ids : SUBSET Reports]
TenantScopes == {AllTenants} \cup SUBSET Tenants
RoleEntries == [tenants : TenantScopes, reports : ReportScopes]

PartialFunctions(S, T) == UNION {[D -> T] : D \in SUBSET S}

Stores ==
  [accessGroup : Groups \cup {Null},
   adminGroup : Groups \cup {Null},
   tenants : SUBSET Tenants,
   roles : PartialFunctions(Roles, RoleEntries),
   assignments : PartialFunctions(Principals, SUBSET Roles)]
-----------------------------------------------------------------------------
inGroup(u, g) == g # Null /\ g \in u.groups

isAdmin(u, s) == u.isAdmin \/ inGroup(u, s.adminGroup)

(* The roles of a user: those assigned to the UPN or to one of its groups, *)
(* without the ids of roles that do not exist.                             *)
resolveRoles(u, s) ==
  DOMAIN s.roles \cap
    UNION {s.assignments[p] : p \in DOMAIN s.assignments \cap ({u.upn} \cup u.groups)}

(* Mutant of hasToolAccess: group overage is taken for membership.         *)
hasToolAccess_Overage(u, s) ==
  \/ isAdmin(u, s)
  \/ /\ u.upn # Null
     /\ \/ inGroup(u, s.accessGroup) \/ u.groupsOverage
        \/ resolveRoles(u, s) # {}

hasToolAccess(u, s) ==
  \/ isAdmin(u, s)
  \/ /\ u.upn # Null
     /\ inGroup(u, s.accessGroup) \/ resolveRoles(u, s) # {}

(* effectiveAccess: what the roles grant together, tenants and reports     *)
(* each on their own.                                                      *)
allTenants(u, s) == \E r \in resolveRoles(u, s) : s.roles[r].tenants = AllTenants

grantsTenant(u, t, s) ==
  \/ allTenants(u, s)
  \/ \E r \in resolveRoles(u, s) : s.roles[r].tenants # AllTenants /\ t \in s.roles[r].tenants

grantsReport(u, rep, s) ==
  \E r \in resolveRoles(u, s) :
    \/ s.roles[r].reports = AllReports
    \/ /\ s.roles[r].reports # AllReports
       /\ \/ AreaOf[rep] \in s.roles[r].reports.areas
          \/ rep \in s.roles[r].reports.ids

(* can(user, {tenant, reportId}): a need that is Null is not checked.      *)
can(u, t, rep, s) ==
  /\ hasToolAccess(u, s)
  /\ \/ isAdmin(u, s)
     \/ /\ t # Null => grantsTenant(u, t, s)
        /\ rep # Null => grantsReport(u, rep, s)

allowedTenants(u, s) ==
  {t \in s.tenants :
     \/ isAdmin(u, s)
     \/ hasToolAccess(u, s) /\ grantsTenant(u, t, s)}
=============================================================================
