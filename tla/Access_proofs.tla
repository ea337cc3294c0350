--------------------------- MODULE Access_proofs ---------------------------
(***************************************************************************)
(* Proofs about Access: the types of the store, its cache and its file;    *)
(* that acknowledged edits are what requests are decided by; that nothing  *)
(* refers to what was deleted; and what edits and lost claims may change   *)
(* of what a user can do.                                                  *)
(***************************************************************************)
EXTENDS Access, TLAPS

-----------------------------------------------------------------------------
(* The edits as operators on stores.                                       *)

(* A list with an entry put into it or removed is a list.                  *)
LEMMA PutType ==
  ASSUME NEW S, NEW T, NEW f \in PartialFunctions(S, T), NEW id \in S, NEW entry \in T
  PROVE  Put(f, id, entry) \in PartialFunctions(S, T)
<1>1. PICK D \in SUBSET S : f \in [D -> T]
  BY DEF PartialFunctions
<1>2. Put(f, id, entry) \in [D \cup {id} -> T]
  BY <1>1 DEF Put
<1>3. D \cup {id} \in SUBSET S
  OBVIOUS
<1>4. QED
  BY <1>2, <1>3 DEF PartialFunctions

LEMMA RemoveType ==
  ASSUME NEW S, NEW T, NEW f \in PartialFunctions(S, T), NEW id
  PROVE  Remove(f, id) \in PartialFunctions(S, T)
<1>1. PICK D \in SUBSET S : f \in [D -> T]
  BY DEF PartialFunctions
<1>2. Remove(f, id) \in [D \ {id} -> T]
  BY <1>1 DEF Remove
<1>3. D \ {id} \in SUBSET S
  OBVIOUS
<1>4. QED
  BY <1>2, <1>3 DEF PartialFunctions

(* A list of which every entry is changed is a list.                       *)
LEMMA MapType ==
  ASSUME NEW S, NEW T, NEW f \in PartialFunctions(S, T), NEW g,
         DOMAIN g = DOMAIN f, g = [i \in DOMAIN f |-> g[i]],
         \A i \in DOMAIN f : f[i] \in T => g[i] \in T
  PROVE  g \in PartialFunctions(S, T)
<1>1. PICK D \in SUBSET S : f \in [D -> T]
  BY DEF PartialFunctions
<1>2. g \in [D -> T]
  BY <1>1
<1>3. QED
  BY <1>2 DEF PartialFunctions

LEMMA EntryType ==
  ASSUME NEW S, NEW T, NEW f \in PartialFunctions(S, T)
  PROVE  DOMAIN f \subseteq S /\ \A i \in DOMAIN f : f[i] \in T
BY DEF PartialFunctions

(* The empty store of a first start is a store.                            *)
LEMMA SeedType == Seed \in Stores
<1>1. [r \in {} |-> Null] \in PartialFunctions(Roles, RoleEntries)
  BY DEF PartialFunctions
<1>2. [p \in {} |-> Null] \in PartialFunctions(Principals, SUBSET Roles)
  BY DEF PartialFunctions
<1>3. QED
  BY <1>1, <1>2, AccessAssumption DEF Seed, Stores, AccessAssumption

(* Every edit of a store makes a store.                                    *)
LEMMA TenantEditType ==
  ASSUME NEW s \in Stores, NEW t \in Tenants
  PROVE  withTenant(s, t) \in Stores /\ withoutTenant(s, t) \in Stores
<1>1. withTenant(s, t) \in Stores
  BY DEF withTenant, Stores
<1> DEFINE rs == [r \in DOMAIN s.roles |-> scrubbed(s.roles[r], t)]
<1>2. s.roles \in PartialFunctions(Roles, RoleEntries)
  BY DEF Stores
<1>3. \A r \in DOMAIN s.roles : s.roles[r] \in RoleEntries => rs[r] \in RoleEntries
  BY DEF RoleEntries, TenantScopes, scrubbed
<1>4. rs \in PartialFunctions(Roles, RoleEntries)
  <2> HIDE DEF rs
  <2>1. DOMAIN rs = DOMAIN s.roles /\ rs = [r \in DOMAIN s.roles |-> rs[r]]
    BY DEF rs
  <2>2. QED
    BY <2>1, <1>2, <1>3, MapType
<1>5. withoutTenant(s, t) = [s EXCEPT !.tenants = s.tenants \ {t}, !.roles = rs]
  BY DEF withoutTenant, Stores
<1>6. QED
  <2> HIDE DEF rs
  <2>1. withoutTenant(s, t) \in Stores
    BY <1>4, <1>5 DEF Stores
  <2>2. QED
    BY <1>1, <2>1

LEMMA RoleEditType ==
  ASSUME NEW s \in Stores, NEW r \in Roles, NEW tenants \in TenantScopes,
         NEW reports \in ReportScopes
  PROVE  withRole(s, r, tenants, reports) \in Stores /\ withoutRole(s, r) \in Stores
<1>1. s.roles \in PartialFunctions(Roles, RoleEntries)
      /\ s.assignments \in PartialFunctions(Principals, SUBSET Roles)
  BY DEF Stores
<1>2. [tenants |-> tenants, reports |-> reports] \in RoleEntries
  BY DEF RoleEntries
<1>3. Put(s.roles, r, [tenants |-> tenants, reports |-> reports])
        \in PartialFunctions(Roles, RoleEntries)
  BY <1>1, <1>2, PutType
<1>4. Remove(s.roles, r) \in PartialFunctions(Roles, RoleEntries)
  BY <1>1, RemoveType
<1> DEFINE as == [p \in DOMAIN s.assignments |-> s.assignments[p] \ {r}]
<1>5. as \in PartialFunctions(Principals, SUBSET Roles)
  <2>1. \A p \in DOMAIN s.assignments : s.assignments[p] \in SUBSET Roles => as[p] \in SUBSET Roles
    OBVIOUS
  <2>2. DOMAIN as = DOMAIN s.assignments /\ as = [p \in DOMAIN s.assignments |-> as[p]]
    OBVIOUS
  <2> HIDE DEF as
  <2>3. QED
    BY <2>1, <2>2, <1>1, MapType
<1>6. withRole(s, r, tenants, reports) \in Stores
  BY <1>3 DEF withRole, Stores
<1>7. withoutRole(s, r) = [s EXCEPT !.roles = Remove(s.roles, r), !.assignments = as]
  BY DEF withoutRole, Stores
<1>8. withoutRole(s, r) \in Stores
  <2> HIDE DEF as
  <2>1. QED
    BY <1>4, <1>5, <1>7 DEF Stores
<1>9. QED
  BY <1>6, <1>8

LEMMA AssignmentEditType ==
  ASSUME NEW s \in Stores, NEW p \in Principals, NEW roles \in SUBSET Roles
  PROVE  withAssignment(s, p, roles) \in Stores /\ withoutAssignment(s, p) \in Stores
<1>1. s.assignments \in PartialFunctions(Principals, SUBSET Roles)
  BY DEF Stores
<1>2. Put(s.assignments, p, roles) \in PartialFunctions(Principals, SUBSET Roles)
  BY <1>1, PutType
<1>3. Remove(s.assignments, p) \in PartialFunctions(Principals, SUBSET Roles)
  BY <1>1, RemoveType
<1>4. QED
  BY <1>2, <1>3 DEF withAssignment, withoutAssignment, Stores

LEMMA GroupEditType ==
  ASSUME NEW s \in Stores, NEW access \in Groups \cup {Null}, NEW admin \in Groups \cup {Null}
  PROVE  withGroups(s, access, admin) \in Stores
BY DEF withGroups, Stores

(* normalizeStore makes a store of a store, and one that it leaves alone.  *)
LEMMA NormalizeType ==
  ASSUME NEW s \in Stores
  PROVE  /\ normalizeStore(s) \in Stores
         /\ normalizeStore(normalizeStore(s)) = normalizeStore(s)
<1>1. normalizeStore(s) \in Stores
  BY AccessAssumption DEF normalizeStore, Stores, AccessAssumption
<1>2. QED
  BY <1>1 DEF normalizeStore, Stores

-----------------------------------------------------------------------------
(* What an edit does to what it edits, and to references.                  *)

(* The roles of a store name no other tenants than those of T.             *)
RolesWithin(s, T) ==
  \A r \in DOMAIN s.roles : s.roles[r].tenants \in {AllTenants} \cup SUBSET T

LEMMA ServedType ==
  ASSUME TypeOK
  PROVE  /\ OnDisk \in Stores /\ Served \in Stores /\ intended \in Stores
         /\ Absent \notin Stores /\ Null \notin Stores
<1>1. OnDisk \in Stores
  BY SeedType DEF TypeOK, OnDisk
<1>2. QED
  BY <1>1, AccessAssumption DEF TypeOK, Served, AccessAssumption

LEMMA NormalizeKeeps ==
  ASSUME NEW s \in Stores
  PROVE  /\ normalizeStore(s).tenants = s.tenants
         /\ normalizeStore(s).roles = s.roles
         /\ normalizeStore(s).assignments = s.assignments
BY DEF normalizeStore, Stores

LEMMA ResolvedWithin ==
  ASSUME NEW s, Resolved(s) PROVE RolesWithin(s, s.tenants)
BY DEF Resolved, RolesWithin

(* An edit that names nothing that is not there, of a store in which every *)
(* reference resolves, makes such a store, and its roles name no tenant    *)
(* that was not there before.                                              *)
KeepsRefs(s, next) == Resolved(s) => Resolved(next) /\ RolesWithin(next, s.tenants)

LEMMA TenantEditRefs ==
  ASSUME NEW s \in Stores, NEW t \in Tenants
  PROVE  KeepsRefs(s, withTenant(s, t)) /\ KeepsRefs(s, withoutTenant(s, t))
<1> SUFFICES ASSUME Resolved(s)
             PROVE  /\ Resolved(withTenant(s, t)) /\ RolesWithin(withTenant(s, t), s.tenants)
                    /\ Resolved(withoutTenant(s, t))
                    /\ RolesWithin(withoutTenant(s, t), s.tenants)
  BY DEF KeepsRefs
<1>1. /\ withTenant(s, t).tenants = s.tenants \cup {t}
      /\ withTenant(s, t).roles = s.roles
      /\ withTenant(s, t).assignments = s.assignments
  BY DEF withTenant, Stores
<1>2. /\ withoutTenant(s, t).tenants = s.tenants \ {t}
      /\ withoutTenant(s, t).roles = [r \in DOMAIN s.roles |-> scrubbed(s.roles[r], t)]
      /\ withoutTenant(s, t).assignments = s.assignments
  BY DEF withoutTenant, Stores
<1>3. \A r \in DOMAIN s.roles :
        scrubbed(s.roles[r], t).tenants =
          IF s.roles[r].tenants = AllTenants THEN AllTenants ELSE s.roles[r].tenants \ {t}
  BY EntryType DEF scrubbed, RoleEntries, Stores
<1>4. Resolved(withTenant(s, t)) /\ RolesWithin(withTenant(s, t), s.tenants)
  BY <1>1 DEF Resolved, RolesWithin
<1>5. \A r \in DOMAIN s.roles :
        scrubbed(s.roles[r], t).tenants \in {AllTenants} \cup SUBSET (s.tenants \ {t})
  BY <1>3 DEF Resolved
<1>6. Resolved(withoutTenant(s, t)) /\ RolesWithin(withoutTenant(s, t), s.tenants)
  BY <1>2, <1>5 DEF Resolved, RolesWithin
<1>7. QED
  BY <1>4, <1>6

LEMMA RoleEditRefs ==
  ASSUME NEW s \in Stores, NEW r \in Roles, NEW tenants \in TenantScopes,
         NEW reports \in ReportScopes
  PROVE  /\ tenants \in {AllTenants} \cup SUBSET s.tenants =>
              KeepsRefs(s, withRole(s, r, tenants, reports))
         /\ KeepsRefs(s, withoutRole(s, r))
<1> SUFFICES ASSUME Resolved(s)
             PROVE  /\ tenants \in {AllTenants} \cup SUBSET s.tenants =>
                         /\ Resolved(withRole(s, r, tenants, reports))
                         /\ RolesWithin(withRole(s, r, tenants, reports), s.tenants)
                    /\ Resolved(withoutRole(s, r)) /\ RolesWithin(withoutRole(s, r), s.tenants)
  BY DEF KeepsRefs
<1> DEFINE w == withRole(s, r, tenants, reports)
<1>1. /\ w.tenants = s.tenants
      /\ w.roles = Put(s.roles, r, [tenants |-> tenants, reports |-> reports])
      /\ w.assignments = s.assignments
  BY DEF withRole, Stores
<1>2. /\ withoutRole(s, r).tenants = s.tenants
      /\ withoutRole(s, r).roles = Remove(s.roles, r)
      /\ withoutRole(s, r).assignments =
           [p \in DOMAIN s.assignments |-> s.assignments[p] \ {r}]
  BY DEF withoutRole, Stores
<1>3. ASSUME tenants \in {AllTenants} \cup SUBSET s.tenants
      PROVE  Resolved(w) /\ RolesWithin(w, s.tenants)
  <2>1. \A i \in DOMAIN w.roles : w.roles[i].tenants \in {AllTenants} \cup SUBSET s.tenants
    BY <1>1, <1>3 DEF Put, Resolved
  <2>2. DOMAIN s.roles \subseteq DOMAIN w.roles
    BY <1>1 DEF Put
  <2> HIDE DEF w
  <2>3. QED
    BY <1>1, <2>1, <2>2 DEF Resolved, RolesWithin
<1>4. Resolved(withoutRole(s, r)) /\ RolesWithin(withoutRole(s, r), s.tenants)
  BY <1>2 DEF Remove, Resolved, RolesWithin
<1>5. QED
  BY <1>3, <1>4

LEMMA AssignmentEditRefs ==
  ASSUME NEW s \in Stores, NEW p \in Principals, NEW roles \in SUBSET Roles
  PROVE  /\ roles \subseteq DOMAIN s.roles => KeepsRefs(s, withAssignment(s, p, roles))
         /\ KeepsRefs(s, withoutAssignment(s, p))
<1>1. /\ withAssignment(s, p, roles).tenants = s.tenants
      /\ withAssignment(s, p, roles).roles = s.roles
      /\ withAssignment(s, p, roles).assignments = Put(s.assignments, p, roles)
  BY DEF withAssignment, Stores
<1>2. /\ withoutAssignment(s, p).tenants = s.tenants
      /\ withoutAssignment(s, p).roles = s.roles
      /\ withoutAssignment(s, p).assignments = Remove(s.assignments, p)
  BY DEF withoutAssignment, Stores
<1>3. roles \subseteq DOMAIN s.roles => KeepsRefs(s, withAssignment(s, p, roles))
  BY <1>1 DEF KeepsRefs, Resolved, RolesWithin, Put
<1>4. KeepsRefs(s, withoutAssignment(s, p))
  BY <1>2 DEF KeepsRefs, Resolved, RolesWithin, Remove
<1>5. QED
  BY <1>3, <1>4

LEMMA GroupEditRefs ==
  ASSUME NEW s \in Stores, NEW access, NEW admin
  PROVE  KeepsRefs(s, withGroups(s, access, admin))
<1>1. /\ withGroups(s, access, admin).tenants = s.tenants
      /\ withGroups(s, access, admin).roles = s.roles
      /\ withGroups(s, access, admin).assignments = s.assignments
  BY DEF withGroups, Stores
<1>2. QED
  BY <1>1 DEF KeepsRefs, Resolved, RolesWithin

-----------------------------------------------------------------------------
(* Every route of the admin API is an edit of the same shape: what it      *)
(* makes of what is served it makes of what is intended, and it names what *)
(* is not there only if stale' says so.                                    *)
EditStep(next, intent) ==
  /\ next \in Stores /\ intent \in Stores
  /\ Served = intended => next = intent
  /\ ~stale' => ~stale /\ KeepsRefs(Served, next)
  /\ stale' \in BOOLEAN
  /\ mutateStore(next, intent)

LEMMA RoutesAreEdits ==
  ASSUME TypeOK, SaveTenant \/ SaveRole \/ SaveAssignment \/ SaveGroups \/ Deletes
  PROVE  \E next, intent \in Stores : EditStep(next, intent)
<1>1. Served \in Stores /\ intended \in Stores /\ stale \in BOOLEAN
  BY ServedType DEF TypeOK
<1>2. CASE SaveTenant
  <2>1. PICK t \in Tenants : mutateStore(withTenant(Served, t), withTenant(intended, t))
    BY <1>2 DEF SaveTenant
  <2>2. EditStep(withTenant(Served, t), withTenant(intended, t))
    BY <1>1, <1>2, <2>1, TenantEditType, TenantEditRefs DEF SaveTenant, EditStep
  <2>3. QED
    BY <2>2 DEF EditStep
<1>3. CASE DeleteTenant
  <2>1. PICK t \in Tenants : mutateStore(withoutTenant(Served, t), withoutTenant(intended, t))
    BY <1>3 DEF DeleteTenant
  <2>2. EditStep(withoutTenant(Served, t), withoutTenant(intended, t))
    BY <1>1, <1>3, <2>1, TenantEditType, TenantEditRefs DEF DeleteTenant, EditStep
  <2>3. QED
    BY <2>2 DEF EditStep
<1>4. CASE SaveRole
  <2>1. PICK r \in Roles, tenants \in TenantScopes, rep \in PickReports :
          /\ mutateStore(withRole(Served, r, tenants, rep), withRole(intended, r, tenants, rep))
          /\ stale' = (stale \/ tenants \notin {AllTenants} \cup SUBSET Served.tenants)
    BY <1>4 DEF SaveRole
  <2>2. rep \in ReportScopes
    BY AccessAssumption DEF AccessAssumption
  <2>3. /\ withRole(Served, r, tenants, rep) \in Stores
        /\ withRole(intended, r, tenants, rep) \in Stores
    BY <1>1, <2>2, RoleEditType
  <2>4. ~stale' => ~stale /\ KeepsRefs(Served, withRole(Served, r, tenants, rep))
    BY <1>1, <2>1, <2>2, RoleEditRefs
  <2>5. EditStep(withRole(Served, r, tenants, rep), withRole(intended, r, tenants, rep))
    BY <1>1, <2>1, <2>3, <2>4 DEF EditStep
  <2>6. QED
    BY <2>5 DEF EditStep
<1>5. CASE DeleteRole
  <2>1. PICK r \in Roles : mutateStore(withoutRole(Served, r), withoutRole(intended, r))
    BY <1>5 DEF DeleteRole
  <2>2. withoutRole(Served, r) \in Stores /\ withoutRole(intended, r) \in Stores
    <3>1. \E tenants \in TenantScopes : TRUE
      BY DEF TenantScopes
    <3>2. AllReports \in ReportScopes
      BY DEF ReportScopes
    <3>3. QED
      BY <1>1, <3>1, <3>2, RoleEditType
  <2>3. KeepsRefs(Served, withoutRole(Served, r))
    <3>1. \E tenants \in TenantScopes : TRUE
      BY DEF TenantScopes
    <3>2. AllReports \in ReportScopes
      BY DEF ReportScopes
    <3>3. QED
      BY <1>1, <3>1, <3>2, RoleEditRefs
  <2>4. EditStep(withoutRole(Served, r), withoutRole(intended, r))
    BY <1>1, <1>5, <2>1, <2>2, <2>3 DEF DeleteRole, EditStep
  <2>5. QED
    BY <2>4 DEF EditStep
<1>6. CASE SaveAssignment
  <2>1. PICK p \in Principals, roles \in SUBSET Roles :
          /\ mutateStore(withAssignment(Served, p, roles), withAssignment(intended, p, roles))
          /\ stale' = (stale \/ ~(roles \subseteq DOMAIN Served.roles))
    BY <1>6 DEF SaveAssignment
  <2>2. /\ withAssignment(Served, p, roles) \in Stores
        /\ withAssignment(intended, p, roles) \in Stores
    BY <1>1, AssignmentEditType
  <2>3. ~stale' => ~stale /\ KeepsRefs(Served, withAssignment(Served, p, roles))
    BY <1>1, <2>1, AssignmentEditRefs
  <2>4. EditStep(withAssignment(Served, p, roles), withAssignment(intended, p, roles))
    BY <1>1, <2>1, <2>2, <2>3 DEF EditStep
  <2>5. QED
    BY <2>4 DEF EditStep
<1>7. CASE DeleteAssignment
  <2>1. PICK p \in Principals :
          mutateStore(withoutAssignment(Served, p), withoutAssignment(intended, p))
    BY <1>7 DEF DeleteAssignment
  <2>2. /\ withoutAssignment(Served, p) \in Stores /\ withoutAssignment(intended, p) \in Stores
        /\ KeepsRefs(Served, withoutAssignment(Served, p))
    <3>1. {} \in SUBSET Roles
      OBVIOUS
    <3>2. QED
      BY <1>1, <3>1, AssignmentEditType, AssignmentEditRefs
  <2>3. EditStep(withoutAssignment(Served, p), withoutAssignment(intended, p))
    BY <1>1, <1>7, <2>1, <2>2 DEF DeleteAssignment, EditStep
  <2>4. QED
    BY <2>3 DEF EditStep
<1>8. CASE SaveGroups
  <2>1. PICK access, admin \in Groups \cup {Null} :
          mutateStore(withGroups(Served, access, admin), withGroups(intended, access, admin))
    BY <1>8 DEF SaveGroups
  <2>2. EditStep(withGroups(Served, access, admin), withGroups(intended, access, admin))
    BY <1>1, <1>8, <2>1, GroupEditType, GroupEditRefs DEF SaveGroups, EditStep
  <2>3. QED
    BY <2>2 DEF EditStep
<1>9. QED
  BY <1>2, <1>3, <1>4, <1>5, <1>6, <1>7, <1>8 DEF Deletes

-----------------------------------------------------------------------------
(* Types.                                                                  *)

LEMMA EditKeepsTypes ==
  ASSUME TypeOK, NEW next \in Stores, NEW intent \in Stores, EditStep(next, intent)
  PROVE  TypeOK'
<1>1. OnDisk \in Stores /\ Served \in Stores
  BY ServedType
<1>2. normalizeStore(next) \in Stores /\ normalizeStore(intent) \in Stores
  BY NormalizeType
<1>3. edits' \in 0..MaxEdits
  BY AccessAssumption DEF EditStep, mutateStore, TypeOK, AccessAssumption
<1>4. /\ file' \in Stores /\ cache' \in Stores \cup {Null} /\ intended' \in Stores
      /\ current' \in BOOLEAN /\ up' \in BOOLEAN /\ collided' \in BOOLEAN
  <2>1. CASE Saves(normalizeStore(next), normalizeStore(intent))
    BY <1>1, <1>2, <2>1 DEF Saves, TypeOK
  <2>2. CASE SaveFails
    BY <1>1, <2>2 DEF SaveFails, TypeOK
  <2>3. CASE Interrupted(normalizeStore(next))
    BY <1>1, <1>2, <2>3 DEF Interrupted, Ends, TypeOK
  <2>4. QED
    BY <2>1, <2>2, <2>3 DEF EditStep, mutateStore
<1>5. QED
  BY <1>3, <1>4 DEF EditStep, TypeOK

(***************************************************************************)
(* Every variable keeps its type: edits, of any ids, make stores, and so   *)
(* do failed and interrupted saves.                                        *)
(***************************************************************************)
THEOREM TypeCorrect == Spec => []TypeOK
<1>1. Init => TypeOK
  <2>1. 0 \in 0..MaxEdits
    BY AccessAssumption DEF AccessAssumption
  <2>2. QED
    BY <2>1, SeedType DEF Init, TypeOK
<1>2. TypeOK /\ [Next]_vars => TypeOK'
  <2> SUFFICES ASSUME TypeOK, [Next]_vars PROVE TypeOK'
    OBVIOUS
  <2>1. CASE SaveTenant \/ SaveRole \/ SaveAssignment \/ SaveGroups \/ Deletes
    BY <2>1, RoutesAreEdits, EditKeepsTypes
  <2>2. CASE getStore
    BY <2>2, ServedType DEF getStore, TypeOK
  <2>3. CASE Start \/ End
    BY <2>3 DEF Start, End, Ends, TypeOK
  <2>4. CASE UNCHANGED vars
    BY <2>4 DEF vars, TypeOK
  <2>5. QED
    BY <2>1, <2>2, <2>3, <2>4 DEF Next
<1>3. QED
  BY <1>1, <1>2, PTL DEF Spec

-----------------------------------------------------------------------------
(* What is served.                                                         *)

(* Unless two saves have left the same time, the cache is trusted only     *)
(* when it is what the file holds, and both are what was acknowledged.     *)
TakeInv == ~collided => Served = intended /\ OnDisk = Served

LEMMA EditTakes ==
  ASSUME TypeOK, TakeInv, NEW next \in Stores, NEW intent \in Stores,
         EditStep(next, intent)
  PROVE  TakeInv'
<1> DEFINE n == normalizeStore(next)
<1>1. /\ OnDisk \in Stores /\ Served \in Stores /\ n \in Stores
      /\ Absent \notin Stores /\ Null \notin Stores
  BY ServedType, NormalizeType
<1>2. ~collided => n = normalizeStore(intent)
  BY DEF EditStep, TakeInv
<1> HIDE DEF n
<1>3. CASE Saves(n, normalizeStore(intent))
  BY <1>1, <1>2, <1>3 DEF Saves, TakeInv, Served, OnDisk
<1>4. CASE SaveFails
  BY <1>1, <1>4 DEF SaveFails, TakeInv, Served, OnDisk
<1>5. CASE Interrupted(n)
  BY <1>1, <1>5 DEF Interrupted, Ends, TakeInv, Served, OnDisk
<1>6. QED
  BY <1>3, <1>4, <1>5 DEF n, EditStep, mutateStore

THEOREM TakeInvariant == Spec => []TakeInv
<1>1. Init => TakeInv
  BY DEF Init, TakeInv, Served, OnDisk
<1>2. TypeOK /\ TakeInv /\ [Next]_vars => TakeInv'
  <2> SUFFICES ASSUME TypeOK, TakeInv, [Next]_vars PROVE TakeInv'
    OBVIOUS
  <2>1. CASE SaveTenant \/ SaveRole \/ SaveAssignment \/ SaveGroups \/ Deletes
    BY <2>1, RoutesAreEdits, EditTakes
  <2>2. CASE getStore
    BY <2>2, ServedType DEF getStore, TakeInv, Served, OnDisk
  <2>3. CASE Start \/ End
    BY <2>3, ServedType DEF Start, End, Ends, TakeInv, Served, OnDisk
  <2>4. CASE UNCHANGED vars
    BY <2>4 DEF vars, TakeInv, Served, OnDisk
  <2>5. QED
    BY <2>1, <2>2, <2>3, <2>4 DEF Next
<1>3. QED
  BY <1>1, <1>2, TypeCorrect, PTL DEF Spec

(***************************************************************************)
(* The store the next request is decided by has every acknowledged edit in *)
(* it, and none that failed, through failing and interrupted saves and     *)
(* restarts, unless two saves have left the same modification time.        *)
(***************************************************************************)
THEOREM EditsAreLive == Spec => []EditsTakeEffect
<1>1. TakeInv => EditsTakeEffect
  BY DEF TakeInv, EditsTakeEffect
<1>2. QED
  BY <1>1, TakeInvariant, PTL

-----------------------------------------------------------------------------
(* References.                                                             *)

(* The file and the cache may differ by saves of the same time; what the   *)
(* roles of the file name is then among what is served all the same.       *)
RefInv ==
  ~stale => /\ Resolved(OnDisk)
            /\ cache # Null => Resolved(cache)
            /\ RolesWithin(OnDisk, Served.tenants)

LEMMA NormalRefs ==
  ASSUME NEW s \in Stores
  PROVE  /\ Resolved(s) <=> Resolved(normalizeStore(s))
         /\ \A T : RolesWithin(s, T) <=> RolesWithin(normalizeStore(s), T)
         /\ normalizeStore(s).tenants = s.tenants
BY NormalizeKeeps DEF Resolved, RolesWithin

LEMMA EditKeepsRefs ==
  ASSUME TypeOK, RefInv, NEW next \in Stores, NEW intent \in Stores,
         EditStep(next, intent)
  PROVE  RefInv'
<1> DEFINE n == normalizeStore(next)
<1> SUFFICES ASSUME ~stale'
             PROVE  /\ Resolved(OnDisk)' /\ (cache # Null => Resolved(cache))'
                    /\ RolesWithin(OnDisk, Served.tenants)'
  BY DEF RefInv
<1>1. /\ OnDisk \in Stores /\ Served \in Stores /\ n \in Stores
      /\ Absent \notin Stores /\ Null \notin Stores
  BY ServedType, NormalizeType
<1>2. /\ Resolved(OnDisk) /\ Resolved(Served)
      /\ RolesWithin(OnDisk, Served.tenants)
      /\ Resolved(next) /\ RolesWithin(next, Served.tenants)
  BY DEF RefInv, Served, EditStep, KeepsRefs
<1>3. Resolved(n) /\ RolesWithin(n, Served.tenants)
  BY <1>2, NormalRefs
<1> HIDE DEF n
<1>4. RolesWithin(n, n.tenants) /\ RolesWithin(OnDisk, OnDisk.tenants)
  BY <1>2, <1>3, ResolvedWithin
<1>5. CASE Saves(n, normalizeStore(intent))
  <2>1. OnDisk' = n /\ cache' = Served /\ (Served' = Served \/ Served' = n)
    BY <1>1, <1>5 DEF Saves, OnDisk, Served
  <2>2. QED
    BY <2>1, <1>2, <1>3, <1>4
<1>6. CASE SaveFails
  <2>1. OnDisk' = OnDisk /\ cache' = Served /\ Served' = Served
    BY <1>1, <1>6 DEF SaveFails, OnDisk, Served
  <2>2. QED
    BY <2>1, <1>2
<1>7. CASE Interrupted(n)
  <2>1. cache' = Null /\ Served' = OnDisk' /\ (OnDisk' = OnDisk \/ OnDisk' = n)
    BY <1>1, <1>7 DEF Interrupted, Ends, OnDisk, Served
  <2>2. QED
    BY <2>1, <1>2, <1>3, <1>4
<1>8. QED
  BY <1>5, <1>6, <1>7 DEF n, EditStep, mutateStore

THEOREM RefInvariant == Spec => []RefInv
<1>1. Init => RefInv
  <2>1. Resolved(Seed) /\ RolesWithin(Seed, Seed.tenants)
    BY DEF Resolved, RolesWithin, Seed
  <2>2. QED
    BY <2>1 DEF Init, RefInv, Served, OnDisk
<1>2. TypeOK /\ RefInv /\ [Next]_vars => RefInv'
  <2> SUFFICES ASSUME TypeOK, RefInv, [Next]_vars PROVE RefInv'
    OBVIOUS
  <2>1. CASE SaveTenant \/ SaveRole \/ SaveAssignment \/ SaveGroups \/ Deletes
    BY <2>1, RoutesAreEdits, EditKeepsRefs
  <2>2. CASE getStore
    <3>1. OnDisk' = OnDisk /\ cache' = Served /\ Served' = Served /\ stale' = stale
      BY <2>2, ServedType DEF getStore, OnDisk, Served
    <3>2. ~stale => Resolved(Served)
      BY DEF RefInv, Served
    <3>3. QED
      BY <3>1, <3>2 DEF RefInv
  <2>3. CASE Start
    <3>1. OnDisk' = OnDisk /\ Served' = Served /\ cache' = cache /\ stale' = stale
      BY <2>3 DEF Start, OnDisk, Served
    <3>2. QED
      BY <3>1 DEF RefInv
  <2>4. CASE End
    <3>1. OnDisk' = OnDisk /\ Served' = OnDisk /\ cache' = Null /\ stale' = stale
      BY <2>4 DEF End, Ends, OnDisk, Served
    <3>2. QED
      BY <3>1, ResolvedWithin DEF RefInv
  <2>5. CASE UNCHANGED vars
    <3>1. OnDisk' = OnDisk /\ Served' = Served /\ cache' = cache /\ stale' = stale
      BY <2>5 DEF vars, OnDisk, Served
    <3>2. QED
      BY <3>1 DEF RefInv
  <2>6. QED
    BY <2>1, <2>2, <2>3, <2>4, <2>5 DEF Next
<1>3. QED
  BY <1>1, <1>2, TypeCorrect, PTL DEF Spec

(***************************************************************************)
(* Nothing in rbac.json or in the cache refers to a tenant or a role that  *)
(* was deleted, but for what an edit has named after the deletion.         *)
(***************************************************************************)
THEOREM DeletionsScrub == Spec => []ReferencesResolve
<1>1. RefInv => ReferencesResolve
  BY DEF RefInv, ReferencesResolve, OnDisk
<1>2. QED
  BY <1>1, RefInvariant, PTL

-----------------------------------------------------------------------------
(* What a user can do.                                                     *)

(* a grants no more than b: the same groups open and administer it, each   *)
(* principal has no more roles, each role no more tenants.                 *)
NoMore(a, b) ==
  /\ a.accessGroup = b.accessGroup /\ a.adminGroup = b.adminGroup
  /\ \A p \in DOMAIN a.assignments :
       p \in DOMAIN b.assignments /\ a.assignments[p] \subseteq b.assignments[p]
  /\ \A r \in DOMAIN a.roles :
       /\ r \in DOMAIN b.roles /\ a.roles[r].reports = b.roles[r].reports
       /\ \/ b.roles[r].tenants = AllTenants
          \/ /\ a.roles[r].tenants # AllTenants /\ b.roles[r].tenants # AllTenants
             /\ a.roles[r].tenants \subseteq b.roles[r].tenants

LEMMA NoMoreCan ==
  ASSUME NEW a, NEW b, NoMore(a, b), NEW u, NEW t, NEW rep, can(u, t, rep, a)
  PROVE  can(u, t, rep, b)
<1>1. isAdmin(u, a) = isAdmin(u, b)
  BY DEF NoMore, isAdmin, inGroup
<1>2. inGroup(u, a.accessGroup) = inGroup(u, b.accessGroup)
  BY DEF NoMore
<1>3. resolveRoles(u, a) \subseteq resolveRoles(u, b)
  BY DEF NoMore, resolveRoles
<1>4. hasToolAccess(u, b)
  BY <1>1, <1>2, <1>3 DEF can, hasToolAccess
<1>5. grantsTenant(u, t, a) => grantsTenant(u, t, b)
  BY <1>3 DEF NoMore, grantsTenant, allTenants, resolveRoles
<1>6. grantsReport(u, rep, a) => grantsReport(u, rep, b)
  BY <1>3 DEF NoMore, grantsReport, resolveRoles
<1>7. QED
  BY <1>1, <1>4, <1>5, <1>6 DEF can

(* Every deletion makes a store that grants no more.                       *)
LEMMA DeletesGrantNoMore ==
  ASSUME NEW s \in Stores
  PROVE  /\ \A t \in Tenants : NoMore(withoutTenant(s, t), s)
         /\ \A r \in Roles : NoMore(withoutRole(s, r), s)
         /\ \A p \in Principals : NoMore(withoutAssignment(s, p), s)
<1>1. \A r \in DOMAIN s.roles : s.roles[r] \in RoleEntries
  BY EntryType DEF Stores
<1>2. ASSUME NEW t \in Tenants
      PROVE  NoMore(withoutTenant(s, t), s)
  <2> DEFINE w == withoutTenant(s, t)
  <2>1. /\ w.accessGroup = s.accessGroup /\ w.adminGroup = s.adminGroup
        /\ w.assignments = s.assignments
        /\ w.roles = [r \in DOMAIN s.roles |-> scrubbed(s.roles[r], t)]
    BY DEF withoutTenant, Stores
  <2>2. \A r \in DOMAIN s.roles :
          /\ scrubbed(s.roles[r], t).reports = s.roles[r].reports
          /\ scrubbed(s.roles[r], t).tenants =
               IF s.roles[r].tenants = AllTenants THEN AllTenants ELSE s.roles[r].tenants \ {t}
    BY <1>1 DEF scrubbed, RoleEntries
  <2>3. \A r \in DOMAIN s.roles :
          s.roles[r].tenants # AllTenants => s.roles[r].tenants \ {t} # AllTenants
    BY <1>1, RbacAssumption DEF RoleEntries, TenantScopes, RbacAssumption
  <2> HIDE DEF w
  <2>4. NoMore(w, s)
    BY <2>1, <2>2, <2>3 DEF NoMore
  <2>5. QED
    BY <2>4 DEF w
<1>3. ASSUME NEW r \in Roles
      PROVE  NoMore(withoutRole(s, r), s)
  <2> DEFINE w == withoutRole(s, r)
  <2>1. /\ w.accessGroup = s.accessGroup /\ w.adminGroup = s.adminGroup
        /\ w.assignments = [p \in DOMAIN s.assignments |-> s.assignments[p] \ {r}]
        /\ w.roles = [i \in DOMAIN s.roles \ {r} |-> s.roles[i]]
    BY DEF withoutRole, Remove, Stores
  <2> HIDE DEF w
  <2>2. NoMore(w, s)
    BY <2>1 DEF NoMore
  <2>3. QED
    BY <2>2 DEF w
<1>4. ASSUME NEW p \in Principals
      PROVE  NoMore(withoutAssignment(s, p), s)
  <2> DEFINE w == withoutAssignment(s, p)
  <2>1. /\ w.accessGroup = s.accessGroup /\ w.adminGroup = s.adminGroup
        /\ w.assignments = [i \in DOMAIN s.assignments \ {p} |-> s.assignments[i]]
        /\ w.roles = s.roles
    BY DEF withoutAssignment, Remove, Stores
  <2> HIDE DEF w
  <2>2. NoMore(w, s)
    BY <2>1 DEF NoMore
  <2>3. QED
    BY <2>2 DEF w
<1>5. QED
  BY <1>2, <1>3, <1>4

(* What is on disk and in the cache has been normalized, so that a         *)
(* deletion does not bring back a group of the environment.                *)
Normal(s) == normalizeStore(s) = s

NormalInv == Normal(OnDisk) /\ (cache # Null => Normal(cache))

LEMMA EditKeepsNormal ==
  ASSUME TypeOK, NormalInv, NEW next \in Stores, NEW intent \in Stores,
         EditStep(next, intent)
  PROVE  NormalInv'
<1> DEFINE n == normalizeStore(next)
<1>1. /\ OnDisk \in Stores /\ Served \in Stores /\ n \in Stores /\ Normal(n)
      /\ Absent \notin Stores /\ Null \notin Stores
  BY ServedType, NormalizeType DEF Normal
<1>2. Normal(OnDisk) /\ Normal(Served)
  BY DEF NormalInv, Served
<1> HIDE DEF n
<1>3. CASE Saves(n, normalizeStore(intent))
  <2>1. OnDisk' = n /\ cache' = Served
    BY <1>1, <1>3 DEF Saves, OnDisk
  <2>2. QED
    BY <1>1, <1>2, <2>1 DEF NormalInv
<1>4. CASE SaveFails
  <2>1. OnDisk' = OnDisk /\ cache' = Served
    BY <1>1, <1>4 DEF SaveFails, OnDisk
  <2>2. QED
    BY <1>2, <2>1 DEF NormalInv
<1>5. CASE Interrupted(n)
  <2>1. cache' = Null /\ (OnDisk' = OnDisk \/ OnDisk' = n)
    BY <1>1, <1>5 DEF Interrupted, Ends, OnDisk
  <2>2. QED
    BY <1>1, <1>2, <2>1 DEF NormalInv
<1>6. QED
  BY <1>3, <1>4, <1>5 DEF n, EditStep, mutateStore

LEMMA NormalInvariant == Spec => []NormalInv
<1>1. Init => NormalInv
  <2>1. Normal(Seed)
    BY DEF Normal, normalizeStore, Seed
  <2>2. QED
    BY <2>1 DEF Init, NormalInv, OnDisk
<1>2. TypeOK /\ NormalInv /\ [Next]_vars => NormalInv'
  <2> SUFFICES ASSUME TypeOK, NormalInv, [Next]_vars PROVE NormalInv'
    OBVIOUS
  <2>1. CASE SaveTenant \/ SaveRole \/ SaveAssignment \/ SaveGroups \/ Deletes
    BY <2>1, RoutesAreEdits, EditKeepsNormal
  <2>2. CASE getStore
    <3>1. OnDisk' = OnDisk /\ cache' = Served
      BY <2>2, ServedType DEF getStore, OnDisk
    <3>2. Normal(Served)
      BY DEF NormalInv, Served
    <3>3. QED
      BY <3>1, <3>2 DEF NormalInv
  <2>3. CASE Start \/ End
    <3>1. OnDisk' = OnDisk /\ (cache' = cache \/ cache' = Null)
      BY <2>3 DEF Start, End, Ends, OnDisk
    <3>2. QED
      BY <3>1 DEF NormalInv
  <2>4. CASE UNCHANGED vars
    BY <2>4 DEF vars, NormalInv, OnDisk
  <2>5. QED
    BY <2>1, <2>2, <2>3, <2>4 DEF Next
<1>3. QED
  BY <1>1, <1>2, TypeCorrect, PTL DEF Spec

(* Whichever way an edit ends, the file is what it was or what the edit    *)
(* has made of it.                                                         *)
LEMMA FileAfterEdit ==
  ASSUME NEW next, NEW intent, mutateStore(next, intent)
  PROVE  file' = normalizeStore(next) \/ file' = OnDisk
BY DEF mutateStore, Saves, SaveFails, Interrupted

(***************************************************************************)
(* Deleting a tenant, a role or an assignment lets nobody do what they     *)
(* could not do before, whatever references there are and however the save *)
(* ends.                                                                   *)
(***************************************************************************)
THEOREM DeletionsRevoke == Spec => DeletesOnlyRevoke
<1> DEFINE Revokes ==
      \A u \in Users, t \in Tenants \cup {Null}, rep \in Reports \cup {Null} :
        ~can(u, t, rep, Served) => ~can(u, t, rep, file')
<1>1. ASSUME TypeOK, TakeInv, NormalInv, Deletes, ~collided
      PROVE  Revokes
  <2>1. Served \in Stores /\ OnDisk = Served /\ Normal(Served)
    BY <1>1, ServedType DEF TakeInv, NormalInv
  <2>2. ASSUME NEW w, NEW intent, NoMore(w, Served), normalizeStore(w) = w,
               mutateStore(w, intent)
        PROVE  Revokes
    <3>1. file' = w \/ file' = Served
      BY <2>1, <2>2, FileAfterEdit
    <3>2. QED
      BY <2>2, <3>1, NoMoreCan
  <2>3. CASE DeleteTenant
    <3>1. PICK t \in Tenants : mutateStore(withoutTenant(Served, t), withoutTenant(intended, t))
      BY <2>3 DEF DeleteTenant
    <3>2. normalizeStore(withoutTenant(Served, t)) = withoutTenant(Served, t)
      BY <2>1 DEF Normal, normalizeStore, withoutTenant, Stores
    <3>3. QED
      BY <2>1, <2>2, <3>1, <3>2, DeletesGrantNoMore
  <2>4. CASE DeleteRole
    <3>1. PICK r \in Roles : mutateStore(withoutRole(Served, r), withoutRole(intended, r))
      BY <2>4 DEF DeleteRole
    <3>2. normalizeStore(withoutRole(Served, r)) = withoutRole(Served, r)
      BY <2>1 DEF Normal, normalizeStore, withoutRole, Stores
    <3>3. QED
      BY <2>1, <2>2, <3>1, <3>2, DeletesGrantNoMore
  <2>5. CASE DeleteAssignment
    <3>1. PICK p \in Principals :
            mutateStore(withoutAssignment(Served, p), withoutAssignment(intended, p))
      BY <2>5 DEF DeleteAssignment
    <3>2. normalizeStore(withoutAssignment(Served, p)) = withoutAssignment(Served, p)
      BY <2>1 DEF Normal, normalizeStore, withoutAssignment, Stores
    <3>3. QED
      BY <2>1, <2>2, <3>1, <3>2, DeletesGrantNoMore
  <2>6. QED
    BY <1>1, <2>3, <2>4, <2>5 DEF Deletes
<1>2. TypeOK /\ TakeInv /\ NormalInv /\ [Next]_vars => [Deletes /\ ~collided => Revokes]_vars
  BY <1>1
<1>3. QED
  BY <1>2, TypeCorrect, TakeInvariant, NormalInvariant, PTL DEF Spec, DeletesOnlyRevoke

(***************************************************************************)
(* A tenant saved under an id that was deleted before is open only to      *)
(* those whom a role gives every tenant, and to admins.                    *)
(***************************************************************************)
THEOREM NewTenantsArePrivate == Spec => NewTenantIsPrivate
<1> DEFINE Private ==
      \A u \in Users, t \in file'.tenants \ Served.tenants :
        t \in allowedTenants(u, file') => isAdmin(u, file') \/ allTenants(u, file')
<1>1. ASSUME TypeOK, RefInv, SaveTenant, ~stale
      PROVE  Private
  <2>1. Served \in Stores
    BY <1>1, ServedType
  <2>2. PICK new \in Tenants : mutateStore(withTenant(Served, new), withTenant(intended, new))
    BY <1>1 DEF SaveTenant
  <2>3. Resolved(Served)
    BY <1>1 DEF RefInv, Served
  <2>4. RolesWithin(normalizeStore(withTenant(Served, new)), Served.tenants)
    BY <2>1, <2>3, TenantEditType, TenantEditRefs, NormalRefs DEF KeepsRefs
  <2>5. RolesWithin(file', Served.tenants)
    BY <1>1, <2>2, <2>4, FileAfterEdit DEF RefInv
  <2>6. QED
    BY <2>5 DEF RolesWithin, allowedTenants, grantsTenant, resolveRoles
<1>2. TypeOK /\ RefInv /\ [Next]_vars => [SaveTenant /\ ~stale => Private]_vars
  BY <1>1
<1>3. QED
  BY <1>2, TypeCorrect, RefInvariant, PTL DEF Spec, NewTenantIsPrivate

(* A user who has no other name, no other groups and no more of a          *)
(* directory role can do no more.                                          *)
LEMMA CanIsMonotone ==
  ASSUME NEW u, NEW v, NEW s, NEW t, NEW rep,
         u.upn = v.upn \/ u.upn = Null, u.groups \subseteq v.groups, u.isAdmin => v.isAdmin,
         can(u, t, rep, s)
  PROVE  can(v, t, rep, s)
<1>1. isAdmin(u, s) => isAdmin(v, s)
  BY DEF isAdmin, inGroup
<1>2. CASE isAdmin(u, s)
  BY <1>1, <1>2 DEF can, hasToolAccess
<1>3. CASE ~isAdmin(u, s)
  <2>1. u.upn = v.upn /\ u.upn # Null
    BY <1>3 DEF can, hasToolAccess
  <2>2. resolveRoles(u, s) \subseteq resolveRoles(v, s)
    BY <2>1 DEF resolveRoles
  <2>3. hasToolAccess(v, s)
    BY <1>3, <2>1, <2>2 DEF can, hasToolAccess, inGroup
  <2>4. grantsTenant(u, t, s) => grantsTenant(v, t, s)
    BY <2>2 DEF grantsTenant, allTenants
  <2>5. grantsReport(u, rep, s) => grantsReport(v, rep, s)
    BY <2>2 DEF grantsReport
  <2>6. QED
    BY <1>3, <2>3, <2>4, <2>5 DEF can
<1>4. QED
  BY <1>2, <1>3

(* The user whom decodePrincipal makes of a request with the given claims. *)
LEMMA Decoded ==
  ASSUME NEW r, NEW claims \in Claims,
         claims = IF r.blob \in {Absent, Malformed} THEN NoClaims ELSE r.blob
  PROVE  /\ decodePrincipal(r).upn = IF r.name # Null THEN r.name ELSE claims.upn
         /\ decodePrincipal(r).groups = claims.groups
         /\ decodePrincipal(r).isAdmin <=>
              (claims.wids \/ (EnvAdmin # Null /\ EnvAdmin \in claims.groups))
BY Zenon DEF decodePrincipal

(***************************************************************************)
(* A request whose claims are lost, or whose groups are withheld, is that  *)
(* of the same user with fewer rights, never with more: in every store.    *)
(***************************************************************************)
THEOREM ClaimsOnlyGrant == Spec => []LostClaimsOnlyRestrict
<1>1. ASSUME NEW r \in Requests, r.blob # Absent, NEW weak \in Weaker(r)
      PROVE  /\ \/ userMiddleware(weak).upn = userMiddleware(r).upn
                \/ userMiddleware(weak).upn = Null
             /\ userMiddleware(weak).groups \subseteq userMiddleware(r).groups
             /\ userMiddleware(weak).isAdmin => userMiddleware(r).isAdmin
  <2>1. r \in Headers /\ Absent # Malformed /\ Absent \notin Claims /\ Malformed \notin Claims
    BY AccessAssumption DEF AccessAssumption
  <2>2. userMiddleware(r) = decodePrincipal(r)
    BY <1>1 DEF userMiddleware, hasEasyAuth
  <2>3. CASE weak = [r EXCEPT !.blob = Malformed]
    <3>1. weak.name = r.name /\ weak.blob = Malformed
      BY <2>1, <2>3 DEF Headers
    <3>2. userMiddleware(weak) = decodePrincipal(weak)
      BY <2>1, <3>1 DEF userMiddleware, hasEasyAuth
    <3>3. /\ NoClaims \in Claims /\ NoClaims.upn = Null /\ NoClaims.groups = {}
          /\ ~NoClaims.wids
      BY DEF NoClaims, Claims
    <3>4. /\ decodePrincipal(weak).groups = {} /\ ~decodePrincipal(weak).isAdmin
          /\ decodePrincipal(weak).upn = IF r.name # Null THEN r.name ELSE Null
      BY <3>1, <3>3, Decoded
    <3>5. r.blob \in Claims \cup {Malformed}
      BY <1>1, <2>1 DEF Headers
    <3>6. r.name # Null => decodePrincipal(r).upn = r.name
      BY <2>1, <3>3, <3>5, Decoded
    <3>7. QED
      BY <2>2, <3>2, <3>4, <3>6
  <2>4. CASE weak # [r EXCEPT !.blob = Malformed]
    <3>1. /\ r.blob # Malformed
          /\ weak = [r EXCEPT !.blob = [r.blob EXCEPT !.groups = {}, !.overage = TRUE]]
      BY <1>1, <2>1, <2>4 DEF Weaker, Headers, Claims
    <3>2. r.blob \in Claims
      BY <1>1, <2>1, <3>1 DEF Headers
    <3>3. /\ weak.name = r.name /\ weak.blob \in Claims
          /\ weak.blob.upn = r.blob.upn /\ weak.blob.groups = {}
          /\ weak.blob.wids = r.blob.wids
      BY <2>1, <3>1, <3>2 DEF Headers, Claims
    <3>4. userMiddleware(weak) = decodePrincipal(weak)
      BY <2>1, <3>3 DEF userMiddleware, hasEasyAuth
    <3>5. /\ decodePrincipal(weak).upn = decodePrincipal(r).upn
          /\ decodePrincipal(weak).groups = {}
      BY <2>1, <3>2, <3>3, Decoded
    <3>6. decodePrincipal(weak).isAdmin => decodePrincipal(r).isAdmin
      BY <2>1, <3>2, <3>3, Decoded
    <3>7. QED
      BY <2>2, <3>4, <3>5, <3>6
  <2>5. QED
    BY <2>3, <2>4
<1>2. LostClaimsOnlyRestrict
  BY <1>1, CanIsMonotone DEF LostClaimsOnlyRestrict
<1>3. QED
  BY <1>2, PTL
=============================================================================
