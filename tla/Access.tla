------------------------------- MODULE Access -------------------------------
(***************************************************************************)
(* The authorization store (rbac.js: rbac.json, its cache) and the admin   *)
(* API that edits it (server.js): every edit clones what getStore() serves,*)
(* changes the clone and saves it.                                         *)
(*                                                                         *)
(* Saves are told apart by the modification time of the file alone. What   *)
(* an edit names was picked from an admin page that may be out of date.    *)
(***************************************************************************)
EXTENDS Auth, Naturals

CONSTANTS
  Requests,      \* the headers of the requests there are
  Seeded,        \* the tenants of config.json
  EnvAccess,     \* ACCESS_GROUP_ID, or Null
  PickReports,   \* bound: the report scopes an admin picks from
  MaxEdits       \* bound: edits asked for

ASSUME AccessAssumption ==
  /\ Requests \subseteq Headers /\ Hosted \in BOOLEAN
  /\ Seeded \subseteq Tenants
  /\ EnvAccess \in Groups \cup {Null} /\ EnvAdmin \in Groups \cup {Null}
  /\ PickReports \subseteq ReportScopes
  /\ Null \notin Stores /\ Absent \notin Stores
  /\ Absent \notin Claims /\ Malformed \notin Claims /\ Absent # Malformed
  /\ MaxEdits \in Nat

VARIABLES
  file,      \* rbac.json
  cache,     \* _cache
  current,   \* _mtimeMs is the modification time of rbac.json
  up,        \* the server runs
  edits,     \* edits asked for
  intended,  \* history: every acknowledged edit, applied in order
  collided,  \* history: two saves have left the same modification time
  stale      \* history: an edit has named a tenant or role that was not there

vars == <<file, cache, current, up, edits, intended, collided, stale>>

Users == {userMiddleware(r) : r \in Requests}

Seed ==
  [accessGroup |-> EnvAccess, adminGroup |-> EnvAdmin, tenants |-> Seeded,
   roles |-> [r \in {} |-> Null], assignments |-> [p \in {} |-> Null]]

TypeOK ==
  /\ file \in Stores \cup {Absent}
  /\ cache \in Stores \cup {Null}
  /\ current \in BOOLEAN /\ up \in BOOLEAN /\ edits \in 0..MaxEdits
  /\ intended \in Stores /\ collided \in BOOLEAN /\ stale \in BOOLEAN

Init ==
  /\ file = Absent
  /\ cache = Null /\ current = FALSE
  /\ up = FALSE /\ edits = 0
  /\ intended = Seed /\ collided = FALSE /\ stale = FALSE
-----------------------------------------------------------------------------
(* What is on disk and in the cache once getStore() has returned: loadStore*)
(* saves the seed when there is no file.                                   *)
OnDisk == IF file = Absent THEN Seed ELSE file

(* Mutant of Served: the cache is loaded once.                             *)
Served_Once == IF cache # Null THEN cache ELSE OnDisk

(* The store every request is decided by.                                  *)
Served == IF cache # Null /\ current THEN cache ELSE OnDisk

getStore ==
  /\ up
  /\ file' = OnDisk /\ cache' = Served /\ current' = TRUE
  /\ UNCHANGED <<up, edits, intended, collided, stale>>

(* normalizeStore, for a store of this version: a group id that is null    *)
(* becomes the one of the environment.                                     *)
normalizeStore(s) ==
  [s EXCEPT !.accessGroup = IF @ = Null THEN EnvAccess ELSE @,
            !.adminGroup = IF @ = Null THEN EnvAdmin ELSE @]

(* An edit, given the store it makes of what is served and what it makes   *)
(* of what is intended: it is saved and acknowledged; or the save fails    *)
(* and is reported; or the server ends in the middle of it, before or      *)
(* after the rename. A save may leave the time the file had before.        *)
Ends ==
  /\ cache' = Null
  /\ current' = FALSE
  /\ up' = FALSE

Saves(next, intent) ==
  /\ file' = next
  /\ cache' = Served
  /\ current' \in BOOLEAN
  /\ collided' = (collided \/ current')
  /\ intended' = intent
  /\ UNCHANGED up

SaveFails ==
  /\ file' = OnDisk
  /\ cache' = Served
  /\ current' = TRUE
  /\ UNCHANGED <<up, intended, collided>>

(* Mutant of Interrupted: rbac.json is written in place.                   *)
Interrupted_InPlace(next) ==
  /\ Ends
  /\ file' \in {next, Null}
  /\ intended' = next
  /\ UNCHANGED collided

Interrupted(next) ==
  /\ Ends
  /\ file' \in {next, OnDisk}
  /\ intended' = file'
  /\ UNCHANGED collided

requireAdmin == \E u \in Users : isAdmin(u, Served)

mutateStore(next, intent) ==
  /\ up /\ requireAdmin
  /\ edits < MaxEdits
  /\ edits' = edits + 1
  /\ \/ Saves(normalizeStore(next), normalizeStore(intent))
     \/ SaveFails
     \/ Interrupted(normalizeStore(next))
-----------------------------------------------------------------------------
(* The routes of the admin API. A list keyed by id, with one entry         *)
(* replaced or added, or removed:                                          *)
Put(list, id, entry) ==
  [i \in DOMAIN list \cup {id} |-> IF i = id THEN entry ELSE list[i]]

Remove(list, id) == [i \in DOMAIN list \ {id} |-> list[i]]

withTenant(s, t) == [s EXCEPT !.tenants = @ \cup {t}]

(* Mutant of withoutTenant: the roles are not scrubbed.                    *)
withoutTenant_Unscrubbed(s, t) == [s EXCEPT !.tenants = @ \ {t}]

(* Mutant of withoutTenant: a role scrubbed of its last tenant is taken to *)
(* have no restriction.                                                    *)
withoutTenant_EmptyIsAll(s, t) ==
  [s EXCEPT !.tenants = @ \ {t},
            !.roles = [r \in DOMAIN @ |->
                         [@[r] EXCEPT !.tenants = IF @ \in {AllTenants, {t}} THEN AllTenants
                                                  ELSE @ \ {t}]]]

scrubbed(role, t) ==
  [role EXCEPT !.tenants = IF @ = AllTenants THEN AllTenants ELSE @ \ {t}]

withoutTenant(s, t) ==
  [s EXCEPT !.tenants = @ \ {t},
            !.roles = [r \in DOMAIN @ |-> scrubbed(@[r], t)]]

withRole(s, r, tenants, reports) ==
  [s EXCEPT !.roles =
     Put(@, r, [tenants |-> tenants, reports |-> reports])]

(* Mutant of withoutRole: the assignments are not scrubbed.                *)
withoutRole_Unscrubbed(s, r) == [s EXCEPT !.roles = Remove(@, r)]

withoutRole(s, r) ==
  [s EXCEPT !.roles = Remove(@, r),
            !.assignments = [p \in DOMAIN @ |-> @[p] \ {r}]]

withAssignment(s, p, roles) == [s EXCEPT !.assignments = Put(@, p, roles)]

withoutAssignment(s, p) == [s EXCEPT !.assignments = Remove(@, p)]

withGroups(s, access, admin) ==
  [s EXCEPT !.accessGroup = access, !.adminGroup = admin]

SaveTenant ==
  /\ \E t \in Tenants : mutateStore(withTenant(Served, t), withTenant(intended, t))
  /\ UNCHANGED stale

DeleteTenant ==
  /\ \E t \in Tenants : mutateStore(withoutTenant(Served, t), withoutTenant(intended, t))
  /\ UNCHANGED stale

(* No route looks whether the tenants or roles it is sent exist.           *)
SaveRole ==
  \E r \in Roles, tenants \in TenantScopes, rep \in PickReports :
    /\ mutateStore(withRole(Served, r, tenants, rep), withRole(intended, r, tenants, rep))
    /\ stale' = (stale \/ tenants \notin {AllTenants} \cup SUBSET Served.tenants)

DeleteRole ==
  /\ \E r \in Roles : mutateStore(withoutRole(Served, r), withoutRole(intended, r))
  /\ UNCHANGED stale

SaveAssignment ==
  \E p \in Principals, roles \in SUBSET Roles :
    /\ mutateStore(withAssignment(Served, p, roles), withAssignment(intended, p, roles))
    /\ stale' = (stale \/ ~(roles \subseteq DOMAIN Served.roles))

DeleteAssignment ==
  /\ \E p \in Principals :
       mutateStore(withoutAssignment(Served, p), withoutAssignment(intended, p))
  /\ UNCHANGED stale

SaveGroups ==
  /\ \E access, admin \in Groups \cup {Null} :
       mutateStore(withGroups(Served, access, admin), withGroups(intended, access, admin))
  /\ UNCHANGED stale
-----------------------------------------------------------------------------
(* The server starts, with an empty cache; its call of initStore is the    *)
(* getStore of a request. It may end between any two requests.             *)
Start ==
  /\ ~up
  /\ up' = TRUE
  /\ UNCHANGED <<file, cache, current, edits, intended, collided, stale>>

End ==
  /\ up /\ Ends
  /\ UNCHANGED <<file, edits, intended, collided, stale>>

Deletes == DeleteTenant \/ DeleteRole \/ DeleteAssignment

Next ==
  \/ SaveTenant \/ SaveRole \/ SaveAssignment \/ SaveGroups
  \/ Deletes
  \/ getStore
  \/ Start \/ End

Spec == Init /\ [][Next]_vars
-----------------------------------------------------------------------------
(* Properties. *)

(* server.js:835 "so edits take effect live": the store the next request   *)
(* is decided by has every acknowledged edit in it, and none that failed,  *)
(* through failing saves, crashes and restarts; unless two saves have left *)
(* the same modification time, which getStore (rbac.js:113) cannot tell    *)
(* apart.                                                                  *)
EditsTakeEffect == ~collided => Served = intended

(* server.js:920, :945: what is deleted is scrubbed from what refers to    *)
(* it, in rbac.json and in what is served, even after saves with the same  *)
(* time: only an edit that names what is not there (made on a page that    *)
(* was loaded before a deletion) brings such a reference back.             *)
Resolved(s) ==
  /\ \A r \in DOMAIN s.roles : s.roles[r].tenants \in {AllTenants} \cup SUBSET s.tenants
  /\ \A p \in DOMAIN s.assignments : s.assignments[p] \subseteq DOMAIN s.roles

ReferencesResolve ==
  ~stale =>
    /\ file # Absent => Resolved(file)
    /\ cache # Null => Resolved(cache)

(* So a tenant saved under an id that was deleted before is open only to   *)
(* those whom a role gives every tenant, and to admins.                    *)
NewTenantIsPrivate ==
  [][~stale /\ SaveTenant =>
       \A u \in Users, t \in file'.tenants \ Served.tenants :
         t \in allowedTenants(u, file') => isAdmin(u, file') \/ allTenants(u, file')]_vars

(* Deleting a tenant, a role or an assignment lets nobody do what they     *)
(* could not do before, whatever the references (with saves of the same    *)
(* time it may bring back what the save before it has removed).            *)
DeletesOnlyRevoke ==
  [][~collided /\ Deletes =>
       \A u \in Users, t \in Tenants \cup {Null}, rep \in Reports \cup {Null} :
         ~can(u, t, rep, Served) => ~can(u, t, rep, file')]_vars

(* auth.js:61 "malformed blob", :76 "Group overage": a request whose claims*)
(* are lost, or whose groups are withheld, is that of the same user with   *)
(* fewer rights, never with more.                                          *)
Weaker(r) ==
  {[r EXCEPT !.blob = Malformed]} \cup
  (IF r.blob = Malformed THEN {} ELSE {[r EXCEPT !.blob.groups = {}, !.blob.overage = TRUE]})

LostClaimsOnlyRestrict ==
  \A r \in Requests : r.blob # Absent =>
    \A weak \in Weaker(r), t \in Tenants \cup {Null}, rep \in Reports \cup {Null} :
      can(userMiddleware(weak), t, rep, Served) => can(userMiddleware(r), t, rep, Served)
=============================================================================
