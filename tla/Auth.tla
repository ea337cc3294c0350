-------------------------------- MODULE Auth --------------------------------
(***************************************************************************)
(* auth.js: the user of a request, from the headers that Easy Auth sets.   *)
(* A header may be missing, its blob may be malformed, and the claims of a *)
(* user in too many groups hold a marker instead of the groups.            *)
(***************************************************************************)
EXTENDS Rbac

CONSTANTS
  Hosted,     \* DOCKER_MODE
  EnvAdmin,   \* ADMIN_GROUP_ID, or Null
  LocalDev,   \* local-dev@localhost
  Absent,     \* no such header, no such file
  Malformed   \* a blob that is not base64 of JSON with claims

(* wids: whether a directory role of ADMIN_ROLE_IDS is among the claims.   *)
Claims ==
  [upn : Upns \cup {Null}, groups : SUBSET Groups, wids : BOOLEAN, overage : BOOLEAN]

Headers == [name : Upns \cup {Null}, blob : Claims \cup {Absent, Malformed}]

NoClaims == [upn |-> Null, groups |-> {}, wids |-> FALSE, overage |-> FALSE]

decodePrincipal(req) ==
  LET claims == IF req.blob \in {Absent, Malformed} THEN NoClaims ELSE req.blob
  IN  [upn |-> IF req.name # Null THEN req.name ELSE claims.upn,
       groups |-> claims.groups,
       groupsOverage |-> claims.overage,
       isAdmin |-> claims.wids \/ (EnvAdmin # Null /\ EnvAdmin \in claims.groups)]

hasEasyAuth(req) == req.name # Null \/ req.blob # Absent

(* A request without the headers is one of the local user, who is an       *)
(* admin, or in the container an anonymous one.                            *)
userMiddleware(req) ==
  IF hasEasyAuth(req) THEN decodePrincipal(req)
  ELSE [upn |-> IF Hosted THEN Null ELSE LocalDev,
        groups |-> {}, groupsOverage |-> FALSE, isAdmin |-> ~Hosted]
=============================================================================
