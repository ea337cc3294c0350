SPECIFICATION Spec
CONSTANTS
  u = u
  v = v
  g = g
  rep = rep
  area = area
  tenant = tenant
  other = other
  Upns = {u, v}
  Groups = {g}
  Tenants = {tenant, other}
  Roles = {role}
  Reports = {rep}
  Areas = {area}
  AllTenants = {everything}
  AllReports = AllReports
  Null = Null
  Hosted = TRUE
  EnvAccess = g
  EnvAdmin = Null
  LocalDev = LocalDev
  Absent = Absent
  Malformed = Malformed
  AreaOf <- MCAreaOf
  Requests <- MCRequests
  Seeded <- MCSeeded
  PickReports <- MCPickReports
  MaxEdits = 4
INVARIANTS TypeOK EditsTakeEffect ReferencesResolve LostClaimsOnlyRestrict
PROPERTIES NewTenantIsPrivate DeletesOnlyRevoke
CHECK_DEADLOCK FALSE
