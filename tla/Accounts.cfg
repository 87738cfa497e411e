CONSTANTS
  Gone = Gone
  None = None
  Over = Over
  Requests = {r1, r2}
  admin = admin
  bob = bob
  ann = ann
  Ann = Ann
  ldap = ldap
  group = group
  Names = {admin, bob, ann, Ann}
  Folded <- MCFolded
  Factory = admin
  Servers = {ldap}
  Groups = {group}
  AccountRows <- MCAccountRows
  MaxRequests = 3
  Browsers = {r1, r2}
  MaxFailed = 2
  DisableAfter = 3
  MaxWrongCodes = 2
  MaxSteps = 7
  People = {w1, w2}
  Sids = {1, 2, 3}
  MaxVisits = 2
  IdleLimit = 2
  Absolute = 3
  MaxTime = 3
  u1 = u1
  u2 = u2
  d1 = d1
  d2 = d2
  p1 = p1
  p2 = p2
  p3 = p3
  c1 = c1
  c2 = c2
  Owners = {u1, u2}
  Admins = {u1}
  Devices = {d1, d2}
  Profiles = {p1, p2, p3}
  Credentials = {c1, c2}
  InventoryRows <- MCInventoryRows
  MaxEdits = 2
  Jobs = {j1}
  Savers = {r1, r2}
  Day = 2
  RunAt = 1
  Retry = 1
  Days = {1, 2, 3}
  Default <- MCDefault
  MaxNights = 6
SPECIFICATION Spec
PROPERTIES AccountsSafe SignInSafe SessionsSafe InventorySafe RetentionSafe
CHECK_DEADLOCK FALSE
SYMMETRY Symmetry
