SPECIFICATION AdminSpec
CONSTANTS
  admin = admin
  gary = gary
  team = team
  shared = shared
  k1 = k1
  k2 = k2
  k3 = k3
  t1 = t1
  t2 = t2
  r1 = r1
  r2 = r2
  Users = {admin, gary}
  AdminUser = admin
  Groups = {team}
  KeyIds = {k1, k2, k3}
  Tokens = {t1, t2}
  RoleSets <- MCRoleSets
  RoleNames = {"auditor"}
  Grants <- MCGrants
  Anything = Anything
  None = None
  Requests = {r1, r2}
  Profiles = {"hr"}
  Collections = {shared}
  Sources = {"drive"}
  AccessLists <- MCAccessLists
  Missing = Missing
  Seed <- MCSeed
  PolicyChanges <- MCPolicyChanges
  MaxRequests = 3
  MaxRestarts = 1
INVARIANTS
  KeysMatchStore
  GrantsReachEngine
  AccessListsAgree
  SeedConverges
  GateMatchesRule
  DoorsAgree
SYMMETRY MCSymmetry
CHECK_DEADLOCK FALSE
