SPECIFICATION ASpec
CONSTANTS
  r1 = r1
  r2 = r2
  u = u
  k = k
  t1 = t1
  t2 = t2
  ghost = ghost
  boss = boss
  clerk = clerk
  Nobody = Nobody
  Requests = {r1, r2}
  Kinds <- MCKinds
  Levels = {"destructive"}
  Configs <- MCConfigs
  Grants = {{t2}}
  NewRoles = {"admin", "viewer"}
  MaxRequests = 2
  Users = {u}
  Keys = {k}
  Tools = {t1, t2}
  Classified <- MCClassified
  Home <- MCHome
  KeyScope <- MCKeyScope
  Headers <- MCHeaders
  Plans <- MCPlans
  Providers = 2
  MaxSteps = 2
  Cap = 1
  Editors <- MCEditors
  MaxWrites = 2
INVARIANTS CallsWereEntitled  SessionCapHolds
PROPERTIES RolesChangeOnlyByAdmins

CHECK_DEADLOCK FALSE
