\* One client at a time, every fault, process restarts with and without authentication.
CONSTANTS
  eng = eng
  adm = adm
  lead = lead
  restart = restart
  view = view
  a1 = a1
  None = None
  Users <- MCUsers
  Roles <- MCRoles
  Plans <- MCPlans
  Effect <- MCEffect
  Actors = {a1}
  ExecutorOn = TRUE
  Ttl = 1
  MaxQuality = 2
  MaxTime = 2
  PolicyOn = FALSE
  Requests = {r1, r2, r3}
  Deployments = {TRUE, FALSE}
  Serial = TRUE
  Faults = {"raise", "disconnect", "restart"}
SYMMETRY RequestSymmetry
SPECIFICATION Spec
INVARIANT TypeOK
INVARIANT RbacChain
INVARIANT ResultIsBacked
PROPERTY KeepsIncident
CHECK_DEADLOCK FALSE
