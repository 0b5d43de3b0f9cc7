\* An approval and a rejection race.
CONSTANTS
  eng = eng
  adm = adm
  lead = lead
  restart = restart
  view = view
  a1 = a1
  None = None
  Users <- MCUsers
  Roles <- MCRoles
  Plans <- MCPlans
  Effect <- MCEffect
  Actors = {a1}
  ExecutorOn = TRUE
  Ttl = 1
  MaxQuality = 2
  MaxTime = 2
  PolicyOn = FALSE
  Requests = {r1, r2, r3}
  Deployments = {FALSE}
  Serial = FALSE
  Faults = {}
SPECIFICATION Spec
INVARIANT UnexecutedReportIsTrue
CHECK_DEADLOCK FALSE
