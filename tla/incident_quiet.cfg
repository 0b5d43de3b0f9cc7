\* One client at a time and no fault: what a well-behaved deployment sees.
CONSTANTS
  eng = eng
  adm = adm
  lead = lead
  restart = restart
  view = view
  a1 = a1
  None = None
  Users <- MCUsers
  Roles <- MCRoles
  Plans <- MCPlans
  Effect <- MCEffect
  Actors = {a1}
  ExecutorOn = TRUE
  Ttl = 1
  MaxQuality = 3
  MaxTime = 2
  PolicyOn = FALSE
  Requests = {r1, r2, r3}
  Deployments = {TRUE}
  Serial = TRUE
  Faults = {}
SPECIFICATION FairSpec
INVARIANT UnexecutedReportIsTrue
INVARIANT AuditedVerdict
PROPERTY Settles
PROPERTY DecisionTakesEffect
CHECK_DEADLOCK FALSE
