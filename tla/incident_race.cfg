\* Requests race, the policy engine is on. No other fault.
CONSTANTS
  eng = eng
  adm = adm
  lead = lead
  restart = restart
  view = view
  a1 = a1
  None = None
  Users <- MCRaceUsers
  Roles <- MCRaceRoles
  Plans <- MCPlans
  Effect <- MCEffect
  Actors = {a1}
  ExecutorOn = TRUE
  Ttl = 1
  MaxQuality = 1
  MaxTime = 1
  PolicyOn = TRUE
  Requests = {r1, r2, r3}
  Deployments = {TRUE}
  Serial = FALSE
  Faults = {}
SYMMETRY RequestSymmetry
SPECIFICATION Spec
INVARIANT ApprovedWhenActing
CHECK_DEADLOCK FALSE
