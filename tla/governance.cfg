\* Two callers at a time, three requests and two facts in any order.
CONSTANTS
  i1 = i1
  i2 = i2
  g1 = g1
  g2 = g2
  All = All
  Callers = {g1, g2}
  Incidents = {i1, i2}
  Facts <- MCFacts
  Requests <- MCRequests
  MaxFacts = 2
  MaxRequests = 3
SPECIFICATION Spec
INVARIANT SyncIsComplete
INVARIANT ReportCoversItsEvidence
INVARIANT RiskSeesHistory
CHECK_DEADLOCK FALSE
