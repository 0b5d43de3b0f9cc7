\* Requests one after the other, with failing stores, disconnects and restarts.
CONSTANTS
  Requests = {r1, r2, r3}
  None = None
  MaxAttempts = 2
  MaxDisturbed = 2
  Serial = TRUE
  Faults = {"trace", "audit", "disconnect", "restart"}
SPECIFICATION Spec
SYMMETRY RequestSymmetry
INVARIANT SavedIsTraced
INVARIANT ActionsAreAnnounced
INVARIANT ResumeSharesTrace
INVARIANT OpenSpanMeansFault
INVARIANT DashboardIsTrue
PROPERTY FinishedOnce
CHECK_DEADLOCK FALSE
