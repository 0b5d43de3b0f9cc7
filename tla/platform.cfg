\* Two processes one after the other, two runs of the loop over one task.
CONSTANTS
  c1 = c1
  c2 = c2
  Callers = {c1, c2}
  Tasks = {"t1"}
  MaxFix = 1
  Firmwares <- MCFirmwares
  NoPatch = NoPatch
  PlatformPermissions <- Permissions
  Gated = TRUE
  Rules <- MCRules
  Tools <- DefaultTools
  Specs <- MCSpecs
  Preloads <- MCPreloads
  Bindings <- MCBindings
  Users <- MCUsers
  Plans <- MCPlans
  Queries <- MCQueries
  MaxStarts = 2
SYMMETRY Symmetry
SPECIFICATION Spec
INVARIANT PacksAreUsable
INVARIANT StrictestWins
INVARIANT ReportIsBacked
CHECK_DEADLOCK FALSE
