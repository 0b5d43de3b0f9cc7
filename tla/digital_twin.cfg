\* Four devices, networks with and without redundant ways, one change.
CONSTANTS
  e = e
  a = a
  b = b
  c = c
  Devices = {e, a, b, c}
  Profiles <- MCProfiles
  Networks <- MCNetworks
  Entries <- MCEntries
  Default = Default
  None = None
  Refused = Refused
  MaxTime = 1
SPECIFICATION Spec
INVARIANT PropagationIsExact
INVARIANT ImpactIsConsistent
CHECK_DEADLOCK FALSE
