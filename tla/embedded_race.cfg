\* Racing decisions, nodes that fail and process restarts over kept artifacts.
CONSTANTS
  Requests = {r1, r2, r3}
  MaxFix = 1
  Registries = {{"mcu_catalog_lookup", "esp32_compile"}, {"mcu_catalog_lookup"}, {}}
  Clients = 2
  Faults = {"raise", "restart"}
SPECIFICATION Spec
SYMMETRY RequestSymmetry
INVARIANT TypeOK
INVARIANT PassedIsVerified
INVARIANT CompletedIsEarned
INVARIANT AttemptsAreLogged
CHECK_DEADLOCK FALSE
