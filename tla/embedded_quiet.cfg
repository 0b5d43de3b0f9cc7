\* One request at a time and no fault: the whole debug loop, and that it ends.
CONSTANTS
  Requests = {r1, r2, r3}
  MaxFix = 2
  Registries = {{"mcu_catalog_lookup", "esp32_compile"}}
  Clients = 1
  Faults = {}
SPECIFICATION FairSpec
INVARIANT StatusAgrees
INVARIANT ManifestIsComplete
PROPERTY DecisionEndsTask
CHECK_DEADLOCK FALSE
