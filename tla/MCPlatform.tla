------------------------------ MODULE MCPlatform ------------------------------
(* Instance of Platform: the two packs of the repository and packs that meet   *)
(* each gate of the pipeline, with the default rules and one about devices.    *)
EXTENDS Platform, TLC

CONSTANTS c1, c2

Capability(name, version, type, permission, metadata, words) ==
    [name |-> name, version |-> version, type |-> type, permission |-> permission,
     enabled |-> TRUE, metadata |-> metadata, words |-> words]

Compile1 == Capability("esp32_compile", 1, "firmware", "EMBEDDED_SIMULATE",
                       {<<"framework", "arduino">>}, {"esp32", "firmware"})
Compile2 == Capability("esp32_compile", 2, "firmware", "EMBEDDED_SIMULATE",
                       {<<"framework", "esp-idf">>}, {"esp32", "firmware"})
Simulation == Capability("in_process_simulation", 1, "simulation", "EMBEDDED_SIMULATE",
                         {}, {"simulation"})
Lookup == Capability("mcu_catalog_lookup", 1, "knowledge", "EMBEDDED_READ", {}, {"mcu", "catalog"})

Pack(name, capabilities, permissions, dependsOn) ==
    [name |-> name, version |-> 1, caps |-> capabilities, permissions |-> permissions,
     roles |-> {permissions}, dependsOn |-> dependsOn, enabled |-> TRUE, importable |-> TRUE,
     collection |-> FALSE]

Embedded == [Pack("embeddedops", <<Compile1, Compile2, Simulation, Lookup>>,
                  {"EMBEDDED_READ", "EMBEDDED_GENERATE", "EMBEDDED_SIMULATE"}, {})
             EXCEPT !.collection = TRUE]
Network == Pack("networkops", <<>>, {"VIEW_INCIDENT", "EXECUTE_REPAIR"}, {})

Restart(permission) ==
    Capability("network.restart_device", 1, "operations", permission, {}, {"restart"})

Field == Pack("field", <<Restart("EXECUTE_REPAIR")>>, {"EXECUTE_REPAIR"}, {"networkops"})

MCSpecs == {Embedded, Network, Field,
    [Field EXCEPT !.version = 2, !.enabled = FALSE],
    [Field EXCEPT !.name = "uncovered", !.caps = <<Restart("VIEW_TRACE")>>],
    [Field EXCEPT !.name = "clash", !.caps = <<Lookup, Restart("EXECUTE_REPAIR")>>],
    [Field EXCEPT !.name = "foreign", !.roles = {{"EMBEDDED_READ", "OWN"}}],
    [Field EXCEPT !.name = "broken", !.importable = FALSE]}

MCPreloads == {{}, {Compile2}, {[Lookup EXCEPT !.version = 2, !.enabled = FALSE]}}

MCBindings == <<<<"esp32_compile", 1>>, <<"esp32_compile", 2>>,
                <<"in_process_simulation", 1>>, <<"mcu_catalog_lookup", 1>>>>

MCRules == DefaultRules \cup
    {[id |-> "many-devices", effect |-> "DENY", condition |-> [AnyContext EXCEPT !.permission = {"EXECUTE_REPAIR"}, !.min = 3]],
     [id |-> "medium-restart", effect |-> "ALLOW",
      condition |-> [AnyContext EXCEPT !.operation = {"restart_device"}, !.role = {"Admin"},
                                       !.permission = {"EXECUTE_REPAIR"}, !.risk = {"medium", "high"}, !.max = 2]]}

MCUsers == {{"Engineer"}, {"Engineer", "Admin"}}

View(target) == [tool |-> "network.view_device_status", target |-> target]
Reboot(target) == [tool |-> "network.restart_device", target |-> target]
Batch(target) == [tool |-> "network.batch_configuration_change", target |-> target]
Shell(target) == [tool |-> "shell", target |-> target]

MCPlans == {<<>>, <<Reboot("blank")>>, <<View("a")>>, <<Reboot("a")>>, <<Shell("a")>>,
            <<View("a"), View("blank")>>, <<View("a"), Shell("blank")>>,
            <<View("a"), Reboot("b")>>, <<View("b"), Reboot("a")>>, <<Reboot("a"), View("b")>>,
            <<Batch("a"), Reboot("b")>>, <<Batch("b"), Reboot("blank"), Batch("a")>>,
            <<Reboot("a"), Reboot("b"), Reboot("c")>>, <<View("a"), View("b"), View("c")>>,
            <<View("a"), View("b"), Reboot("c")>>, <<Reboot("b"), View("c"), View("a")>>}

MCQueries ==
    {[type |-> "any", metadata |-> {}, words |-> {"mcu", "catalog"}, version |-> 0],
     [type |-> "any", metadata |-> {}, words |-> {"esp32", "firmware"}, version |-> 0],
     [type |-> "firmware", metadata |-> {<<"framework", "esp-idf">>}, words |-> {}, version |-> 2]}

MCFirmwares == {[errors |-> {}, hangs |-> FALSE], [errors |-> {}, hangs |-> TRUE],
                [errors |-> {"main", "close"}, hangs |-> FALSE]}

ASSUME ConfigurationAssumption == RulesCanMatch /\ GoalsAreBound

Symmetry == Permutations(Callers)

================================================================================
