----------------------------- MODULE PolicyEngine -----------------------------
(***************************************************************************)
(* Policy evaluation: the rules that match a context, the strictest of     *)
(* their effects, and the effect of a whole repair plan.                   *)
(***************************************************************************)
EXTENDS Integers, FiniteSets, Sequences

Effects == {"ALLOW", "REQUIRE_APPROVAL", "DENY"}
Precedence == [ALLOW |-> 1, REQUIRE_APPROVAL |-> 2, DENY |-> 3]
Operations == {"view_device_status", "create_repair_plan", "restart_device",
               "batch_configuration_change", "unknown"}
RiskLevels == {"low", "medium", "high", "critical"}
Roles == {"Operator", "Engineer", "EmbeddedEngineer", "Admin"}
Permissions == {"VIEW_INCIDENT", "VIEW_TRACE", "CREATE_REPAIR_PLAN", "EXECUTE_REPAIR",
                "APPROVE_REPAIR", "MANAGE_SYSTEM", "EMBEDDED_READ", "EMBEDDED_GENERATE",
                "EMBEDDED_SIMULATE"}

\* A field of a condition that is None does not constrain: the empty set, which the
\* model refuses as a value, and no limit on the number of devices.
NoLimit == -1
AnyContext == [operation |-> {}, risk |-> {}, permission |-> {}, role |-> {},
               min |-> 0, max |-> NoLimit]

ValidCondition(condition) ==
    /\ condition.operation \subseteq Operations /\ condition.risk \subseteq RiskLevels
    /\ condition.permission \subseteq Permissions /\ condition.role \subseteq Roles
    /\ condition.min \in Nat /\ condition.max \in Nat \cup {NoLimit}
    /\ condition # AnyContext
    /\ condition.max # NoLimit => condition.min <= condition.max

Allowed(set, value) == set = {} \/ value \in set

\* _matches.
Matches(condition, context) ==
    /\ Allowed(condition.operation, context.operation)
    /\ Allowed(condition.risk, context.risk)
    /\ Allowed(condition.permission, context.permission)
    /\ condition.role = {} \/ condition.role \cap context.roles # {}
    /\ Cardinality(context.devices) >= condition.min
    /\ condition.max = NoLimit \/ Cardinality(context.devices) <= condition.max

Strictest(effects) ==
    CHOOSE e \in effects : \A other \in effects : Precedence[e] >= Precedence[other]

\* PolicyEngine.evaluate: what no rule matches is denied.
Evaluate(rules, context) ==
    LET matched == {rule \in rules : Matches(rule.condition, context)}
    IN  IF matched = {} THEN "DENY" ELSE Strictest({rule.effect : rule \in matched})

ResolveOperation(tools, tool) == IF tool \in DOMAIN tools THEN tools[tool] ELSE "unknown"

\* The targets of all actions; a blank target names no device.
Targets(plan) == {plan[i].target : i \in DOMAIN plan} \ {"blank"}

\* Defect: each action is judged by its own device.
ActionContext_OwnDevice(tools, user, plan, risk, i) ==
    [roles |-> user, permission |-> "EXECUTE_REPAIR", risk |-> risk,
     operation |-> ResolveOperation(tools, plan[i].tool), devices |-> {plan[i].target}]

ActionContext(tools, user, plan, risk, i) ==
    [roles |-> user, permission |-> "EXECUTE_REPAIR", risk |-> risk,
     operation |-> ResolveOperation(tools, plan[i].tool), devices |-> Targets(plan)]

\* evaluate_actions and aggregate_effect; a plan without any device is refused.
PlanEffect(rules, tools, user, plan, risk) ==
    IF Targets(plan) = {} THEN "refused"
    ELSE Strictest({Evaluate(rules, ActionContext(tools, user, plan, risk, i)) : i \in DOMAIN plan})

(***************************************************************************)
(* The default registry.                                                   *)
(***************************************************************************)
DefaultRules == {
    [id |-> "allow-low-risk-device-status", effect |-> "ALLOW",
     condition |-> [AnyContext EXCEPT !.operation = {"view_device_status"}, !.risk = {"low"},
                                      !.permission = {"EXECUTE_REPAIR"}]],
    [id |-> "deny-unprivileged-batch-change", effect |-> "DENY",
     condition |-> [AnyContext EXCEPT !.operation = {"batch_configuration_change"},
                                      !.permission = Permissions \ {"EXECUTE_REPAIR"}]],
    [id |-> "require-approval-high-risk-change", effect |-> "REQUIRE_APPROVAL",
     condition |-> [AnyContext EXCEPT
                      !.operation = {"restart_device", "batch_configuration_change"},
                      !.risk = {"high", "critical"}, !.permission = {"EXECUTE_REPAIR"}]]}

DefaultTools == [t \in {"network.view_device_status", "network.restart_device",
                        "network.batch_configuration_change"} |->
    CASE t = "network.view_device_status" -> "view_device_status"
      [] t = "network.restart_device" -> "restart_device"
      [] OTHER -> "batch_configuration_change"]

================================================================================
