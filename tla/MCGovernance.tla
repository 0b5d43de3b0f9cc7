----------------------------- MODULE MCGovernance -----------------------------
(* Instance of Governance: two incidents and facts of every type a sync can meet. *)
EXTENDS Governance, TLC

CONSTANTS i1, i2, g1, g2

Fact(store, incident, action, outcome, level) ==
    [store |-> store, incident |-> incident, actor |-> "engineer", action |-> action,
     outcome |-> outcome, level |-> level, key |-> <<>>]

MCFacts == {
    Fact("audit", i1, "evaluate_risk", "approval_required", "high"),
    Fact("audit", i2, "authorize", "denied", "none"),
    Fact("audit", i1, "repair", "failed", "none"),
    Fact("trace", i1, "Execute", "failed", "none")}

Ask(kind, incident) ==
    [kind |-> kind, incident |-> incident, actor |-> "engineer",
     operation |-> "create_repair_plan", devices |-> 2]

MCRequests == (g1 :> {Ask("sync", All)}) @@
              (g2 :> {Ask("sync", i1), Ask("risk", i1), Ask("report", i1)})

================================================================================
