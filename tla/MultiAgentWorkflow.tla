-------------------------- MODULE MultiAgentWorkflow --------------------------
(***************************************************************************)
(* The supervisor and its specialists: the supervisor validates a plan of  *)
(* agents and hands over to the first pending one, each agent hands back,  *)
(* an agent that fails is noted and skipped, and a limit on hand-overs     *)
(* ends a run that does not finish by itself.                              *)
(***************************************************************************)
EXTENDS DiagnosisEvidence

CONSTANT SupervisorPlans     \* what plan_incident may return, sound or not

VARIABLES st, limits

Agents == <<"topology", "logs", "diagnosis", "repair", "report">>

AgentNames == {Agents[i] : i \in DOMAIN Agents}

AgentNode ==
    [topology |-> "TopologyAgent", logs |-> "LogAgent",
     diagnosis |-> "DiagnosisAgent", repair |-> "RepairAgent",
     report |-> "ReportAgent"]

Rank(agent) == CHOOSE i \in DOMAIN Agents : Agents[i] = agent

Members(sequence) == {sequence[i] : i \in DOMAIN sequence}

NoPlan == [analysis |-> [complete |-> FALSE, sources |-> <<>>],
           agents |-> <<>>, repair |-> FALSE]

ValidSupervisorPlan(plan) ==
    LET required == Members(plan.agents)
    IN  /\ ValidDiagnosisPlan(plan.analysis)
        /\ required \subseteq AgentNames
        /\ "diagnosis" \in required
        /\ plan.agents[Len(plan.agents)] = "report"
        /\ plan.repair <=> "repair" \in required
        /\ \A i, j \in DOMAIN plan.agents :
              i < j => Rank(plan.agents[i]) < Rank(plan.agents[j])
        /\ \A source \in {"topology", "logs"} :
              source \in Required(plan.analysis) <=> source \in required

States ==
    [node : {"Supervisor", "END"} \cup {AgentNode[a] : a \in AgentNames},
     plan : SupervisorPlans \cup {NoPlan}, pending : SUBSET AgentNames,
     completed : Seq(AgentNames), evidence : SUBSET Signals,
     relevance : {"none", "low", "high"}, query : Nat,
     diagnosis : {"none", "hypothesis", "confirmed"}, repairPlan : BOOLEAN,
     answer : {"empty", "report", "fallback"},
     verdict : {"none", "approved", "rejected"}, errors : SUBSET AgentNames,
     handoffs : Nat, diagnosisIteration : Nat, reportIteration : Nat,
     iteration : Nat, error : {"none", "node", "handoffs", "budget"}]

Asked ==
    [node |-> "Supervisor", plan |-> NoPlan, pending |-> {}, completed |-> <<>>,
     evidence |-> {}, relevance |-> "none", query |-> 1, diagnosis |-> "none",
     repairPlan |-> FALSE, answer |-> "empty", verdict |-> "none", errors |-> {},
     handoffs |-> 0, diagnosisIteration |-> 0, reportIteration |-> 0,
     iteration |-> 0, error |-> "none"]

\* next_agent and the edge it selects.
NodeOf(plan, pending) ==
    LET waiting == {i \in DOMAIN plan.agents : plan.agents[i] \in pending}
    IN  IF waiting = {} THEN "END"
        ELSE AgentNode[plan.agents[CHOOSE i \in waiting :
                                      \A j \in waiting : i <= j]]

PlanIncident ==
    /\ st.node = "Supervisor" /\ st.plan = NoPlan
    /\ \E plan \in SupervisorPlans :
          /\ ValidSupervisorPlan(plan)
          /\ st' = [st EXCEPT !.plan = plan, !.pending = Members(plan.agents),
                       !.node = NodeOf(plan, Members(plan.agents))]

HandoffLimit == st.handoffs >= limits.handoffs /\ st.pending # {}

StopAtLimit ==
    /\ st.node = "Supervisor" /\ st.plan # NoPlan /\ HandoffLimit
    /\ st' = [st EXCEPT !.pending = {}, !.error = "handoffs", !.node = "END",
                 !.answer = IF @ = "empty" THEN "fallback" ELSE @]

\* A repair whose diagnosis is missing is skipped.
SkipsRepair ==
    /\ "repair" \in st.pending
    /\ "diagnosis" \in Members(st.completed)
    /\ st.diagnosis = "none"

HandOver ==
    /\ st.node = "Supervisor" /\ st.plan # NoPlan /\ ~HandoffLimit
    /\ LET skipped == IF SkipsRepair THEN {"repair"} ELSE {}
       IN  st' = [st EXCEPT !.pending = @ \ skipped, !.errors = @ \cup skipped,
                     !.node = NodeOf(st.plan, st.pending \ skipped)]

\* completion_update
Completed(agent) ==
    [st EXCEPT !.pending = @ \ {agent}, !.completed = Append(@, agent),
        !.handoffs = @ + 1, !.node = "Supervisor"]

TopologyAgent ==
    /\ st.node = "TopologyAgent"
    /\ \E found \in SUBSET SignalsOf.topology :
          st' = [Completed("topology") EXCEPT !.evidence = @ \cup found]

LogAgent ==
    /\ st.node = "LogAgent"
    /\ \E found \in SUBSET SignalsOf.logs :
          st' = [Completed("logs") EXCEPT !.evidence = @ \cup found]

Larger(i, j) == IF i > j THEN i ELSE j

Asks(source) == source \in Required(st.plan.analysis)

Found(source) == IF Asks(source) THEN SUBSET SignalsOf[source] ELSE {{}}

\* What the agent knows after another round of metrics and documents.
Investigated(device, cases, grade) ==
    LET attempt == st.diagnosisIteration + 1
    IN  [st EXCEPT !.diagnosisIteration = attempt, !.relevance = grade,
            !.iteration = Larger(attempt, st.reportIteration),
            !.evidence = (@ \cap (SignalsOf.topology \cup SignalsOf.logs))
                            \cup device \cup cases]

\* Documents of low relevance are searched again with another query, and do not
\* count for the cause when the iterations are spent.
DiagnosisAgent ==
    /\ st.node = "DiagnosisAgent"
    /\ \E device \in Found("monitoring"), cases \in Found("knowledge"),
          grade \in (IF Asks("knowledge") THEN {"low", "high"} ELSE {st.relevance}) :
          LET after == Investigated(device, cases, grade)
              again == /\ Asks("knowledge") /\ grade = "low"
                       /\ after.diagnosisIteration < limits.iterations
              counted == IF grade = "low" THEN after.evidence \ SignalsOf.knowledge
                         ELSE after.evidence
          IN  \/ /\ again
                 /\ st' = [after EXCEPT !.query = @ + 1, !.handoffs = @ + 1,
                              !.node = "Supervisor"]
              \/ /\ ~again
                 /\ st' = [after EXCEPT !.diagnosis = Cause(counted),
                              !.pending = @ \ {"diagnosis"},
                              !.completed = Append(@, "diagnosis"),
                              !.handoffs = @ + 1, !.node = "Supervisor"]

RepairAgent ==
    /\ st.node = "RepairAgent" /\ st.diagnosis # "none"
    /\ st' = [Completed("repair") EXCEPT !.repairPlan = TRUE]

ReportAgent ==
    /\ st.node = "ReportAgent"
    /\ LET attempt == st.reportIteration + 1
           written(s, verdict) ==
              [s EXCEPT !.answer = "report", !.verdict = verdict,
                  !.reportIteration = attempt,
                  !.iteration = Larger(attempt, st.diagnosisIteration)]
       IN  \/ st' = written(Completed("report"), "approved")
           \/ /\ attempt >= limits.iterations
              /\ st' = [written(Completed("report"), "rejected")
                           EXCEPT !.error = "budget"]
           \/ /\ attempt < limits.iterations
              /\ st' = [written(st, "rejected")
                           EXCEPT !.handoffs = @ + 1, !.node = "Supervisor"]

\* handle_error: a plan that cannot be made ends the run, and so does a report
\* that cannot be written; another agent is skipped, a diagnosis with the repair.
SupervisorFails ==
    /\ st.node = "Supervisor" /\ st.plan = NoPlan
    /\ st' = [st EXCEPT !.answer = "fallback", !.error = "node", !.node = "END"]

ReportFails ==
    /\ st.node = "ReportAgent"
    /\ st' = [st EXCEPT !.answer = IF @ = "empty" THEN "fallback" ELSE @,
                 !.errors = @ \cup {"report"}, !.pending = @ \ {"report"},
                 !.handoffs = @ + 1, !.error = "node", !.node = "END"]
\* Defect: the skipped repair is dropped without a word.
AgentFails_SilentSkip ==
    \E agent \in AgentNames \ {"report"} :
       /\ st.node = AgentNode[agent]
       /\ LET skipped == {agent} \cup (IF agent = "diagnosis" THEN {"repair"} ELSE {})
          IN  st' = [Completed(agent) EXCEPT !.pending = @ \ skipped,
                        !.errors = @ \cup {agent}]

AgentFails ==
    \E agent \in AgentNames \ {"report"} :
       /\ st.node = AgentNode[agent]
       /\ LET skipped == {agent} \cup (IF agent = "diagnosis" THEN {"repair"} ELSE {})
          IN  st' = [Completed(agent) EXCEPT !.pending = @ \ skipped,
                        !.errors = @ \cup skipped]

Next ==
    \/ PlanIncident
    \/ StopAtLimit
    \/ HandOver
    \/ TopologyAgent
    \/ LogAgent
    \/ DiagnosisAgent
    \/ RepairAgent
    \/ ReportAgent
    \/ SupervisorFails
    \/ ReportFails
    \/ AgentFails

================================================================================
