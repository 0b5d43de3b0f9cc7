-------------------------------- MODULE MCChat --------------------------------
(* Instance of ChatService: every plan a planner can get right, some it can   *)
(* get wrong, and hand-over limits below and above what a run can need.       *)
EXTENDS ChatService

\* No workflow of these budgets can take that many steps.
ASSUME RecursionAssumption == StepLimit >= 19

\* The agent graph is small enough for sessions of several chats.
MCChatsOf == [f \in Flows |-> CASE f = "agent" -> 3 [] f = "diagnosis" -> 2 [] f = "multi" -> 1]

MCBudgets == {[iterations |-> 2, handoffs |-> 4], [iterations |-> 3, handoffs |-> 12]}

Ordered(sequence, members) == SelectSeq(sequence, LAMBDA x : x \in members)

MCDiagnosisPlans ==
    [complete : BOOLEAN, sources : {Ordered(Sources, s) : s \in SUBSET SourceNames}]
        \cup {[complete |-> TRUE, sources |-> <<"logs", "logs">>],
              [complete |-> TRUE, sources |-> <<"monitoring", "topology">>]}

AgentOrder == <<"topology", "logs", "diagnosis", "repair", "report">>

MCSupervisorPlans ==
    [analysis : {[complete |-> TRUE, sources |-> Ordered(Sources, s)] :
                    s \in SUBSET SourceNames},
     agents : {Ordered(AgentOrder, {AgentOrder[i] : i \in a}) : a \in SUBSET (1..5)}
                 \cup {<<"report", "diagnosis">>, <<"diagnosis", "repair", "report", "repair">>},
     repair : BOOLEAN]

================================================================================
