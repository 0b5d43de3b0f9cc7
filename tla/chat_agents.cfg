SPECIFICATION FairSpec
CONSTANTS
    Flows = {"agent", "diagnosis", "multi"}
    Budgets <- MCBudgets
    DiagnosisPlans <- MCDiagnosisPlans
    SupervisorPlans <- MCSupervisorPlans
    ChatsOf <- MCChatsOf
    MaxChats = 3
    StepLimit = 25
INVARIANT AnswerIsSound
INVARIANT AgentsAccounted
INVARIANT WithinBudgets
INVARIANT HistoryIsDelivered
PROPERTY ChatEnds
CHECK_DEADLOCK FALSE
