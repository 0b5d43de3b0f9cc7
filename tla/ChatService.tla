------------------------------ MODULE ChatService ------------------------------
(***************************************************************************)
(* The chat endpoint over whichever workflow the process was built with.   *)
(* Requests of one session are served side by side: nothing orders them,   *)
(* and they share nothing but the history, which a lock guards.  A stream  *)
(* runs its graph node by node, sends the answer, and only then remembers  *)
(* the exchange; a client may leave at every event.                        *)
(*                                                                         *)
(* As no state of a graph outlives its run, the graph of one chat, the     *)
(* followed one, stands for that of every chat: the others answer at any   *)
(* time.                                                                   *)
(***************************************************************************)
EXTENDS DiagnosisEvidence

CONSTANTS
    Flows,            \* the workflows a process may be built with
    Budgets,          \* the limits create_*_workflow may be given
    DiagnosisPlans,   \* what the analyst of DiagnosisWorkflow may return
    SupervisorPlans,  \* what the planner of MultiAgentWorkflow may return
    ChatsOf,          \* bound on the chats of the session, for each workflow
    MaxChats,         \* bound on ChatsOf
    StepLimit         \* supersteps the engine grants a run

ASSUME FlowsAssumption == Flows \subseteq {"agent", "diagnosis", "multi"}
ASSUME BudgetsAssumption ==
    Budgets \subseteq [iterations : 1..3, handoffs : 1..32]
ASSUME BoundsAssumption ==
    MaxChats \in Nat /\ StepLimit \in Nat /\ ChatsOf \in [Flows -> 1..MaxChats]
ASSUME PlansAssumption == \A plan \in SupervisorPlans : plan.agents \in Seq(STRING)

VARIABLES
    flow,       \* app.state.agent_workflow
    limits,     \* the limits that workflow was built with
    followed,   \* the chat whose graph is looked at
    st,         \* the state of that graph
    steps,      \* the supersteps it took
    chat,       \* the streams of the session, in the order of the requests
    history     \* InMemoryHistoryStore, one session

vars == <<flow, limits, followed, st, steps, chat, history>>

Agent == INSTANCE AgentWorkflow
Diagnosis == INSTANCE DiagnosisWorkflow
Multi == INSTANCE MultiAgentWorkflow

Asked == CASE flow = "agent" -> Agent!Asked
           [] flow = "diagnosis" -> Diagnosis!Asked
           [] flow = "multi" -> Multi!Asked

\* answer is the answer event the client was sent; seen is what the history held when
\* the chat was asked (history variable).
Stages == {"running", "answered", "remembered", "over"}
Asking == [stage |-> "running", answer |-> "none", seen |-> Len(history)]

Init ==
    /\ flow \in Flows
    /\ limits \in Budgets
    /\ followed \in 1..ChatsOf[flow]
    /\ st = Asked
    /\ steps = 0
    /\ chat = <<>>
    /\ history = <<>>

\* Whatever the earlier chats of the session are doing.
Ask ==
    /\ Len(chat) < ChatsOf[flow]
    /\ chat' = Append(chat, Asking)
    /\ UNCHANGED <<flow, limits, followed, st, steps, history>>

At(c, stage) == c \in DOMAIN chat /\ chat[c].stage = stage

\* One superstep of the graph and its node event.
Step(next, name) ==
    /\ At(followed, "running") /\ flow = name /\ next
    /\ steps' = steps + 1
    /\ UNCHANGED <<flow, limits, followed, chat, history>>

\* Defect: a run that ended with an error has no answer.
Response_OnlyClean(c) ==
    IF c # followed THEN {"other"}
    ELSE IF st.node = "END" /\ st.error = "none" THEN {st.answer} ELSE {}

\* _chat_response, once the graph has ended.
Response(c) ==
    IF c # followed THEN {"other"}
    ELSE IF st.node = "END" THEN {st.answer} ELSE {}

\* The answer event of _stream_chat.
SendAnswer(c) ==
    /\ At(c, "running")
    /\ \E answer \in Response(c) :
          chat' = [chat EXCEPT ![c].stage = "answered", ![c].answer = answer]
    /\ UNCHANGED <<flow, limits, followed, st, steps, history>>

\* append_exchange, when the stream is asked for its next event.
Remember(c) ==
    /\ At(c, "answered")
    /\ chat' = [chat EXCEPT ![c].stage = "remembered"]
    /\ history' = Append(history, [chat |-> c, answer |-> chat[c].answer])
    /\ UNCHANGED <<flow, limits, followed, st, steps>>

\* Defect: the failed exchange is remembered with its last draft.
SendError_Remember(c) ==
    /\ At(c, "running")
    /\ chat' = [chat EXCEPT ![c].stage = "over"]
    /\ history' = Append(history, [chat |-> c, answer |-> st.answer])
    /\ UNCHANGED <<flow, limits, followed, st, steps>>

\* An exception out of the graph: the error event ends the stream.
SendError(c) ==
    /\ At(c, "running")
    /\ chat' = [chat EXCEPT ![c].stage = "over"]
    /\ UNCHANGED <<flow, limits, followed, st, steps, history>>

\* The client leaves: the generator is closed where it waits.
Disconnect(c) ==
    /\ At(c, "running") \/ At(c, "answered")
    /\ chat' = [chat EXCEPT ![c].stage = "over"]
    /\ UNCHANGED <<flow, limits, followed, st, steps, history>>

Graph ==
    \/ Step(Agent!Next, "agent")
    \/ Step(Diagnosis!Next, "diagnosis")
    \/ Step(Multi!Next, "multi")

Stream(c) ==
    \/ c = followed /\ Graph
    \/ SendAnswer(c)
    \/ Remember(c)

Next ==
    \/ Ask
    \/ \E c \in 1..MaxChats : Stream(c) \/ SendError(c) \/ Disconnect(c)

Spec == Init /\ [][Next]_vars

\* The event loop drives every stream that was opened; nobody has to ask.
FairSpec == Spec /\ \A c \in 1..MaxChats : WF_vars(Stream(c))

--------------------------------------------------------------------------------
(***************************************************************************)
(* Properties                                                              *)
(***************************************************************************)

Answers == {"draft", "report", "fallback", "noEvidence", "other"}

\* Every part has its type.
TypeOK ==
    /\ flow \in Flows /\ limits \in Budgets /\ followed \in 1..MaxChats
    /\ st \in CASE flow = "agent" -> Agent!States
                [] flow = "diagnosis" -> Diagnosis!States
                [] flow = "multi" -> Multi!States
    /\ steps \in Nat
    /\ chat \in Seq([stage : Stages, answer : Answers \cup {"none"}, seen : Nat])
    /\ history \in Seq([chat : 1..MaxChats, answer : Answers])

Ended == st.node = "END"

\* An answer without an error is one the checker approved, as it was last
\* generated: a retry, a failing node or a fallback cannot smuggle in another.
Approved ==
    Ended /\ st.error = "none" => /\ st.verdict = "approved"
                                  /\ st.answer \in {"draft", "report"}

\* A question that needs documents is answered from documents that were found
\* for the query as it was last rewritten and graded relevant.
Grounded ==
    flow = "agent" /\ Ended /\ st.error = "none" /\ Agent!NeedsDocuments(st.intent) =>
        st.relevance = "high" /\ st.documents = st.query

\* A root cause is confirmed only with a signal from the monitoring the plan
\* asked for, and an irrelevant document is not what tips the score.
Supported ==
    /\ flow = "diagnosis" /\ st.cause = "confirmed" =>
          "monitoring" \in st.required /\ st.evidence \cap SignalsOf.monitoring # {}
    /\ flow = "multi" /\ st.diagnosis = "confirmed" =>
          /\ "monitoring" \in Required(st.plan.analysis)
          /\ st.evidence \cap SignalsOf.monitoring # {}
          /\ st.relevance = "low" => Score(st.evidence \ SignalsOf.knowledge) >= 50

\* What a run delivers is approved, grounded and supported (AgentWorkflow,
\* DiagnosisWorkflow, MultiAgentWorkflow, for every failure and retry).
AnswerIsSound == Approved /\ Grounded /\ Supported

\* When a multi-agent run ends, unless it was stopped at the hand-over limit or
\* its plan failed, each agent of the plan has either finished or is named in the
\* errors; agents finish in the order of the plan and once; a repair plan has a
\* diagnosis behind it; and a clean end has the report last.
AgentsAccounted ==
    flow = "multi" =>
        LET done == st.completed
        IN  /\ \A i, j \in DOMAIN done :
                  i < j => Multi!Rank(done[i]) < Multi!Rank(done[j])
            /\ st.repairPlan => st.diagnosis # "none" /\ st.plan.repair
            /\ Ended /\ st.error # "handoffs" /\ st.plan # Multi!NoPlan =>
                  \A agent \in Multi!Members(st.plan.agents) :
                     agent \in Multi!Members(done) \cup st.errors
            /\ Ended /\ st.error = "none" => done[Len(done)] = "report"

\* Loops stay in their budgets, counted over the whole run: iterations, hand-overs
\* and the supersteps the engine grants before it breaks a run off; a run that says
\* that it was stopped at the hand-over limit did reach it.  Every part keeps its type.
WithinBudgets ==
    /\ TypeOK
    /\ st.iteration <= limits.iterations
    /\ steps <= StepLimit
    /\ flow = "multi" => /\ st.handoffs <= limits.handoffs
                         /\ st.error = "handoffs" => st.handoffs = limits.handoffs

\* However the chats of a session overlap, a stream that was served to its end is in
\* the history exactly once, with the answer its client was sent, which is what its
\* graph ended with; a chat that failed or was left before leaves nothing.  Exchanges
\* stand in the order in which their streams ended, not in that of the requests: only
\* what was remembered when a chat was asked stands before it.
HistoryIsDelivered ==
    /\ \A i \in DOMAIN history :
          LET c == history[i].chat
          IN  /\ At(c, "remembered") /\ history[i].answer = chat[c].answer
              /\ c = followed => Ended /\ history[i].answer = st.answer
              /\ chat[c].seen < i
              /\ \A j \in DOMAIN history : history[j].chat = c => j = i
    /\ \A c \in DOMAIN chat :
          chat[c].stage = "remembered" => \E i \in DOMAIN history : history[i].chat = c

\* Every chat ends: the graphs have no loop that goes on for ever.
ChatEnds == At(followed, "running") ~> ~At(followed, "running")

================================================================================
