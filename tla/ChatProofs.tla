------------------------------ MODULE ChatProofs ------------------------------
(***************************************************************************)
(* What the answers of the chat endpoint rest on and what its history      *)
(* holds, for every workflow, budget, plan and number of chats.            *)
(*                                                                         *)
(* The answers: node by node, what the state of a graph holds (AgentInv,   *)
(* DiagnosisInv, MultiInv); the service runs one graph for the chat that   *)
(* is followed and nothing else touches its state (GraphInv).              *)
(*                                                                         *)
(* The budgets: node by node, what a run has spent of them and what the    *)
(* rounds that are left can still take (AgentSpent, DiagnosisSpent,        *)
(* MultiSpent).                                                            *)
(*                                                                         *)
(* The history: chats overlap in every way, but a stream writes its own    *)
(* record only; what it sent is what its graph ended with, and the history *)
(* grows when a stream moves on from there, which it does once             *)
(* (SessionInv).                                                           *)
(***************************************************************************)
EXTENDS ChatService, SequenceTheorems, TLAPS

-------------------------------------------------------------------------------
(***************************************************************************)
(* What an answer rests on.  Per node of each graph: what the state must   *)
(* hold for the answer to be sound, whatever the models, the tools and the *)
(* plans say and wherever a node fails.                                    *)
(***************************************************************************)

\* AgentWorkflow: documents are those of the query from their grade on.
FromDocuments ==
    Agent!NeedsDocuments(st.intent) => st.relevance = "high" /\ st.documents = st.query

AgentFields == {"node", "intent", "query", "documents", "relevance", "answer", "verdict",
                "feedback", "iteration", "error"}

AgentInv ==
    /\ DOMAIN st = AgentFields
    /\ st.node = "DocumentGrader" => st.documents = st.query
    /\ st.node \in {"Generator", "HallucinationChecker"} => FromDocuments
    /\ st.node = "HallucinationChecker" => st.answer = "draft"
    /\ st.node = "END" /\ st.error = "none" =>
          FromDocuments /\ st.verdict = "approved" /\ st.answer = "draft"

LEMMA AgentStarts == ASSUME st = Agent!Asked PROVE AgentInv
BY DEF Agent!Asked, AgentInv, AgentFields

LEMMA AgentGoesOn == ASSUME AgentInv, Agent!Next PROVE AgentInv'
<1> USE DEF AgentInv, AgentFields, FromDocuments, Agent!NeedsDocuments
<1>1. CASE Agent!QueryAnalyzer
  BY <1>1 DEF Agent!QueryAnalyzer, Agent!Asked
<1>2. CASE Agent!Router
  BY <1>2 DEF Agent!Router
<1>3. CASE Agent!Retrieval
  BY <1>3 DEF Agent!Retrieval
<1>4. CASE Agent!DocumentGrader
  BY <1>4 DEF Agent!DocumentGrader
<1>5. CASE Agent!QueryRewrite
  BY <1>5 DEF Agent!QueryRewrite
<1>6. CASE Agent!Generator
  BY <1>6 DEF Agent!Generator
<1>7. CASE Agent!HallucinationChecker
  BY <1>7 DEF Agent!HallucinationChecker
<1>8. CASE Agent!HandleError
  BY <1>8 DEF Agent!HandleError
<1> QED
  BY <1>1, <1>2, <1>3, <1>4, <1>5, <1>6, <1>7, <1>8 DEF Agent!Next

-------------------------------------------------------------------------------
(***************************************************************************)
(* The evidence of a root cause.                                           *)
(***************************************************************************)
LEMMA SourcesAre ==
    /\ Diagnosis!Sources = Sources /\ Diagnosis!SourceNames = SourceNames
    /\ SourceNames = {"topology", "monitoring", "logs", "knowledge"}
    /\ DOMAIN Sources = 1..4 /\ Len(Sources) = 4
    /\ Sources[1] = "topology" /\ Sources[2] = "monitoring"
    /\ Sources[3] = "logs" /\ Sources[4] = "knowledge"
BY DEF Sources, SourceNames, Diagnosis!Sources, Diagnosis!SourceNames

LEMMA SignalsAre ==
    /\ Diagnosis!SignalsOf = SignalsOf
    /\ SignalsOf.topology = {"link"} /\ SignalsOf.monitoring = {"counters", "optics"}
    /\ SignalsOf.logs = {"log"} /\ SignalsOf.knowledge = {"case"}
    /\ DOMAIN SignalsOf = SourceNames
    /\ Signals = {"link", "counters", "optics", "log", "case"}
<1>1. /\ SignalsOf.topology = {"link"} /\ SignalsOf.monitoring = {"counters", "optics"}
      /\ SignalsOf.logs = {"log"} /\ SignalsOf.knowledge = {"case"}
      /\ DOMAIN SignalsOf = SourceNames
  BY SourcesAre DEF SignalsOf
<1>2. \A source \in SourceNames :
        SignalsOf[source] \in {SignalsOf.topology, SignalsOf.monitoring,
                               SignalsOf.logs, SignalsOf.knowledge}
  BY SourcesAre
<1>3. /\ SignalsOf.topology \in {SignalsOf[source] : source \in SourceNames}
      /\ SignalsOf.monitoring \in {SignalsOf[source] : source \in SourceNames}
      /\ SignalsOf.logs \in {SignalsOf[source] : source \in SourceNames}
      /\ SignalsOf.knowledge \in {SignalsOf[source] : source \in SourceNames}
  BY SourcesAre
<1>5. Diagnosis!SignalsOf = SignalsOf
  BY DEF SignalsOf, Diagnosis!SignalsOf
<1>4. Signals = {"link", "counters", "optics", "log", "case"}
  BY <1>1, <1>2, <1>3 DEF Signals
<1> QED
  BY <1>1, <1>4, <1>5

\* The scores name a cause only with a signal of the monitoring, and more evidence
\* never lowers them.
LEMMA ScoreNeeds ==
    ASSUME NEW found, Score(found) >= 50
    PROVE  found \cap SignalsOf.monitoring # {}
BY SignalsAre DEF Score, Weight

LEMMA ScoreGrows ==
    ASSUME NEW found, NEW more, found \subseteq more, Score(found) >= 50
    PROVE  Score(more) >= 50
BY DEF Score, Weight

\* DiagnosisWorkflow asks the sources of the plan and no other.
DiagnosisFields == {"node", "required", "evidence", "cause", "answer", "verdict",
                    "iteration", "error"}

DiagnosisInv ==
    /\ DOMAIN st = DiagnosisFields
    /\ \A source \in SourceNames :
          /\ st.node = Diagnosis!SourceNode[source] => source \in st.required
          /\ st.evidence \cap SignalsOf[source] # {} => source \in st.required
    /\ st.cause = "confirmed" => st.evidence \cap SignalsOf.monitoring # {}
    /\ st.node = "HallucinationChecker" => st.answer = "draft"
    /\ st.node = "END" /\ st.error = "none" => st.verdict = "approved" /\ st.answer = "draft"

LEMMA SourceNodesAre ==
    /\ Diagnosis!SourceNode["topology"] = "TopologyTool"
    /\ Diagnosis!SourceNode["monitoring"] = "MonitorTool"
    /\ Diagnosis!SourceNode["logs"] = "LogTool"
    /\ Diagnosis!SourceNode["knowledge"] = "RAG"
BY DEF Diagnosis!SourceNode

\* A set of few places has a first one.
LEMMA LeastIs ==
    ASSUME NEW places, places \subseteq 1..5, places # {}
    PROVE  \E i \in places : \A j \in places : i <= j
<1>1. PICK any \in places : TRUE
  OBVIOUS
<1>2. CASE 1 \in places
  BY <1>2
<1>3. CASE 1 \notin places /\ 2 \in places
  BY <1>3
<1>4. CASE 1 \notin places /\ 2 \notin places /\ 3 \in places
  BY <1>4
<1>5. CASE 1 \notin places /\ 2 \notin places /\ 3 \notin places /\ 4 \in places
  BY <1>5
<1>6. CASE 1 \notin places /\ 2 \notin places /\ 3 \notin places /\ 4 \notin places
  BY <1>1, <1>6
<1> QED
  BY <1>2, <1>3, <1>4, <1>5, <1>6

LEMMA NextAfterIs ==
    ASSUME NEW i \in Nat, NEW required
    PROVE  \/ Diagnosis!NextAfter(i, required) = "EvidenceCorrelator"
           \/ \E source \in SourceNames \cap required :
                 Diagnosis!NextAfter(i, required) = Diagnosis!SourceNode[source]
<1> DEFINE later == {j \in (i + 1)..Len(Sources) : Sources[j] \in required}
           first == CHOOSE j \in later : \A k \in later : j <= k
<1>1. ASSUME later # {} PROVE first \in later
  <2>1. later \subseteq 1..5
    BY SourcesAre
  <2>2. \E j \in later : \A k \in later : j <= k
    BY <1>1, <2>1, LeastIs
  <2> HIDE DEF later
  <2> QED
    BY <2>2
<1>2. first \in later => Sources[first] \in SourceNames \cap required
  BY SourcesAre
<1>3. Diagnosis!NextAfter(i, required) =
        IF later = {} THEN "EvidenceCorrelator" ELSE Diagnosis!SourceNode[Sources[first]]
  BY DEF Diagnosis!NextAfter, Diagnosis!Sources, Sources
<1> HIDE DEF later, first
<1> QED
  BY <1>1, <1>2, <1>3

LEMMA DiagnosisStarts == ASSUME st = Diagnosis!Asked PROVE DiagnosisInv
BY SourceNodesAre, SourcesAre DEF Diagnosis!Asked, DiagnosisInv, DiagnosisFields

LEMMA DiagnosisGoesOn == ASSUME DiagnosisInv, Diagnosis!Next PROVE DiagnosisInv'
<1> USE SourceNodesAre, SourcesAre DEF DiagnosisInv, DiagnosisFields
<1>1. CASE Diagnosis!QueryAnalyzer
  <2>1. PICK plan \in DiagnosisPlans :
          /\ Diagnosis!ValidDiagnosisPlan(plan)
          /\ st' = [Diagnosis!Asked EXCEPT !.required = Diagnosis!Required(plan),
                       !.node = Diagnosis!NextAfter(0, Diagnosis!Required(plan))]
    BY <1>1 DEF Diagnosis!QueryAnalyzer
  <2>3. /\ st'.required = Diagnosis!Required(plan) /\ st'.evidence = {} /\ st'.cause = "none"
        /\ st'.error = "none" /\ st'.node = Diagnosis!NextAfter(0, Diagnosis!Required(plan))
        /\ st'.answer = "empty" /\ st'.verdict = "none" /\ st'.iteration = 0
        /\ DOMAIN st' = DiagnosisFields
    BY <2>1 DEF Diagnosis!Asked
  <2> QED
    BY <2>3, NextAfterIs
<1>2. CASE Diagnosis!SourceTool
  <2>0. PICK i \in DOMAIN Sources :
          /\ st.node = Diagnosis!SourceNode[Sources[i]]
          /\ \E found \in SUBSET SignalsOf[Sources[i]] :
                st' = [st EXCEPT !.evidence = @ \cup found,
                          !.node = Diagnosis!NextAfter(i, st.required)]
    BY <1>2, SignalsAre DEF Diagnosis!SourceTool
  <2>1. PICK found \in SUBSET SignalsOf[Sources[i]] :
          st' = [st EXCEPT !.evidence = @ \cup found,
                    !.node = Diagnosis!NextAfter(i, st.required)]
    BY <2>0
  <2>2. Sources[i] \in st.required /\ i \in Nat
    BY <2>0
  <2>4. \A source \in SourceNames :
          source # Sources[i] => found \cap SignalsOf[source] = {}
    BY <2>1, SignalsAre
  <2>5. /\ st'.required = st.required /\ st'.evidence = st.evidence \cup found
        /\ st'.cause = st.cause /\ st'.answer = st.answer /\ st'.verdict = st.verdict
        /\ st'.error = st.error /\ st'.node = Diagnosis!NextAfter(i, st.required)
        /\ DOMAIN st' = DOMAIN st
    BY <2>1
  <2>6. \/ st'.node = "EvidenceCorrelator"
        \/ \E source \in SourceNames \cap st.required : st'.node = Diagnosis!SourceNode[source]
    BY <2>2, <2>5, NextAfterIs
  <2> QED
    BY <2>2, <2>4, <2>5, <2>6
<1>3. CASE Diagnosis!EvidenceCorrelator
  <2>1. Cause(st.evidence) = "confirmed" => st.evidence \cap SignalsOf.monitoring # {}
    BY ScoreNeeds DEF Cause
  <2>2. Diagnosis!Cause(st.evidence) = Cause(st.evidence)
    BY DEF Cause, Score, Weight, Diagnosis!Cause, Diagnosis!Score, Diagnosis!Weight
  <2> QED
    BY <1>3, <2>1, <2>2 DEF Diagnosis!EvidenceCorrelator
<1>4. CASE Diagnosis!Generator
  BY <1>4 DEF Diagnosis!Generator
<1>5. CASE Diagnosis!HallucinationChecker
  <2>1. /\ DOMAIN st' = DOMAIN st /\ st'.required = st.required /\ st'.cause = st.cause
        /\ st'.evidence = st.evidence /\ st'.answer = "draft"
        /\ \/ st'.node = "END" /\ (st'.error = "none" => st'.verdict = "approved")
           \/ st'.node = "Generator"
    BY <1>5 DEF Diagnosis!HallucinationChecker
  <2> QED
    BY <2>1
<1>6. CASE Diagnosis!HandleError
  BY <1>6 DEF Diagnosis!HandleError
<1> QED
  BY <1>1, <1>2, <1>3, <1>4, <1>5, <1>6 DEF Diagnosis!Next

-------------------------------------------------------------------------------
(***************************************************************************)
(* MultiAgentWorkflow: who is pending, who is done and what is known.      *)
(* Agents run by rank, so that the report is the last to be pending.       *)
(***************************************************************************)
MultiFields == {"node", "plan", "pending", "completed", "evidence", "relevance", "query",
                "diagnosis", "repairPlan", "answer", "verdict", "errors", "handoffs",
                "diagnosisIteration", "reportIteration", "iteration", "error"}

Planned == st.plan # Multi!NoPlan

\* Without a plan nothing has happened yet, or the run failed.
Unplanned ==
    ~Planned => /\ st.node \in {"Supervisor", "END"}
                /\ st.pending = {} /\ st.completed = <<>> /\ st.evidence = {}
                /\ st.diagnosis = "none" /\ st.repairPlan = FALSE
                /\ st.error = IF st.node = "END" THEN "node" ELSE "none"

\* The agents of the plan that are pending rank after those that are done.
Queue ==
    /\ st.plan \in SupervisorPlans /\ Multi!ValidSupervisorPlan(st.plan)
    /\ st.pending \subseteq Multi!Members(st.plan.agents)
    /\ st.node = "END" => st.pending = {}
    /\ st.error = "handoffs" => st.node = "END"
    /\ \A agent \in Multi!AgentNames : st.node = Multi!AgentNode[agent] =>
          /\ agent \in st.pending
          /\ \A other \in st.pending : Multi!Rank(agent) <= Multi!Rank(other)

Ordered ==
    /\ st.completed \in Seq(Multi!AgentNames)
    /\ \A i \in DOMAIN st.completed, agent \in st.pending :
          Multi!Rank(st.completed[i]) < Multi!Rank(agent)
    /\ \A i, j \in DOMAIN st.completed :
          i < j => Multi!Rank(st.completed[i]) < Multi!Rank(st.completed[j])

\* Nobody of the plan is lost.
Accounted ==
    st.error # "handoffs" =>
        Multi!Members(st.plan.agents) \subseteq
            Multi!Members(st.completed) \cup st.errors \cup st.pending

\* A run without an error that has its report is over, and the report was approved.
Reported ==
    st.error = "none" /\ "report" \notin st.pending =>
        /\ st.pending = {}
        /\ st.verdict = "approved" /\ st.answer = "report"
        /\ Len(st.completed) \in DOMAIN st.completed
        /\ st.completed[Len(st.completed)] = "report"

Diagnosed ==
    /\ "diagnosis" \in st.pending => st.diagnosis = "none"
    /\ st.repairPlan => st.diagnosis # "none" /\ st.plan.repair
    /\ st.evidence \cap SignalsOf.monitoring # {} =>
          "monitoring" \in Required(st.plan.analysis)
    /\ st.diagnosis = "confirmed" =>
          /\ st.evidence \cap SignalsOf.monitoring # {}
          /\ st.relevance = "low" => Score(st.evidence \ SignalsOf.knowledge) >= 50

MultiInv ==
    /\ DOMAIN st = MultiFields
    /\ Unplanned
    /\ Planned => Queue /\ Ordered /\ Accounted /\ Reported /\ Diagnosed

LEMMA AgentsAre ==
    /\ Multi!AgentNames = {"topology", "logs", "diagnosis", "repair", "report"}
    /\ DOMAIN Multi!Agents = 1..5
    /\ Multi!AgentNode["topology"] = "TopologyAgent"
    /\ Multi!AgentNode["logs"] = "LogAgent"
    /\ Multi!AgentNode["diagnosis"] = "DiagnosisAgent"
    /\ Multi!AgentNode["repair"] = "RepairAgent"
    /\ Multi!AgentNode["report"] = "ReportAgent"
<1>1. DOMAIN Multi!Agents = 1..5
  BY DEF Multi!Agents
<1>2. Multi!AgentNames = {"topology", "logs", "diagnosis", "repair", "report"}
  BY <1>1 DEF Multi!Agents, Multi!AgentNames
<1> QED
  BY <1>1, <1>2 DEF Multi!AgentNode

LEMMA RanksAre ==
    /\ Multi!Rank("topology") = 1 /\ Multi!Rank("logs") = 2
    /\ Multi!Rank("diagnosis") = 3 /\ Multi!Rank("repair") = 4
    /\ Multi!Rank("report") = 5
<1>1. Multi!Rank("topology") = 1
  BY DEF Multi!Rank, Multi!Agents
<1>2. Multi!Rank("logs") = 2
  BY DEF Multi!Rank, Multi!Agents
<1>3. Multi!Rank("diagnosis") = 3
  BY DEF Multi!Rank, Multi!Agents
<1>4. Multi!Rank("repair") = 4
  BY DEF Multi!Rank, Multi!Agents
<1>5. Multi!Rank("report") = 5
  BY DEF Multi!Rank, Multi!Agents
<1> QED
  BY <1>1, <1>2, <1>3, <1>4, <1>5

LEMMA RankOrder ==
    /\ \A agent \in Multi!AgentNames : Multi!Rank(agent) \in 1..5
    /\ \A agent, other \in Multi!AgentNames :
          /\ Multi!Rank(agent) = Multi!Rank(other) => agent = other
          /\ Multi!AgentNode[agent] = Multi!AgentNode[other] => agent = other
          /\ Multi!AgentNode[agent] \notin {"Supervisor", "END"}
BY AgentsAre, RanksAre

\* What a valid plan says of its agents.
LEMMA PlanIs ==
    ASSUME NEW plan \in SupervisorPlans, Multi!ValidSupervisorPlan(plan)
    PROVE  /\ plan # Multi!NoPlan
           /\ Multi!Members(plan.agents) \subseteq Multi!AgentNames
           /\ "report" \in Multi!Members(plan.agents)
           /\ "repair" \in Multi!Members(plan.agents) => plan.repair
           /\ \A i, j \in DOMAIN plan.agents :
                 i < j => Multi!Rank(plan.agents[i]) < Multi!Rank(plan.agents[j])
           /\ DOMAIN plan.agents \subseteq Nat
<1>1. plan.agents \in Seq(STRING)
  BY PlansAssumption
<1>2. DOMAIN plan.agents = 1..Len(plan.agents) /\ Len(plan.agents) \in Nat
  BY <1>1
<1>3. plan.agents[Len(plan.agents)] = "report" /\ "diagnosis" \in Multi!Members(plan.agents)
  BY DEF Multi!ValidSupervisorPlan
<1>4. Len(plan.agents) \in DOMAIN plan.agents
  BY <1>2, <1>3 DEF Multi!Members
<1>5. plan # Multi!NoPlan
  BY DEF Multi!ValidSupervisorPlan, Multi!ValidDiagnosisPlan, Multi!NoPlan
<1> QED
  BY <1>2, <1>3, <1>4, <1>5 DEF Multi!ValidSupervisorPlan, Multi!Members

\* The supervisor hands over to the pending agent of the lowest rank.
LEMMA NodeOfIs ==
    ASSUME NEW plan \in SupervisorPlans, Multi!ValidSupervisorPlan(plan),
           NEW pending \in SUBSET Multi!Members(plan.agents)
    PROVE  \/ pending = {} /\ Multi!NodeOf(plan, pending) = "END"
           \/ \E agent \in pending :
                 /\ Multi!NodeOf(plan, pending) = Multi!AgentNode[agent]
                 /\ \A other \in pending : Multi!Rank(agent) <= Multi!Rank(other)
<1> DEFINE waiting == {i \in DOMAIN plan.agents : plan.agents[i] \in pending}
           first == CHOOSE i \in waiting : \A j \in waiting : i <= j
<1>1. /\ Multi!Members(plan.agents) \subseteq Multi!AgentNames
      /\ DOMAIN plan.agents \subseteq Nat
      /\ \A i, j \in DOMAIN plan.agents :
            i < j => Multi!Rank(plan.agents[i]) < Multi!Rank(plan.agents[j])
  BY PlanIs
<1>2. Multi!NodeOf(plan, pending) =
        IF waiting = {} THEN "END" ELSE Multi!AgentNode[plan.agents[first]]
  BY DEF Multi!NodeOf
<1>3. \A agent \in pending : \E i \in waiting : plan.agents[i] = agent
  BY DEF Multi!Members
<1>4. waiting \subseteq DOMAIN plan.agents /\ \A i \in waiting : plan.agents[i] \in pending
  OBVIOUS
<1>5. CASE pending = {}
  BY <1>2, <1>4, <1>5
<1>6. CASE pending # {}
  <2> DEFINE ranks == {Multi!Rank(agent) : agent \in pending}
  <2>1. ranks \subseteq 1..5 /\ ranks # {}
    BY <1>1, <1>6, RankOrder
  <2>2. PICK least \in ranks : \A rank \in ranks : least <= rank
    BY <2>1, LeastIs
  <2>3. PICK agent \in pending : \A other \in pending : Multi!Rank(agent) <= Multi!Rank(other)
    BY <2>2
  <2>4. PICK i \in waiting : plan.agents[i] = agent
    BY <1>3, <2>3
  <2> HIDE DEF waiting
  <2>5. \A j \in waiting : i <= j
    <3> SUFFICES ASSUME NEW j \in waiting, ~(i <= j) PROVE FALSE
      OBVIOUS
    <3>1. i \in Nat /\ j \in Nat /\ j < i
      BY <1>1, <1>4
    <3>2. Multi!Rank(plan.agents[j]) < Multi!Rank(plan.agents[i])
      BY <1>1, <1>4, <3>1
    <3>3. Multi!Rank(agent) <= Multi!Rank(plan.agents[j])
      BY <1>4, <2>3
    <3>4. Multi!Rank(agent) \in 1..5 /\ Multi!Rank(plan.agents[j]) \in 1..5
      BY <1>1, <1>4, <2>3, RankOrder
    <3> QED
      BY <2>4, <3>2, <3>3, <3>4
  <2>6. first \in waiting /\ \A j \in waiting : first <= j
    BY <2>5
  <2> HIDE DEF first
  <2>7. first = i
    BY <1>1, <1>4, <2>5, <2>6
  <2> QED
    BY <1>2, <2>3, <2>4, <2>7
<1> QED
  BY <1>5, <1>6

LEMMA MultiIs ==
    /\ Multi!SignalsOf = SignalsOf
    /\ \A analysis : Multi!Required(analysis) = Required(analysis)
    /\ \A evidence : Multi!Cause(evidence) = Cause(evidence)
<1>1. Multi!SignalsOf = SignalsOf
  BY DEF SignalsOf, Multi!SignalsOf
<1>2. \A analysis : Multi!Required(analysis) = Required(analysis)
  BY DEF Required, Multi!Required, Sources, Multi!Sources
<1>3. \A evidence : Multi!Cause(evidence) = Cause(evidence)
  BY DEF Cause, Score, Weight, Multi!Cause, Multi!Score, Multi!Weight
<1> QED
  BY <1>1, <1>2, <1>3

LEMMA MultiStarts == ASSUME st = Multi!Asked PROVE MultiInv
BY DEF Multi!Asked, MultiInv, MultiFields, Unplanned, Planned

\* An agent that runs has a plan behind it.
LEMMA AtWork ==
    ASSUME MultiInv, NEW agent \in Multi!AgentNames, st.node = Multi!AgentNode[agent]
    PROVE  /\ Planned /\ Queue /\ Ordered /\ Accounted /\ Reported /\ Diagnosed
           /\ st.error # "handoffs" /\ st.node \notin {"Supervisor", "END"}
           /\ agent \in st.pending /\ st.pending \subseteq Multi!AgentNames
           /\ \A other \in st.pending : Multi!Rank(agent) <= Multi!Rank(other)
           /\ st.error = "none" => "report" \in st.pending
<1>1. st.node \notin {"Supervisor", "END"}
  BY RankOrder
<1>2. Planned /\ Queue /\ Ordered /\ Accounted /\ Reported /\ Diagnosed
  BY <1>1 DEF MultiInv, Unplanned
<1>3. /\ st.error # "handoffs" /\ agent \in st.pending
      /\ \A other \in st.pending : Multi!Rank(agent) <= Multi!Rank(other)
  BY <1>1, <1>2 DEF Queue
<1>4. st.pending \subseteq Multi!AgentNames
  BY <1>2, PlanIs DEF Queue
<1>5. st.error = "none" => "report" \in st.pending
  BY <1>2, <1>3 DEF Reported
<1> QED
  BY <1>1, <1>2, <1>3, <1>4, <1>5

\* An agent that is done, with those skipped for it, leaves the rest in order.
LEMMA HandsBack ==
    ASSUME MultiInv, NEW agent \in Multi!AgentNames, st.node = Multi!AgentNode[agent],
           NEW skipped \in SUBSET Multi!AgentNames,
           st'.plan = st.plan, st'.pending = st.pending \ ({agent} \cup skipped),
           st'.completed = Append(st.completed, agent),
           st'.errors = st.errors \cup skipped,
           st'.error # "handoffs", st'.node = "Supervisor"
    PROVE  Queue' /\ Ordered' /\ Accounted'
<1> DEFINE done == st.completed
           next == Append(done, agent)
<1>1. /\ Queue /\ Ordered /\ Accounted /\ st.error # "handoffs"
      /\ agent \in st.pending /\ st.pending \subseteq Multi!AgentNames
      /\ \A other \in st.pending : Multi!Rank(agent) <= Multi!Rank(other)
  BY AtWork
<1>2. Queue'
  BY <1>1, RankOrder DEF Queue
<1>3. /\ next \in Seq(Multi!AgentNames) /\ Len(next) = Len(done) + 1
      /\ Len(done) \in Nat /\ DOMAIN done = 1..Len(done) /\ DOMAIN next = 1..Len(done) + 1
      /\ \A i \in 1..Len(done) : next[i] = done[i]
      /\ next[Len(done) + 1] = agent
  BY <1>1 DEF Ordered
<1>4. \A i \in DOMAIN next : \/ i \in DOMAIN done /\ next[i] = done[i]
                             \/ i = Len(done) + 1 /\ next[i] = agent
  BY <1>3
<1>5. Ordered'
  <2>1. \A other \in st'.pending : Multi!Rank(agent) < Multi!Rank(other)
    BY <1>1, RankOrder
  <2>2. \A i \in DOMAIN next, other \in st'.pending : Multi!Rank(next[i]) < Multi!Rank(other)
    BY <1>1, <1>4, <2>1 DEF Ordered
  <2>3. \A i, j \in DOMAIN next : i < j => Multi!Rank(next[i]) < Multi!Rank(next[j])
    <3> SUFFICES ASSUME NEW i \in DOMAIN next, NEW j \in DOMAIN next, i < j
                 PROVE  Multi!Rank(next[i]) < Multi!Rank(next[j])
      OBVIOUS
    <3>1. i \in DOMAIN done /\ next[i] = done[i]
      BY <1>3
    <3>2. CASE j \in DOMAIN done /\ next[j] = done[j]
      BY <1>1, <3>1, <3>2 DEF Ordered
    <3>3. CASE j = Len(done) + 1 /\ next[j] = agent
      BY <1>1, <3>1, <3>3 DEF Ordered
    <3> QED
      BY <1>4, <3>2, <3>3
  <2>4. st'.completed = next
    OBVIOUS
  <2> HIDE DEF next
  <2> QED
    BY <1>3, <2>2, <2>3, <2>4 DEF Ordered
<1>6. Accounted'
  <2>1. Multi!Members(done) \cup {agent} \subseteq Multi!Members(next)
    BY <1>3 DEF Multi!Members
  <2> HIDE DEF next
  <2>2. st'.completed = next
    BY DEF next
  <2> QED
    BY <1>1, <2>1, <2>2 DEF Accounted
<1> QED
  BY <1>2, <1>5, <1>6

\* As long as the report is due, nothing is claimed of it.
LEMMA StillDue ==
    ASSUME MultiInv, NEW agent \in Multi!AgentNames, st.node = Multi!AgentNode[agent],
           NEW skipped \in SUBSET Multi!AgentNames, agent # "report", "report" \notin skipped,
           st'.pending = st.pending \ ({agent} \cup skipped), st'.error = st.error
    PROVE  Reported'
BY AtWork DEF Reported

\* The agents that look for signals of the plan's devices.
LEMMA Looks ==
    ASSUME MultiInv, NEW agent \in {"topology", "logs"}, st.node = Multi!AgentNode[agent],
           NEW found \in SUBSET (SignalsOf.topology \cup SignalsOf.logs),
           st' = [Multi!Completed(agent) EXCEPT !.evidence = @ \cup found]
    PROVE  MultiInv'
<1>0. agent \in Multi!AgentNames /\ agent # "report"
  BY AgentsAre
<1>1. DOMAIN st = MultiFields /\ Planned /\ Diagnosed /\ st.error # "handoffs"
  BY <1>0, AtWork DEF MultiInv
<1>2. /\ DOMAIN st' = MultiFields /\ st'.plan = st.plan
      /\ st'.pending = st.pending \ ({agent} \cup {})
      /\ st'.completed = Append(st.completed, agent) /\ st'.errors = st.errors \cup {}
      /\ st'.error = st.error /\ st'.node = "Supervisor" /\ st'.evidence = st.evidence \cup found
      /\ st'.diagnosis = st.diagnosis /\ st'.repairPlan = st.repairPlan
      /\ st'.relevance = st.relevance
  BY <1>1 DEF Multi!Completed, MultiFields
<1>3. Queue' /\ Ordered' /\ Accounted'
  <2>1. {} \in SUBSET Multi!AgentNames
    OBVIOUS
  <2> HIDE DEF MultiInv
  <2> QED
    BY <1>0, <1>1, <1>2, <2>1, HandsBack
<1>4. Reported'
  BY <1>0, <1>2, StillDue
<1>5. Diagnosed'
  <2>1. found \cap SignalsOf.monitoring = {}
    BY SignalsAre
  <2>2. Score(st.evidence \ SignalsOf.knowledge) >= 50 =>
          Score(st'.evidence \ SignalsOf.knowledge) >= 50
    BY <1>2, ScoreGrows
  <2> QED
    BY <1>1, <1>2, <2>1, <2>2 DEF Diagnosed
<1>6. Planned' /\ Unplanned'
  BY <1>1, <1>2 DEF Planned, Unplanned
<1> QED
  BY <1>2, <1>3, <1>4, <1>5, <1>6 DEF MultiInv

LEMMA PlanIncidentKeeps == ASSUME MultiInv, Multi!PlanIncident PROVE MultiInv'
<1>1. PICK plan \in SupervisorPlans :
        /\ Multi!ValidSupervisorPlan(plan)
        /\ st' = [st EXCEPT !.plan = plan, !.pending = Multi!Members(plan.agents),
                     !.node = Multi!NodeOf(plan, Multi!Members(plan.agents))]
  BY DEF Multi!PlanIncident
<1>2. /\ DOMAIN st = MultiFields /\ st.node = "Supervisor" /\ ~Planned
      /\ st.completed = <<>> /\ st.evidence = {} /\ st.diagnosis = "none"
      /\ st.repairPlan = FALSE
  BY DEF Multi!PlanIncident, MultiInv, Unplanned, Planned
<1>3. /\ DOMAIN st' = MultiFields /\ st'.plan = plan
      /\ st'.pending = Multi!Members(plan.agents) /\ st'.completed = <<>>
      /\ st'.evidence = {} /\ st'.diagnosis = "none" /\ st'.repairPlan = FALSE
      /\ st'.error = st.error
      /\ st'.node = Multi!NodeOf(plan, Multi!Members(plan.agents))
  BY <1>1, <1>2 DEF MultiFields
<1>4. /\ plan # Multi!NoPlan /\ "report" \in Multi!Members(plan.agents)
      /\ Multi!Members(plan.agents) \subseteq Multi!AgentNames
  BY <1>1, PlanIs
<1>5. \E agent \in Multi!Members(plan.agents) :
         /\ st'.node = Multi!AgentNode[agent]
         /\ \A other \in Multi!Members(plan.agents) : Multi!Rank(agent) <= Multi!Rank(other)
  BY <1>1, <1>3, <1>4, NodeOfIs
<1>6. st.error # "handoffs"
  BY <1>2 DEF MultiInv, Unplanned
<1>7. Queue'
  BY <1>1, <1>3, <1>4, <1>5, <1>6, RankOrder DEF Queue
<1>8. Ordered' /\ Accounted' /\ Reported' /\ Diagnosed'
  BY <1>3, <1>4 DEF Ordered, Accounted, Reported, Diagnosed
<1>9. Planned'
  BY <1>3, <1>4 DEF Planned
<1> QED
  BY <1>3, <1>7, <1>8, <1>9 DEF MultiInv, Unplanned

LEMMA StopAtLimitKeeps == ASSUME MultiInv, Multi!StopAtLimit PROVE MultiInv'
<1>1. /\ DOMAIN st = MultiFields /\ Planned /\ Queue /\ Ordered /\ Diagnosed
      /\ st.node = "Supervisor"
  BY DEF Multi!StopAtLimit, MultiInv, Planned
<1>2. /\ DOMAIN st' = MultiFields /\ st'.plan = st.plan /\ st'.pending = {}
      /\ st'.completed = st.completed /\ st'.error = "handoffs" /\ st'.node = "END"
      /\ st'.evidence = st.evidence /\ st'.diagnosis = st.diagnosis
      /\ st'.repairPlan = st.repairPlan /\ st'.relevance = st.relevance
  BY <1>1 DEF Multi!StopAtLimit, MultiFields
<1>3. Queue' /\ Ordered' /\ Accounted' /\ Reported' /\ Diagnosed'
  BY <1>1, <1>2, RankOrder DEF Queue, Ordered, Accounted, Reported, Diagnosed
<1> QED
  BY <1>1, <1>2, <1>3 DEF MultiInv, Planned, Unplanned

LEMMA HandOverKeeps == ASSUME MultiInv, Multi!HandOver PROVE MultiInv'
<1> DEFINE skipped == IF Multi!SkipsRepair THEN {"repair"} ELSE {}
           rest == st.pending \ skipped
<1>1. /\ DOMAIN st = MultiFields /\ Planned /\ Queue /\ Ordered /\ Accounted /\ Reported
      /\ Diagnosed /\ st.node = "Supervisor"
  BY DEF Multi!HandOver, MultiInv, Planned
<1>2. /\ DOMAIN st' = MultiFields /\ st'.plan = st.plan /\ st'.pending = rest
      /\ st'.errors = st.errors \cup skipped /\ st'.node = Multi!NodeOf(st.plan, rest)
      /\ st'.completed = st.completed /\ st'.error = st.error
      /\ st'.evidence = st.evidence /\ st'.diagnosis = st.diagnosis
      /\ st'.repairPlan = st.repairPlan /\ st'.relevance = st.relevance
      /\ st'.answer = st.answer /\ st'.verdict = st.verdict
  BY <1>1 DEF Multi!HandOver, MultiFields
<1>3. rest \subseteq st.pending /\ ("report" \notin rest => "report" \notin st.pending)
  OBVIOUS
<1>4. Accounted'
  BY <1>1, <1>2 DEF Accounted
<1> HIDE DEF skipped, rest
<1>5. rest \in SUBSET Multi!Members(st.plan.agents)
  BY <1>1, <1>3 DEF Queue
<1>6. \/ rest = {} /\ st'.node = "END"
      \/ \E agent \in rest :
            /\ st'.node = Multi!AgentNode[agent]
            /\ \A other \in rest : Multi!Rank(agent) <= Multi!Rank(other)
  BY <1>1, <1>2, <1>5, NodeOfIs DEF Queue
<1>7. Multi!Members(st.plan.agents) \subseteq Multi!AgentNames
  BY <1>1, PlanIs DEF Queue
<1>8. st.error # "handoffs"
  BY <1>1 DEF Queue
<1>9. Queue'
  BY <1>1, <1>2, <1>5, <1>6, <1>7, <1>8, RankOrder DEF Queue
<1>10. Ordered' /\ Reported' /\ Diagnosed'
  BY <1>1, <1>2, <1>3 DEF Ordered, Reported, Diagnosed
<1> QED
  BY <1>1, <1>2, <1>4, <1>9, <1>10 DEF MultiInv, Planned, Unplanned

LEMMA TopologyKeeps == ASSUME MultiInv, Multi!TopologyAgent PROVE MultiInv'
<1>1. /\ st.node = Multi!AgentNode["topology"]
      /\ \E found \in SUBSET (SignalsOf.topology \cup SignalsOf.logs) :
            st' = [Multi!Completed("topology") EXCEPT !.evidence = @ \cup found]
  BY AgentsAre, MultiIs DEF Multi!TopologyAgent
<1> HIDE DEF MultiInv
<1> QED
  BY <1>1, Looks

LEMMA LogKeeps == ASSUME MultiInv, Multi!LogAgent PROVE MultiInv'
<1>1. /\ st.node = Multi!AgentNode["logs"]
      /\ \E found \in SUBSET (SignalsOf.topology \cup SignalsOf.logs) :
            st' = [Multi!Completed("logs") EXCEPT !.evidence = @ \cup found]
  BY AgentsAre, MultiIs DEF Multi!LogAgent
<1> QED
  BY <1>1, Looks

\* The diagnosis counts what it has just seen: with low documents left out.
LEMMA DiagnosisKeeps == ASSUME MultiInv, Multi!DiagnosisAgent PROVE MultiInv'
<1>0. /\ "diagnosis" \in Multi!AgentNames /\ st.node = Multi!AgentNode["diagnosis"]
      /\ {} \in SUBSET Multi!AgentNames
  BY AgentsAre DEF Multi!DiagnosisAgent
<1>1. /\ DOMAIN st = MultiFields /\ Planned /\ Queue /\ Ordered /\ Accounted /\ Reported
      /\ Diagnosed /\ st.error # "handoffs" /\ st.diagnosis = "none" /\ ~st.repairPlan
  <2>1. /\ DOMAIN st = MultiFields /\ Planned /\ Queue /\ Ordered /\ Accounted /\ Reported
        /\ Diagnosed /\ st.error # "handoffs" /\ "diagnosis" \in st.pending
    BY <1>0, AtWork DEF MultiInv
  <2> QED
    BY <2>1 DEF Diagnosed
<1>2. PICK device \in Multi!Found("monitoring"), cases \in Multi!Found("knowledge"),
           grade \in (IF Multi!Asks("knowledge") THEN {"low", "high"} ELSE {st.relevance}) :
        LET after == Multi!Investigated(device, cases, grade)
            again == /\ Multi!Asks("knowledge") /\ grade = "low"
                     /\ after.diagnosisIteration < limits.iterations
            counted == IF grade = "low" THEN after.evidence \ Multi!SignalsOf.knowledge
                       ELSE after.evidence
        IN  \/ /\ again
               /\ st' = [after EXCEPT !.query = @ + 1, !.handoffs = @ + 1,
                            !.node = "Supervisor"]
            \/ /\ ~again
               /\ st' = [after EXCEPT !.diagnosis = Multi!Cause(counted),
                            !.pending = @ \ {"diagnosis"},
                            !.completed = Append(@, "diagnosis"),
                            !.handoffs = @ + 1, !.node = "Supervisor"]
  BY DEF Multi!DiagnosisAgent
<1> DEFINE after == Multi!Investigated(device, cases, grade)
           seen == (st.evidence \cap (SignalsOf.topology \cup SignalsOf.logs))
                       \cup device \cup cases
           counted == IF grade = "low" THEN seen \ SignalsOf.knowledge ELSE seen
<1>3. /\ DOMAIN after = MultiFields /\ after.evidence = seen /\ after.relevance = grade
      /\ after.plan = st.plan /\ after.pending = st.pending
      /\ after.completed = st.completed /\ after.errors = st.errors
      /\ after.error = st.error /\ after.diagnosis = st.diagnosis
      /\ after.repairPlan = st.repairPlan
  BY <1>1, MultiIs DEF Multi!Investigated, MultiFields
<1>4. \/ st' = [after EXCEPT !.query = @ + 1, !.handoffs = @ + 1, !.node = "Supervisor"]
      \/ st' = [after EXCEPT !.diagnosis = Cause(counted), !.pending = @ \ {"diagnosis"},
                   !.completed = Append(@, "diagnosis"),
                   !.handoffs = @ + 1, !.node = "Supervisor"]
  BY <1>2, <1>3, MultiIs
<1>5. seen \cap SignalsOf.monitoring # {} => "monitoring" \in Required(st.plan.analysis)
  <2>1. device # {} => "monitoring" \in Required(st.plan.analysis)
    BY <1>2, MultiIs DEF Multi!Found, Multi!Asks
  <2>2. cases \subseteq {"case"}
    BY <1>2, MultiIs, SignalsAre, SourcesAre DEF Multi!Found
  <2> QED
    BY <2>1, <2>2, SignalsAre
<1>6. Cause(counted) = "confirmed" =>
        /\ seen \cap SignalsOf.monitoring # {}
        /\ grade = "low" => Score(seen \ SignalsOf.knowledge) >= 50
  BY ScoreNeeds DEF Cause
<1>7. Cause(counted) # "none"
  BY DEF Cause
<1> HIDE DEF after, seen, counted
<1>8. CASE st' = [after EXCEPT !.query = @ + 1, !.handoffs = @ + 1, !.node = "Supervisor"]
  <2>1. /\ DOMAIN st' = MultiFields /\ st'.plan = st.plan /\ st'.pending = st.pending
        /\ st'.completed = st.completed /\ st'.errors = st.errors /\ st'.error = st.error
        /\ st'.node = "Supervisor" /\ st'.evidence = seen /\ st'.diagnosis = "none"
        /\ st'.repairPlan = st.repairPlan
    BY <1>1, <1>3, <1>8 DEF MultiFields
  <2>2. Queue' /\ Ordered' /\ Accounted'
    BY <1>1, <2>1, RankOrder DEF Queue, Ordered, Accounted
  <2>3. Reported'
    BY <1>0, <2>1, AtWork DEF Reported
  <2>4. Diagnosed'
    BY <1>1, <1>5, <2>1 DEF Diagnosed
  <2> QED
    BY <1>1, <2>1, <2>2, <2>3, <2>4 DEF MultiInv, Planned, Unplanned
<1>9. CASE st' = [after EXCEPT !.diagnosis = Cause(counted), !.pending = @ \ {"diagnosis"},
                     !.completed = Append(@, "diagnosis"),
                     !.handoffs = @ + 1, !.node = "Supervisor"]
  <2>1. /\ DOMAIN st' = MultiFields /\ st'.plan = st.plan
        /\ st'.pending = st.pending \ ({"diagnosis"} \cup {})
        /\ st'.completed = Append(st.completed, "diagnosis")
        /\ st'.errors = st.errors \cup {} /\ st'.error = st.error
        /\ st'.node = "Supervisor" /\ st'.evidence = seen /\ st'.diagnosis = Cause(counted)
        /\ st'.repairPlan = st.repairPlan /\ st'.relevance = grade
    BY <1>1, <1>3, <1>9 DEF MultiFields
  <2>2. Queue' /\ Ordered' /\ Accounted'
    BY <1>0, <1>1, <2>1, HandsBack
  <2>3. Reported'
    BY <1>0, <2>1, StillDue
  <2>4. Diagnosed'
    BY <1>1, <1>5, <1>6, <2>1 DEF Diagnosed
  <2> QED
    BY <1>1, <2>1, <2>2, <2>3, <2>4 DEF MultiInv, Planned, Unplanned
<1> QED
  BY <1>4, <1>8, <1>9

LEMMA RepairKeeps == ASSUME MultiInv, Multi!RepairAgent PROVE MultiInv'
<1>0. /\ "repair" \in Multi!AgentNames /\ st.node = Multi!AgentNode["repair"]
      /\ {} \in SUBSET Multi!AgentNames
  BY AgentsAre DEF Multi!RepairAgent
<1>1. /\ DOMAIN st = MultiFields /\ Planned /\ Queue /\ Diagnosed
      /\ st.error # "handoffs" /\ "repair" \in st.pending
  BY <1>0, AtWork DEF MultiInv
<1>2. /\ DOMAIN st' = MultiFields /\ st'.plan = st.plan
      /\ st'.pending = st.pending \ ({"repair"} \cup {})
      /\ st'.completed = Append(st.completed, "repair") /\ st'.errors = st.errors \cup {}
      /\ st'.error = st.error /\ st'.node = "Supervisor" /\ st'.evidence = st.evidence
      /\ st'.diagnosis = st.diagnosis /\ st'.diagnosis # "none"
      /\ st'.relevance = st.relevance
  BY <1>1 DEF Multi!RepairAgent, Multi!Completed, MultiFields
<1>3. st.plan.repair
  BY <1>1, PlanIs DEF Queue
<1>4. Queue' /\ Ordered' /\ Accounted'
  BY <1>0, <1>1, <1>2, HandsBack
<1>5. Reported'
  BY <1>0, <1>2, StillDue
<1>6. Diagnosed'
  BY <1>1, <1>2, <1>3 DEF Diagnosed
<1> QED
  BY <1>1, <1>2, <1>4, <1>5, <1>6 DEF MultiInv, Planned, Unplanned

LEMMA AgentFailsKeeps == ASSUME MultiInv, Multi!AgentFails PROVE MultiInv'
<1>1. PICK agent \in Multi!AgentNames \ {"report"} :
        /\ st.node = Multi!AgentNode[agent]
        /\ LET skipped == {agent} \cup (IF agent = "diagnosis" THEN {"repair"} ELSE {})
           IN  st' = [Multi!Completed(agent) EXCEPT !.pending = @ \ skipped,
                         !.errors = @ \cup skipped]
  BY DEF Multi!AgentFails
<1> DEFINE skipped == {agent} \cup (IF agent = "diagnosis" THEN {"repair"} ELSE {})
<1>2. /\ skipped \in SUBSET Multi!AgentNames /\ "report" \notin skipped
      /\ agent \in Multi!AgentNames /\ agent # "report"
  BY AgentsAre
<1>3. st' = [Multi!Completed(agent) EXCEPT !.pending = @ \ skipped, !.errors = @ \cup skipped]
  BY <1>1
<1> HIDE DEF skipped
<1>4. DOMAIN st = MultiFields /\ Planned /\ Queue /\ Diagnosed /\ st.error # "handoffs"
  BY <1>1, <1>2, AtWork DEF MultiInv
<1>5. /\ DOMAIN st' = MultiFields /\ st'.plan = st.plan
      /\ st'.pending = st.pending \ ({agent} \cup skipped)
      /\ st'.completed = Append(st.completed, agent) /\ st'.errors = st.errors \cup skipped
      /\ st'.error = st.error /\ st'.node = "Supervisor" /\ st'.evidence = st.evidence
      /\ st'.diagnosis = st.diagnosis /\ st'.repairPlan = st.repairPlan
      /\ st'.relevance = st.relevance
  BY <1>3, <1>4 DEF Multi!Completed, MultiFields
<1>6. Queue' /\ Ordered' /\ Accounted'
  BY <1>1, <1>2, <1>4, <1>5, HandsBack
<1>7. Reported'
  BY <1>1, <1>2, <1>5, StillDue
<1>8. Diagnosed'
  BY <1>4, <1>5 DEF Diagnosed
<1> QED
  BY <1>4, <1>5, <1>6, <1>7, <1>8 DEF MultiInv, Planned, Unplanned

\* When the report's turn has come, only the report is pending.
LEMMA ReportIsLast ==
    ASSUME MultiInv, st.node = "ReportAgent"
    PROVE  st.pending = {"report"}
<1>1. "report" \in Multi!AgentNames /\ st.node = Multi!AgentNode["report"]
  BY AgentsAre
<1>2. /\ "report" \in st.pending /\ st.pending \subseteq Multi!AgentNames
      /\ \A other \in st.pending : Multi!Rank("report") <= Multi!Rank(other)
  BY <1>1, AtWork
<1> QED
  BY <1>2, AgentsAre, RanksAre

LEMMA ReportKeeps == ASSUME MultiInv, Multi!ReportAgent PROVE MultiInv'
<1>0. /\ "report" \in Multi!AgentNames /\ st.node = Multi!AgentNode["report"]
      /\ {} \in SUBSET Multi!AgentNames /\ st.pending = {"report"}
  BY AgentsAre, ReportIsLast DEF Multi!ReportAgent
<1>1. /\ DOMAIN st = MultiFields /\ Planned /\ Queue /\ Ordered /\ Accounted /\ Diagnosed
      /\ st.error # "handoffs"
  BY <1>0, AtWork DEF MultiInv
<1>2. /\ DOMAIN st' = MultiFields /\ st'.plan = st.plan /\ st'.errors = st.errors
      /\ st'.node = "Supervisor" /\ st'.evidence = st.evidence
      /\ st'.diagnosis = st.diagnosis /\ st'.repairPlan = st.repairPlan
      /\ st'.relevance = st.relevance /\ st'.answer = "report" /\ st'.error # "handoffs"
      /\ \/ /\ st'.pending = {} /\ st'.completed = Append(st.completed, "report")
            /\ st'.error = "none" => st'.verdict = "approved"
         \/ st'.pending = st.pending /\ st'.completed = st.completed
  <2> DEFINE done == Multi!Completed("report")
             attempt == st.reportIteration + 1
             written(s, verdict) ==
                [s EXCEPT !.answer = "report", !.verdict = verdict,
                    !.reportIteration = attempt,
                    !.iteration = Multi!Larger(attempt, st.diagnosisIteration)]
  <2>1. /\ DOMAIN done = MultiFields /\ done.plan = st.plan /\ done.errors = st.errors
        /\ done.node = "Supervisor" /\ done.evidence = st.evidence
        /\ done.diagnosis = st.diagnosis /\ done.repairPlan = st.repairPlan
        /\ done.relevance = st.relevance /\ done.error = st.error
        /\ done.pending = {} /\ done.completed = Append(st.completed, "report")
    BY <1>0, <1>1 DEF Multi!Completed, MultiFields
  <2>2. \/ st' = written(done, "approved")
        \/ st' = [written(done, "rejected") EXCEPT !.error = "budget"]
        \/ st' = [written(st, "rejected") EXCEPT !.handoffs = @ + 1, !.node = "Supervisor"]
    BY DEF Multi!ReportAgent
  <2> HIDE DEF done, attempt
  <2>3. CASE st' = written(done, "approved")
    BY <1>1, <2>1, <2>3 DEF MultiFields
  <2>4. CASE st' = [written(done, "rejected") EXCEPT !.error = "budget"]
    BY <1>1, <2>1, <2>4 DEF MultiFields
  <2>5. CASE st' = [written(st, "rejected") EXCEPT !.handoffs = @ + 1, !.node = "Supervisor"]
    BY <1>1, <2>5 DEF MultiFields
  <2> QED
    BY <2>2, <2>3, <2>4, <2>5
<1>3. CASE /\ st'.pending = {} /\ st'.completed = Append(st.completed, "report")
           /\ st'.error = "none" => st'.verdict = "approved"
  <2>1. st'.pending = st.pending \ ({"report"} \cup {}) /\ st'.errors = st.errors \cup {}
    BY <1>0, <1>2, <1>3
  <2>2. Queue' /\ Ordered' /\ Accounted'
    BY <1>0, <1>2, <1>3, <2>1, HandsBack
  <2>3. /\ Len(st'.completed) \in DOMAIN st'.completed
        /\ st'.completed[Len(st'.completed)] = "report"
    BY <1>0, <1>1, <1>3 DEF Ordered
  <2>4. Reported' /\ Diagnosed'
    BY <1>1, <1>2, <1>3, <2>3 DEF Reported, Diagnosed
  <2> QED
    BY <1>1, <1>2, <2>2, <2>4 DEF MultiInv, Planned, Unplanned
<1>4. CASE st'.pending = st.pending /\ st'.completed = st.completed
  <2>1. Queue' /\ Ordered' /\ Accounted' /\ Reported' /\ Diagnosed'
    BY <1>0, <1>1, <1>2, <1>4, RankOrder
    DEF Queue, Ordered, Accounted, Reported, Diagnosed
  <2> QED
    BY <1>1, <1>2, <2>1 DEF MultiInv, Planned, Unplanned
<1> QED
  BY <1>2, <1>3, <1>4

LEMMA ReportFailsKeeps == ASSUME MultiInv, Multi!ReportFails PROVE MultiInv'
<1>0. /\ "report" \in Multi!AgentNames /\ st.node = Multi!AgentNode["report"]
      /\ st.pending = {"report"}
  BY AgentsAre, ReportIsLast DEF Multi!ReportFails
<1>1. /\ DOMAIN st = MultiFields /\ Planned /\ Queue /\ Ordered /\ Accounted /\ Diagnosed
      /\ st.error # "handoffs"
  BY <1>0, AtWork DEF MultiInv
<1>2. /\ DOMAIN st' = MultiFields /\ st'.plan = st.plan /\ st'.pending = {}
      /\ st'.errors = st.errors \cup {"report"} /\ st'.completed = st.completed
      /\ st'.node = "END" /\ st'.error = "node" /\ st'.evidence = st.evidence
      /\ st'.diagnosis = st.diagnosis /\ st'.repairPlan = st.repairPlan
      /\ st'.relevance = st.relevance
  BY <1>0, <1>1 DEF Multi!ReportFails, MultiFields
<1>3. Queue' /\ Ordered' /\ Accounted' /\ Reported' /\ Diagnosed'
  BY <1>0, <1>1, <1>2, RankOrder DEF Queue, Ordered, Accounted, Reported, Diagnosed
<1> QED
  BY <1>1, <1>2, <1>3 DEF MultiInv, Planned, Unplanned

LEMMA SupervisorFailsKeeps == ASSUME MultiInv, Multi!SupervisorFails PROVE MultiInv'
<1>1. DOMAIN st = MultiFields /\ ~Planned /\ Unplanned
  BY DEF Multi!SupervisorFails, MultiInv, Planned
<1>2. /\ DOMAIN st' = MultiFields /\ st'.plan = st.plan /\ st'.node = "END"
      /\ st'.error = "node" /\ st'.pending = st.pending /\ st'.completed = st.completed
      /\ st'.evidence = st.evidence /\ st'.diagnosis = st.diagnosis
      /\ st'.repairPlan = st.repairPlan
  BY <1>1 DEF Multi!SupervisorFails, MultiFields
<1> QED
  BY <1>1, <1>2 DEF MultiInv, Planned, Unplanned

LEMMA MultiGoesOn == ASSUME MultiInv, Multi!Next PROVE MultiInv'
BY PlanIncidentKeeps, StopAtLimitKeeps, HandOverKeeps, TopologyKeeps, LogKeeps,
   DiagnosisKeeps, RepairKeeps, ReportKeeps, SupervisorFailsKeeps, ReportFailsKeeps,
   AgentFailsKeeps
DEF Multi!Next

-------------------------------------------------------------------------------
(***************************************************************************)
(* The service runs one of the graphs, afresh for the chat that is         *)
(* followed, and no other step of any chat touches its state.              *)
(***************************************************************************)
GraphInv ==
    /\ flow \in {"agent", "diagnosis", "multi"}
    /\ flow = "agent" => AgentInv
    /\ flow = "diagnosis" => DiagnosisInv
    /\ flow = "multi" => MultiInv

LEMMA GraphStarts == ASSUME flow \in {"agent", "diagnosis", "multi"}, st = Asked PROVE GraphInv
BY AgentStarts, DiagnosisStarts, MultiStarts DEF GraphInv, Asked

LEMMA GraphRests == ASSUME GraphInv, UNCHANGED <<flow, st>> PROVE GraphInv'
BY DEF GraphInv, AgentInv, AgentFields, FromDocuments, Agent!NeedsDocuments, DiagnosisInv,
       MultiInv, MultiFields, Unplanned, Planned, Queue, Ordered, Accounted, Reported, Diagnosed

\* The steps of streams that are not supersteps of the graph.
Aside ==
    \/ Ask
    \/ \E c \in 1..MaxChats : SendAnswer(c) \/ Remember(c) \/ SendError(c) \/ Disconnect(c)
    \/ UNCHANGED vars

LEMMA AsideIs == ASSUME Aside PROVE UNCHANGED <<flow, limits, followed, st, steps>>
BY DEF Aside, Ask, SendAnswer, Remember, SendError, Disconnect, vars

LEMMA NextIs ==
    ASSUME [Next]_vars
    PROVE  \/ Step(Agent!Next, "agent") \/ Step(Diagnosis!Next, "diagnosis")
           \/ Step(Multi!Next, "multi") \/ Aside
BY DEF Next, Stream, Graph, Aside

LEMMA GraphGoesOn == ASSUME GraphInv, [Next]_vars PROVE GraphInv'
<1>1. CASE Step(Agent!Next, "agent")
  BY <1>1, AgentGoesOn DEF Step, GraphInv
<1>2. CASE Step(Diagnosis!Next, "diagnosis")
  BY <1>2, DiagnosisGoesOn DEF Step, GraphInv
<1>3. CASE Step(Multi!Next, "multi")
  BY <1>3, MultiGoesOn DEF Step, GraphInv
<1>4. CASE Aside
  BY <1>4, AsideIs, GraphRests
<1> QED
  BY <1>1, <1>2, <1>3, <1>4, NextIs

LEMMA GraphAlways == Spec => []GraphInv
<1>1. Init => GraphInv
  BY GraphStarts, FlowsAssumption DEF Init
<1> QED
  BY <1>1, GraphGoesOn, PTL DEF Spec

\* An answer without an error is approved, grounded in documents of its query when
\* it needs them, and names a confirmed cause only with a signal of the monitoring
\* the plan asked for: in all three graphs, for every plan and every failure.
THEOREM AnswerSound == Spec => []AnswerIsSound
<1>1. GraphInv => AnswerIsSound
  <2> SUFFICES ASSUME GraphInv PROVE AnswerIsSound
    OBVIOUS
  <2>1. CASE flow = "agent"
    BY <2>1 DEF GraphInv, AgentInv, FromDocuments, AnswerIsSound, Approved, Grounded,
                Supported, Ended
  <2>2. CASE flow = "diagnosis"
    BY <2>2, SourcesAre
    DEF GraphInv, DiagnosisInv, AnswerIsSound, Approved, Grounded, Supported, Ended
  <2>3. CASE flow = "multi"
    <3>1. Approved
      BY <2>3, AgentsAre
      DEF GraphInv, MultiInv, Unplanned, Queue, Reported, Approved, Ended
    <3>2. Supported
      BY <2>3 DEF GraphInv, MultiInv, Unplanned, Diagnosed, Supported
    <3> QED
      BY <2>3, <3>1, <3>2 DEF AnswerIsSound, Grounded
  <2> QED
    BY <2>1, <2>2, <2>3 DEF GraphInv
<1> QED
  BY <1>1, GraphAlways, PTL

\* No agent of a plan is lost: when a run ends without the limit, each has finished,
\* in the order of the ranks, or is named among the errors; the report comes last.
THEOREM AgentsAccountedFor == Spec => []AgentsAccounted
<1>1. GraphInv => AgentsAccounted
  <2> SUFFICES ASSUME GraphInv, flow = "multi" PROVE AgentsAccounted
    BY DEF AgentsAccounted
  <2>1. MultiInv
    BY DEF GraphInv
  <2>2. CASE ~Planned
    BY <2>1, <2>2 DEF MultiInv, Unplanned, Planned, AgentsAccounted, Ended
  <2>3. CASE Planned
    <3>1. Queue /\ Ordered /\ Accounted /\ Reported /\ Diagnosed
      BY <2>1, <2>3 DEF MultiInv
    <3>2. \A i, j \in DOMAIN st.completed :
             i < j => Multi!Rank(st.completed[i]) < Multi!Rank(st.completed[j])
      BY <3>1 DEF Ordered
    <3>3. st.repairPlan => st.diagnosis # "none" /\ st.plan.repair
      BY <3>1 DEF Diagnosed
    <3>4. Ended /\ st.error # "handoffs" =>
            \A agent \in Multi!Members(st.plan.agents) :
               agent \in Multi!Members(st.completed) \cup st.errors
      BY <3>1 DEF Queue, Accounted, Ended
    <3>5. Ended /\ st.error = "none" => st.completed[Len(st.completed)] = "report"
      BY <3>1 DEF Queue, Reported, Ended
    <3> QED
      BY <3>2, <3>3, <3>4, <3>5 DEF AgentsAccounted
  <2> QED
    BY <2>2, <2>3
<1> QED
  BY <1>1, GraphAlways, PTL

-------------------------------------------------------------------------------
(***************************************************************************)
(* What a run has spent of its budgets.  Node by node: how many supersteps *)
(* the stream has counted there, and that the rounds that are left cannot  *)
(* take more than the longest run has.  The types of the graph's state go  *)
(* along, since rounds are only counted in numbers.                        *)
(***************************************************************************)
IsRecord(s) == s = [field \in DOMAIN s |-> s[field]]

\* The stream counts a superstep under the limits the workflow was built with.
Counted ==
    /\ limits.iterations \in 1..3 /\ limits.handoffs \in 1..32
    /\ steps \in Nat
    /\ steps' = steps + 1 /\ limits' = limits

\* The states of AgentWorkflow, field by field.
AgentTypes(s) ==
    /\ DOMAIN s = AgentFields
    /\ s.node \in Agent!RetryNodes \cup {"Router", "END"} /\ s.intent \in Agent!Intents
    /\ s.query \in Nat /\ s.documents \in Nat /\ s.iteration \in Nat
    /\ s.relevance \in {"none", "low", "high"}
    /\ s.answer \in {"empty", "draft", "fallback", "noEvidence"}
    /\ s.verdict \in {"none", "approved", "rejected"}
    /\ s.feedback \in {"none", "rejected"} /\ s.error \in {"none", "node", "budget"}

LEMMA AgentStatesAre ==
    ASSUME NEW s PROVE s \in Agent!States <=> IsRecord(s) /\ AgentTypes(s)
BY DEF Agent!States, AgentFields, AgentTypes, IsRecord

LEMMA AgentTyped ==
    ASSUME AgentTypes(st), Agent!Next PROVE AgentTypes(st') /\ IsRecord(st')
<1>0. IsRecord(st')
  BY DEF Agent!Next, Agent!QueryAnalyzer, Agent!Router, Agent!Retrieval,
         Agent!DocumentGrader, Agent!QueryRewrite, Agent!Generator,
         Agent!HallucinationChecker, Agent!HandleError, IsRecord
<1> SUFFICES AgentTypes(st')
  BY <1>0
<1> USE DEF AgentTypes, AgentFields, Agent!RetryNodes
<1>1. CASE Agent!QueryAnalyzer
  BY <1>1 DEF Agent!QueryAnalyzer, Agent!Asked
<1>2. CASE Agent!Router
  BY <1>2 DEF Agent!Router
<1>3. CASE Agent!Retrieval
  BY <1>3 DEF Agent!Retrieval
<1>4. CASE Agent!DocumentGrader
  BY <1>4 DEF Agent!DocumentGrader
<1>5. CASE Agent!QueryRewrite
  BY <1>5 DEF Agent!QueryRewrite
<1>6. CASE Agent!Generator
  BY <1>6 DEF Agent!Generator
<1>7. CASE Agent!HallucinationChecker
  BY <1>7 DEF Agent!HallucinationChecker
<1>8. CASE Agent!HandleError
  BY <1>8 DEF Agent!HandleError
<1> QED
  BY <1>1, <1>2, <1>3, <1>4, <1>5, <1>6, <1>7, <1>8 DEF Agent!Next

\* A rewrite takes four supersteps and an iteration, another answer two and an
\* iteration, so that the longest run takes 4 * iterations + 2.
AgentSpent ==
    /\ st.iteration <= limits.iterations
    /\ st.node \in {"QueryAnalyzer", "Router", "Retrieval", "DocumentGrader",
                    "QueryRewrite"} => st.feedback = "none"
    /\ st.node \in {"Router", "Retrieval", "QueryRewrite"} =>
          st.iteration < limits.iterations
    /\ st.node = "QueryAnalyzer" => steps = 0
    /\ st.node = "Router" => steps = 4 * st.iteration + 1
    /\ st.node = "Retrieval" => steps = 4 * st.iteration + 2
    /\ st.node = "DocumentGrader" => st.iteration > 0 /\ steps = 4 * st.iteration - 1
    /\ st.node = "QueryRewrite" => st.iteration > 0 /\ steps = 4 * st.iteration
    /\ st.node = "Generator" =>
          /\ Agent!ConsumesIteration => st.iteration < limits.iterations
          /\ steps + (IF Agent!ConsumesIteration THEN 0 ELSE 2)
                <= 2 * limits.iterations + 2 * st.iteration + 2
    /\ st.node = "HallucinationChecker" =>
          steps <= 2 * limits.iterations + 2 * st.iteration + 1
    /\ steps <= 4 * limits.iterations + 2
    /\ st.node = "END" => st.answer # "empty"

LEMMA AgentSpends ==
    ASSUME AgentInv, AgentTypes(st), AgentSpent, Counted, Agent!Next
    PROVE  AgentSpent'
<1>1. /\ st.iteration \in Nat /\ st.iteration <= limits.iterations
      /\ limits.iterations \in 1..3 /\ steps \in Nat
      /\ steps' = steps + 1 /\ limits' = limits
      /\ steps <= 4 * limits.iterations + 2
      /\ DOMAIN st = AgentFields
  BY DEF AgentSpent, Counted, AgentTypes
<1>2. CASE Agent!QueryAnalyzer
  <2>1. st'.node = "Router" /\ st'.iteration = 0 /\ st'.feedback = "none" /\ steps = 0
    BY <1>2 DEF Agent!QueryAnalyzer, Agent!Asked, AgentSpent
  <2> QED
    BY <1>1, <2>1 DEF AgentSpent
<1>3. CASE Agent!Router
  <2>1. /\ st.node = "Router" /\ st'.node \in {"Generator", "Retrieval"}
        /\ st'.iteration = st.iteration /\ st'.feedback = "none"
    BY <1>1, <1>3 DEF Agent!Router, AgentFields, AgentSpent
  <2>2. st.iteration < limits.iterations /\ steps = 4 * st.iteration + 1
    BY <2>1 DEF AgentSpent
  <2>3. Agent!ConsumesIteration' <=> st.iteration = 0
    BY <2>1 DEF Agent!ConsumesIteration
  <2>4. /\ st'.iteration <= limits'.iterations /\ st'.iteration < limits'.iterations
        /\ steps' = 4 * st'.iteration + 2 /\ steps' <= 4 * limits'.iterations + 2
    BY ONLY <1>1, <2>1, <2>2
  <2>5. steps' + 2 <= 2 * limits'.iterations + 2 * st'.iteration + 2
           \/ Agent!ConsumesIteration'
    BY ONLY <1>1, <2>1, <2>2, <2>3
  <2>6. steps' <= 2 * limits'.iterations + 2 * st'.iteration + 2
    BY ONLY <1>1, <2>1, <2>2, <2>4
  <2>7. CASE Agent!ConsumesIteration'
    BY <1>1, <2>1, <2>4, <2>6, <2>7 DEF AgentSpent
  <2>8. CASE ~Agent!ConsumesIteration'
    BY <1>1, <2>1, <2>4, <2>5, <2>8 DEF AgentSpent
  <2> QED
    BY <2>7, <2>8
<1>4. CASE Agent!Retrieval
  <2>1. /\ st.node = "Retrieval" /\ st'.node \in {"Generator", "DocumentGrader"}
        /\ st'.iteration = st.iteration + 1 /\ st'.feedback = "none"
    BY <1>1, <1>4 DEF Agent!Retrieval, AgentFields, AgentSpent
  <2>2. st.iteration < limits.iterations /\ steps = 4 * st.iteration + 2
    BY <2>1 DEF AgentSpent
  <2> QED
    BY <1>1, <2>1, <2>2 DEF AgentSpent, Agent!ConsumesIteration
<1>5. CASE Agent!DocumentGrader
  <2>1. /\ st.node = "DocumentGrader"
        /\ \/ st'.node = "Generator"
           \/ st'.node = "END" /\ st'.answer = "noEvidence"
           \/ st'.node = "QueryRewrite" /\ st.iteration < limits.iterations
        /\ st'.iteration = st.iteration /\ st'.feedback = "none"
    BY <1>1, <1>5 DEF Agent!DocumentGrader, AgentFields, AgentSpent
  <2>2. st.iteration > 0 /\ steps = 4 * st.iteration - 1
    BY <2>1 DEF AgentSpent
  <2> QED
    BY <1>1, <2>1, <2>2 DEF AgentSpent, Agent!ConsumesIteration
<1>6. CASE Agent!QueryRewrite
  <2>1. /\ st.node = "QueryRewrite" /\ st'.node = "Router"
        /\ st'.iteration = st.iteration /\ st'.feedback = "none"
    BY <1>1, <1>6 DEF Agent!QueryRewrite, AgentFields, AgentSpent
  <2> QED
    BY <1>1, <2>1 DEF AgentSpent
<1>7. CASE Agent!Generator
  <2>1. /\ st.node = "Generator" /\ st'.node = "HallucinationChecker"
        /\ st'.iteration = IF Agent!ConsumesIteration THEN st.iteration + 1
                           ELSE st.iteration
    BY <1>1, <1>7 DEF Agent!Generator, AgentFields
  <2> QED
    BY <1>1, <2>1 DEF AgentSpent
<1>8. CASE Agent!HallucinationChecker
  <2>1. /\ st.node = "HallucinationChecker" /\ st'.answer = "draft"
        /\ \/ st'.node = "END"
           \/ /\ st'.node = "Generator" /\ st.iteration < limits.iterations
              /\ st'.feedback = "rejected"
        /\ st'.iteration = st.iteration
    BY <1>1, <1>8 DEF Agent!HallucinationChecker, AgentInv, AgentFields
  <2>2. steps <= 2 * limits.iterations + 2 * st.iteration + 1
    BY <2>1 DEF AgentSpent
  <2>3. st'.node = "Generator" => Agent!ConsumesIteration'
    BY <2>1 DEF Agent!ConsumesIteration
  <2> QED
    BY <1>1, <2>1, <2>2, <2>3 DEF AgentSpent
<1>9. CASE Agent!HandleError
  <2>1. /\ st.node \in Agent!RetryNodes /\ st'.node = "END" /\ st'.answer # "empty"
        /\ st'.iteration = st.iteration
    BY <1>1, <1>9 DEF Agent!HandleError, AgentFields
  <2> QED
    BY <1>1, <2>1 DEF AgentSpent, Agent!RetryNodes
<1> QED
  BY <1>2, <1>3, <1>4, <1>5, <1>6, <1>7, <1>8, <1>9 DEF Agent!Next

-------------------------------------------------------------------------------
\* The nodes of DiagnosisWorkflow after a source: a later one, or the correlator.
LEMMA NextAfterGoesOn ==
    ASSUME NEW i \in Nat, NEW required
    PROVE  \/ Diagnosis!NextAfter(i, required) = "EvidenceCorrelator"
           \/ \E j \in DOMAIN Sources : /\ i < j
                 /\ Diagnosis!NextAfter(i, required) = Diagnosis!SourceNode[Sources[j]]
<1> DEFINE later == {j \in (i + 1)..Len(Sources) : Sources[j] \in required}
           first == CHOOSE j \in later : \A k \in later : j <= k
<1>1. ASSUME later # {} PROVE first \in later
  <2>1. later \subseteq 1..5
    BY SourcesAre
  <2>2. \E j \in later : \A k \in later : j <= k
    BY <1>1, <2>1, LeastIs
  <2> HIDE DEF later
  <2> QED
    BY <2>2
<1>2. first \in later => first \in DOMAIN Sources /\ i < first
  BY SourcesAre
<1>3. Diagnosis!NextAfter(i, required) =
        IF later = {} THEN "EvidenceCorrelator" ELSE Diagnosis!SourceNode[Sources[first]]
  BY DEF Diagnosis!NextAfter, Diagnosis!Sources, Sources
<1> HIDE DEF later, first
<1> QED
  BY <1>1, <1>2, <1>3

LEMMA DiagnosisNodesAre ==
    /\ Diagnosis!RetryNodes = {"QueryAnalyzer", "EvidenceCorrelator", "Generator",
          "HallucinationChecker", "TopologyTool", "MonitorTool", "LogTool", "RAG"}
    /\ Diagnosis!Signals = Signals
    /\ \A j \in DOMAIN Sources : Diagnosis!SourceNode[Sources[j]] \in
          {"TopologyTool", "MonitorTool", "LogTool", "RAG"}
    /\ \A i, j \in DOMAIN Sources :
          Diagnosis!SourceNode[Sources[i]] = Diagnosis!SourceNode[Sources[j]] => i = j
    /\ \A j \in DOMAIN Sources : SignalsOf[Sources[j]] \subseteq Signals
<1>1. Diagnosis!RetryNodes = {"QueryAnalyzer", "EvidenceCorrelator", "Generator",
          "HallucinationChecker", "TopologyTool", "MonitorTool", "LogTool", "RAG"}
  <2>1. {Diagnosis!SourceNode[s] : s \in SourceNames} =
           {"TopologyTool", "MonitorTool", "LogTool", "RAG"}
    BY SourcesAre, SourceNodesAre
  <2> QED
    BY <2>1, SourcesAre DEF Diagnosis!RetryNodes
<1>2. Diagnosis!Signals = Signals
  BY SourcesAre, SignalsAre DEF Signals, Diagnosis!Signals
<1>3. DOMAIN Sources = {1, 2, 3, 4}
  BY SourcesAre
<1> QED
  BY <1>1, <1>2, <1>3, SourcesAre, SourceNodesAre, SignalsAre

DiagnosisTypes(s) ==
    /\ DOMAIN s = DiagnosisFields
    /\ s.node \in Diagnosis!RetryNodes \cup {"END"} /\ s.required \subseteq SourceNames
    /\ s.evidence \subseteq Signals /\ s.cause \in {"none", "hypothesis", "confirmed"}
    /\ s.answer \in {"empty", "draft", "fallback"}
    /\ s.verdict \in {"none", "approved", "rejected"} /\ s.iteration \in Nat
    /\ s.error \in {"none", "node", "budget"}

LEMMA DiagnosisStatesAre ==
    ASSUME NEW s PROVE s \in Diagnosis!States <=> IsRecord(s) /\ DiagnosisTypes(s)
BY SourcesAre, DiagnosisNodesAre
DEF Diagnosis!States, DiagnosisFields, DiagnosisTypes, IsRecord

\* Each of the four sources is asked once at most, and each answer takes two
\* supersteps and an iteration: the longest run takes 2 * iterations + 6.
DiagnosisSpent ==
    /\ st.iteration <= limits.iterations
    /\ st.node = "QueryAnalyzer" => steps = 0
    /\ \A i \in DOMAIN Sources : st.node = Diagnosis!SourceNode[Sources[i]] =>
          steps <= i /\ st.iteration = 0
    /\ st.node = "EvidenceCorrelator" => steps <= 5 /\ st.iteration = 0
    /\ st.node = "Generator" =>
          steps <= 2 * st.iteration + 6 /\ st.iteration < limits.iterations
    /\ st.node = "HallucinationChecker" => steps <= 2 * st.iteration + 5
    /\ steps <= 2 * limits.iterations + 6
    /\ st.node = "END" => st.answer # "empty"

LEMMA DiagnosisSpends ==
    ASSUME DiagnosisInv, DiagnosisTypes(st), DiagnosisSpent, Counted, Diagnosis!Next
    PROVE  DiagnosisTypes(st') /\ IsRecord(st') /\ DiagnosisSpent'
<1>0. IsRecord(st')
  BY DEF Diagnosis!Next, Diagnosis!QueryAnalyzer, Diagnosis!SourceTool,
         Diagnosis!EvidenceCorrelator, Diagnosis!Generator,
         Diagnosis!HallucinationChecker, Diagnosis!HandleError, IsRecord
<1>1. /\ st.iteration \in Nat /\ st.iteration <= limits.iterations
      /\ limits.iterations \in 1..3 /\ steps \in Nat
      /\ steps' = steps + 1 /\ limits' = limits
      /\ steps <= 2 * limits.iterations + 6
      /\ DOMAIN st = DiagnosisFields
  BY DEF DiagnosisSpent, Counted, DiagnosisTypes
<1> SUFFICES DiagnosisTypes(st') /\ DiagnosisSpent'
  BY <1>0
<1> USE DiagnosisNodesAre
<1>2. CASE Diagnosis!QueryAnalyzer
  <2>1. PICK plan \in DiagnosisPlans :
          /\ Diagnosis!ValidDiagnosisPlan(plan)
          /\ st' = [Diagnosis!Asked EXCEPT !.required = Diagnosis!Required(plan),
                       !.node = Diagnosis!NextAfter(0, Diagnosis!Required(plan))]
    BY <1>2 DEF Diagnosis!QueryAnalyzer
  <2>2. Diagnosis!Required(plan) \subseteq SourceNames
    BY <2>1, SourcesAre DEF Diagnosis!ValidDiagnosisPlan, Diagnosis!Required
  <2>3. /\ st'.required = Diagnosis!Required(plan) /\ st'.evidence = {} /\ st'.cause = "none"
        /\ st'.error = "none" /\ st'.node = Diagnosis!NextAfter(0, Diagnosis!Required(plan))
        /\ st'.answer = "empty" /\ st'.verdict = "none" /\ st'.iteration = 0
        /\ DOMAIN st' = DiagnosisFields /\ steps = 0
    BY <1>2, <2>1 DEF Diagnosis!Asked, Diagnosis!QueryAnalyzer, DiagnosisSpent, DiagnosisFields
  <2>4. \/ st'.node = "EvidenceCorrelator"
        \/ \E j \in DOMAIN Sources : 0 < j /\ st'.node = Diagnosis!SourceNode[Sources[j]]
    BY <2>3, NextAfterGoesOn
  <2>5. DiagnosisTypes(st')
    BY <2>2, <2>3, <2>4 DEF DiagnosisTypes
  <2>6. DiagnosisSpent'
    BY <1>1, <2>3, <2>4, SourcesAre DEF DiagnosisSpent
  <2> QED
    BY <2>5, <2>6
<1>3. CASE Diagnosis!SourceTool
  <2>1. PICK i \in DOMAIN Sources :
          /\ st.node = Diagnosis!SourceNode[Sources[i]]
          /\ \E found \in SUBSET SignalsOf[Sources[i]] :
                st' = [st EXCEPT !.evidence = @ \cup found,
                          !.node = Diagnosis!NextAfter(i, st.required)]
    BY <1>3, SignalsAre, SourcesAre DEF Diagnosis!SourceTool
  <2>2. PICK found \in SUBSET SignalsOf[Sources[i]] :
          st' = [st EXCEPT !.evidence = @ \cup found,
                    !.node = Diagnosis!NextAfter(i, st.required)]
    BY <2>1
  <2>3. /\ st'.required = st.required /\ st'.evidence = st.evidence \cup found
        /\ st'.cause = st.cause /\ st'.answer = st.answer /\ st'.verdict = st.verdict
        /\ st'.error = st.error /\ st'.node = Diagnosis!NextAfter(i, st.required)
        /\ st'.iteration = st.iteration /\ DOMAIN st' = DiagnosisFields
        /\ found \subseteq Signals /\ i \in 1..4 /\ steps <= i /\ st.iteration = 0
    BY <1>1, <2>1, <2>2, SourcesAre DEF DiagnosisFields, DiagnosisSpent
  <2>4. \/ st'.node = "EvidenceCorrelator"
        \/ \E j \in DOMAIN Sources : i < j /\ st'.node = Diagnosis!SourceNode[Sources[j]]
    BY <2>3, NextAfterGoesOn
  <2>5. DiagnosisTypes(st')
    BY <2>3, <2>4 DEF DiagnosisTypes
  <2>6. DiagnosisSpent'
    BY <1>1, <2>3, <2>4, SourcesAre DEF DiagnosisSpent
  <2> QED
    BY <2>5, <2>6
<1>4. CASE Diagnosis!EvidenceCorrelator
  <2>1. /\ st'.required = st.required /\ st'.evidence = st.evidence
        /\ st'.cause \in {"hypothesis", "confirmed"} /\ st'.answer = st.answer
        /\ st'.verdict = st.verdict /\ st'.error = st.error /\ st'.node = "Generator"
        /\ st'.iteration = st.iteration /\ DOMAIN st' = DiagnosisFields
        /\ steps <= 5 /\ st.iteration = 0
    BY <1>1, <1>4
    DEF Diagnosis!EvidenceCorrelator, Diagnosis!Cause, DiagnosisFields, DiagnosisSpent
  <2> QED
    BY <1>1, <2>1 DEF DiagnosisTypes, DiagnosisSpent
<1>5. CASE Diagnosis!Generator
  <2>1. /\ st'.required = st.required /\ st'.evidence = st.evidence
        /\ st'.cause = st.cause /\ st'.answer = "draft" /\ st'.verdict = "none"
        /\ st'.error = st.error /\ st'.node = "HallucinationChecker"
        /\ st'.iteration = st.iteration + 1 /\ DOMAIN st' = DiagnosisFields
        /\ steps <= 2 * st.iteration + 6 /\ st.iteration < limits.iterations
    BY <1>1, <1>5 DEF Diagnosis!Generator, DiagnosisFields, DiagnosisSpent
  <2>2. /\ st'.iteration \in Nat /\ st'.iteration <= limits'.iterations
        /\ steps' <= 2 * st'.iteration + 5 /\ steps' <= 2 * limits'.iterations + 6
    BY ONLY <1>1, <2>1
  <2>3. DiagnosisTypes(st')
    BY <2>1, <2>2 DEF DiagnosisTypes
  <2>4. DiagnosisSpent'
    BY <2>1, <2>2, SourcesAre DEF DiagnosisSpent
  <2> QED
    BY <2>3, <2>4
<1>6. CASE Diagnosis!HallucinationChecker
  <2>1. /\ st'.required = st.required /\ st'.evidence = st.evidence
        /\ st'.cause = st.cause /\ st'.answer = "draft"
        /\ st'.verdict \in {"approved", "rejected"} /\ st'.error \in {"none", "budget"}
        /\ \/ st'.node = "END"
           \/ st'.node = "Generator" /\ st.iteration < limits.iterations
        /\ st'.iteration = st.iteration /\ DOMAIN st' = DiagnosisFields
        /\ steps <= 2 * st.iteration + 5
    BY <1>1, <1>6
    DEF Diagnosis!HallucinationChecker, DiagnosisFields, DiagnosisSpent, DiagnosisInv
  <2> QED
    BY <1>1, <2>1 DEF DiagnosisTypes, DiagnosisSpent
<1>7. CASE Diagnosis!HandleError
  <2>1. /\ st'.required = st.required /\ st'.evidence = st.evidence
        /\ st'.cause = st.cause /\ st'.answer \in {st.answer, "fallback"} \ {"empty"}
        /\ st'.verdict = st.verdict /\ st'.error = "node" /\ st'.node = "END"
        /\ st.node \in Diagnosis!RetryNodes
        /\ st'.iteration = st.iteration /\ DOMAIN st' = DiagnosisFields
    BY <1>1, <1>7 DEF Diagnosis!HandleError, DiagnosisFields
  <2>2. steps <= 2 * limits.iterations + 5
    <3>1. \/ st.node = "QueryAnalyzer" \/ st.node = "EvidenceCorrelator"
          \/ st.node = "Generator" \/ st.node = "HallucinationChecker"
          \/ \E i \in DOMAIN Sources : st.node = Diagnosis!SourceNode[Sources[i]]
      BY <2>1, SourceNodesAre, SourcesAre
    <3> QED
      BY <1>1, <3>1, SourcesAre DEF DiagnosisSpent
  <2> QED
    BY <1>1, <2>1, <2>2 DEF DiagnosisTypes, DiagnosisSpent
<1> QED
  BY <1>2, <1>3, <1>4, <1>5, <1>6, <1>7 DEF Diagnosis!Next

-------------------------------------------------------------------------------
MultiTypes(s) ==
    /\ DOMAIN s = MultiFields
    /\ s.node \in {"Supervisor", "END"} \cup {Multi!AgentNode[a] : a \in Multi!AgentNames}
    /\ s.plan \in SupervisorPlans \cup {Multi!NoPlan}
    /\ s.pending \subseteq Multi!AgentNames /\ s.completed \in Seq(Multi!AgentNames)
    /\ s.evidence \subseteq Signals /\ s.relevance \in {"none", "low", "high"}
    /\ s.query \in Nat /\ s.diagnosis \in {"none", "hypothesis", "confirmed"}
    /\ s.repairPlan \in BOOLEAN /\ s.answer \in {"empty", "report", "fallback"}
    /\ s.verdict \in {"none", "approved", "rejected"} /\ s.errors \subseteq Multi!AgentNames
    /\ s.handoffs \in Nat /\ s.diagnosisIteration \in Nat /\ s.reportIteration \in Nat
    /\ s.iteration \in Nat /\ s.error \in {"none", "node", "handoffs", "budget"}

LEMMA MultiSignalsAre == Multi!Signals = Signals
<1>1. Multi!SourceNames = SourceNames
  BY DEF Sources, SourceNames, Multi!Sources, Multi!SourceNames
<1> QED
  BY <1>1, MultiIs DEF Signals, Multi!Signals

LEMMA MultiStatesAre ==
    ASSUME NEW s PROVE s \in Multi!States <=> IsRecord(s) /\ MultiTypes(s)
BY MultiSignalsAre DEF Multi!States, MultiFields, MultiTypes, IsRecord

\* The rounds an agent that is pending can still take.
Due(agent, rounds) == IF agent \in st.pending THEN rounds ELSE 0

\* An agent takes two supersteps and a hand-over, a round of the diagnosis or of the
\* report as well, so that the longest run takes 2 * (3 + 2 * iterations) + 1.
MultiSpent ==
    /\ st.diagnosisIteration <= limits.iterations
    /\ st.reportIteration <= limits.iterations
    /\ st.iteration <= limits.iterations
    /\ "diagnosis" \in st.pending => st.diagnosisIteration < limits.iterations
    /\ "report" \in st.pending => st.reportIteration < limits.iterations
    /\ st.handoffs + Due("topology", 1) + Due("logs", 1) + Due("repair", 1)
          + Due("diagnosis", limits.iterations - st.diagnosisIteration)
          + Due("report", limits.iterations - st.reportIteration)
             <= 3 + 2 * limits.iterations
    /\ st.handoffs <= limits.handoffs
    /\ st.node \notin {"Supervisor", "END"} => st.handoffs < limits.handoffs
    /\ st.error = "handoffs" => st.handoffs = limits.handoffs
    /\ st.node = "Supervisor" => steps = 2 * st.handoffs
    /\ st.node \notin {"Supervisor", "END"} => steps = 2 * st.handoffs + 1
    /\ steps <= 2 * st.handoffs + 1
    /\ ~Planned => st.handoffs = 0 /\ st.iteration = 0
                     /\ st.diagnosisIteration = 0 /\ st.reportIteration = 0
    /\ Planned /\ "report" \notin st.pending => st.answer # "empty"
    /\ st.node = "END" => st.answer # "empty"

\* What a state of the graph and the next one agree on but for a hand-over.
MultiNumbers ==
    /\ st.handoffs \in Nat /\ st.diagnosisIteration \in Nat /\ st.reportIteration \in Nat
    /\ st.iteration \in Nat /\ limits.iterations \in 1..3 /\ limits.handoffs \in 1..32
    /\ steps \in Nat /\ steps' = steps + 1 /\ limits' = limits
    /\ DOMAIN st = MultiFields /\ st.pending \subseteq Multi!AgentNames

LEMMA MultiCounts == ASSUME MultiTypes(st), Counted PROVE MultiNumbers
BY DEF MultiTypes, Counted, MultiNumbers

\* An agent that hands back for good: its rounds are over and the limit was not reached.
LEMMA HandedBack ==
    ASSUME MultiSpent, MultiNumbers, Planned, Planned',
           NEW agent \in st.pending, st.node = Multi!AgentNode[agent],
           agent \in Multi!AgentNames, agent \notin st'.pending,
           st'.pending \subseteq st.pending,
           st'.node \in {"Supervisor", "END"}, st'.handoffs = st.handoffs + 1,
           st'.error # "handoffs",
           st'.diagnosisIteration = st.diagnosisIteration
              \/ (agent = "diagnosis" /\ st'.diagnosisIteration = st.diagnosisIteration + 1),
           st'.reportIteration = st.reportIteration
              \/ (agent = "report" /\ st'.reportIteration = st.reportIteration + 1),
           st'.iteration \in {st.iteration, st'.diagnosisIteration, st'.reportIteration},
           agent = "report" => st'.answer # "empty",
           agent # "report" => st'.answer = st.answer
                                /\ ("report" \in st.pending => "report" \in st'.pending),
           st'.node = "END" => st'.answer # "empty"
    PROVE  MultiSpent'
<1>1. /\ st.handoffs < limits.handoffs /\ steps = 2 * st.handoffs + 1
      /\ st.node \notin {"Supervisor", "END"}
  BY RankOrder DEF MultiSpent
<1>2. /\ st'.diagnosisIteration <= limits.iterations /\ st'.reportIteration <= limits.iterations
      /\ st'.iteration <= limits.iterations
      /\ st'.diagnosisIteration \in Nat /\ st'.reportIteration \in Nat
      /\ "diagnosis" \in st'.pending => st'.diagnosisIteration < limits.iterations
      /\ "report" \in st'.pending => st'.reportIteration < limits.iterations
  BY DEF MultiSpent, MultiNumbers
<1>3. agent \in {"topology", "logs", "diagnosis", "repair", "report"}
  BY AgentsAre
<1> DEFINE a == Due("topology", 1)
           b == Due("logs", 1)
           c == Due("repair", 1)
           d == Due("diagnosis", limits.iterations - st.diagnosisIteration)
           e == Due("report", limits.iterations - st.reportIteration)
<1>4. /\ a \in 0..1 /\ b \in 0..1 /\ c \in 0..1 /\ d \in 0..3 /\ e \in 0..3
      /\ a' \in 0..a /\ b' \in 0..b /\ c' \in 0..c /\ d' \in 0..d /\ e' \in 0..e
  <2>1. a \in 0..1 /\ b \in 0..1 /\ c \in 0..1 /\ a' \in 0..a /\ b' \in 0..b /\ c' \in 0..c
    BY DEF Due
  <2>2. d \in 0..3 /\ d' \in 0..d
    <3>1. /\ "diagnosis" \in st'.pending =>
               /\ "diagnosis" \in st.pending /\ st'.diagnosisIteration = st.diagnosisIteration
          /\ "diagnosis" \in st.pending => st.diagnosisIteration < limits.iterations
          /\ st.diagnosisIteration \in Nat /\ limits.iterations \in 1..3 /\ limits' = limits
      BY DEF MultiSpent, MultiNumbers
    <3> QED
      BY <3>1 DEF Due
  <2>3. e \in 0..3 /\ e' \in 0..e
    <3>1. /\ "report" \in st'.pending =>
               /\ "report" \in st.pending /\ st'.reportIteration = st.reportIteration
          /\ "report" \in st.pending => st.reportIteration < limits.iterations
          /\ st.reportIteration \in Nat /\ limits.iterations \in 1..3 /\ limits' = limits
      BY DEF MultiSpent, MultiNumbers
    <3> QED
      BY <3>1 DEF Due
  <2> QED
    BY <2>1, <2>2, <2>3
<1>5. \/ a = 1 /\ a' = 0
      \/ b = 1 /\ b' = 0
      \/ c = 1 /\ c' = 0
      \/ d > 0 /\ d' = 0
      \/ e > 0 /\ e' = 0
  BY <1>2, <1>3 DEF MultiSpent, MultiNumbers, Due
<1>6. st.handoffs + a + b + c + d + e <= 3 + 2 * limits.iterations
  BY DEF MultiSpent
<1> HIDE DEF a, b, c, d, e
<1>7. st'.handoffs + a' + b' + c' + d' + e' <= 3 + 2 * limits.iterations
  BY <1>4, <1>5, <1>6 DEF MultiNumbers
<1>8. "report" \notin st'.pending => st'.answer # "empty"
  BY DEF MultiSpent
<1>9. /\ st'.handoffs <= limits'.handoffs /\ steps' = 2 * st'.handoffs
      /\ limits' = limits /\ st'.handoffs \in Nat
  <2>1. /\ st'.handoffs = st.handoffs + 1 /\ st.handoffs \in Nat
        /\ limits' = limits /\ limits.handoffs \in Nat
        /\ steps' = (2 * st.handoffs + 1) + 1
    BY <1>1 DEF MultiNumbers
  <2> QED
    BY ONLY <1>1, <2>1
<1> QED
  BY <1>2, <1>7, <1>8, <1>9 DEF MultiSpent, a, b, c, d, e

\* Another round of the diagnosis or of the report.
LEMMA RoundAgain ==
    ASSUME MultiSpent, MultiNumbers, Planned, Planned',
           NEW agent \in {"diagnosis", "report"}, st.node = Multi!AgentNode[agent],
           agent \in st.pending, st'.pending = st.pending, st'.node = "Supervisor",
           st'.handoffs = st.handoffs + 1, st'.error # "handoffs",
           IF agent = "diagnosis"
           THEN /\ st'.diagnosisIteration = st.diagnosisIteration + 1
                /\ st'.diagnosisIteration < limits.iterations
                /\ st'.reportIteration = st.reportIteration /\ st'.answer = st.answer
           ELSE /\ st'.reportIteration = st.reportIteration + 1
                /\ st'.reportIteration < limits.iterations
                /\ st'.diagnosisIteration = st.diagnosisIteration /\ st'.answer # "empty",
           st'.iteration \in {st'.diagnosisIteration, st'.reportIteration}
    PROVE  MultiSpent'
<1>1. /\ st.handoffs < limits.handoffs /\ steps = 2 * st.handoffs + 1
      /\ st.node \notin {"Supervisor", "END"}
  BY RankOrder, AgentsAre DEF MultiSpent
<1>2. /\ st'.diagnosisIteration \in Nat /\ st'.reportIteration \in Nat
      /\ st'.diagnosisIteration <= limits.iterations /\ st'.reportIteration <= limits.iterations
      /\ st'.iteration <= limits.iterations
  BY DEF MultiSpent, MultiNumbers
<1>3. st'.handoffs + Due("topology", 1)' + Due("logs", 1)' + Due("repair", 1)'
          + Due("diagnosis", limits.iterations - st.diagnosisIteration)'
          + Due("report", limits.iterations - st.reportIteration)'
             <= 3 + 2 * limits.iterations
  BY <1>2 DEF MultiSpent, MultiNumbers, Due
<1>4. /\ "report" \notin st'.pending => st'.answer # "empty"
      /\ "diagnosis" \in st'.pending => st'.diagnosisIteration < limits.iterations
      /\ "report" \in st'.pending => st'.reportIteration < limits.iterations
  BY DEF MultiSpent
<1>5. /\ st'.handoffs <= limits'.handoffs /\ st'.handoffs \in Nat
      /\ steps' = 2 * st'.handoffs /\ limits' = limits
  <2>1. /\ st'.handoffs = st.handoffs + 1 /\ st.handoffs \in Nat
        /\ limits' = limits /\ limits.handoffs \in Nat
        /\ steps' = (2 * st.handoffs + 1) + 1
    BY <1>1 DEF MultiNumbers
  <2> QED
    BY ONLY <1>1, <2>1
<1> QED
  BY <1>2, <1>3, <1>4, <1>5 DEF MultiSpent

\* Agents that are pending no longer have no more rounds.
LEMMA Dues ==
    ASSUME MultiSpent, MultiNumbers, st'.pending \subseteq st.pending,
           st'.handoffs = st.handoffs, st'.diagnosisIteration = st.diagnosisIteration,
           st'.reportIteration = st.reportIteration
    PROVE  st'.handoffs + Due("topology", 1)' + Due("logs", 1)' + Due("repair", 1)'
             + Due("diagnosis", limits.iterations - st.diagnosisIteration)'
             + Due("report", limits.iterations - st.reportIteration)'
                <= 3 + 2 * limits.iterations
<1>1. /\ Due("topology", 1)' <= Due("topology", 1) /\ Due("logs", 1)' <= Due("logs", 1)
      /\ Due("repair", 1)' <= Due("repair", 1)
      /\ Due("topology", 1) \in Int /\ Due("topology", 1)' \in Int
      /\ Due("logs", 1) \in Int /\ Due("logs", 1)' \in Int
      /\ Due("repair", 1) \in Int /\ Due("repair", 1)' \in Int
  BY DEF Due
<1> DEFINE d == Due("diagnosis", limits.iterations - st.diagnosisIteration)
           r == Due("report", limits.iterations - st.reportIteration)
<1>2. d' <= d /\ d \in Int /\ d' \in Int /\ r' <= r /\ r \in Int /\ r' \in Int
  BY DEF Due, MultiNumbers, MultiSpent
<1>3. st.handoffs + Due("topology", 1) + Due("logs", 1) + Due("repair", 1) + d + r
         <= 3 + 2 * limits.iterations
  BY DEF MultiSpent
<1> HIDE DEF d, r
<1>4. st'.handoffs + Due("topology", 1)' + Due("logs", 1)' + Due("repair", 1)' + d' + r'
         <= 3 + 2 * limits.iterations
  BY <1>1, <1>2, <1>3 DEF MultiNumbers
<1> QED
  BY <1>4 DEF d, r

\* What the proofs about the steps of the graph start from.
MultiAt == MultiInv /\ MultiTypes(st) /\ MultiSpent /\ MultiNumbers

MultiKept == IsRecord(st') /\ MultiTypes(st') /\ MultiSpent'

LEMMA AtWorkIs ==
    ASSUME MultiAt, NEW agent \in Multi!AgentNames, st.node = Multi!AgentNode[agent]
    PROVE  /\ Planned /\ agent \in st.pending /\ st.error # "handoffs"
           /\ DOMAIN st = MultiFields /\ st.plan \in SupervisorPlans
BY AtWork DEF MultiAt, MultiNumbers, Queue

LEMMA PlanIncidentSpends == ASSUME MultiAt, Multi!PlanIncident PROVE MultiKept
<1>1. PICK plan \in SupervisorPlans :
        /\ Multi!ValidSupervisorPlan(plan)
        /\ st' = [st EXCEPT !.plan = plan, !.pending = Multi!Members(plan.agents),
                     !.node = Multi!NodeOf(plan, Multi!Members(plan.agents))]
  BY DEF Multi!PlanIncident
<1>2. /\ st.node = "Supervisor" /\ ~Planned /\ DOMAIN st = MultiFields
      /\ st.handoffs = 0 /\ st.iteration = 0 /\ st.diagnosisIteration = 0
      /\ st.reportIteration = 0 /\ steps = 0 /\ st.error # "handoffs"
  <2>1. st.node = "Supervisor" /\ ~Planned /\ DOMAIN st = MultiFields
    BY DEF Multi!PlanIncident, MultiAt, MultiNumbers, Planned
  <2>2. /\ st.handoffs = 0 /\ st.iteration = 0 /\ st.diagnosisIteration = 0
        /\ st.reportIteration = 0 /\ steps = 2 * st.handoffs
    BY <2>1 DEF MultiAt, MultiSpent
  <2>3. st.error = "none"
    BY <2>1 DEF MultiAt, MultiInv, Unplanned
  <2> QED
    BY <2>1, <2>2, <2>3
<1>3. /\ st'.plan = plan /\ st'.pending = Multi!Members(plan.agents)
      /\ st'.node = Multi!NodeOf(plan, Multi!Members(plan.agents))
      /\ DOMAIN st' = MultiFields
      /\ \A field \in MultiFields \ {"plan", "pending", "node"} : st'[field] = st[field]
  BY <1>1, <1>2 DEF MultiFields
<1>4. /\ plan # Multi!NoPlan /\ "report" \in Multi!Members(plan.agents)
      /\ Multi!Members(plan.agents) \subseteq Multi!AgentNames
  BY <1>1, PlanIs
<1>5. \E agent \in Multi!AgentNames : st'.node = Multi!AgentNode[agent]
  BY <1>1, <1>3, <1>4, NodeOfIs
<1>6. /\ st'.completed = st.completed /\ st'.evidence = st.evidence
      /\ st'.relevance = st.relevance /\ st'.query = st.query
      /\ st'.diagnosis = st.diagnosis /\ st'.repairPlan = st.repairPlan
      /\ st'.answer = st.answer /\ st'.verdict = st.verdict /\ st'.errors = st.errors
      /\ st'.handoffs = 0 /\ st'.diagnosisIteration = 0 /\ st'.reportIteration = 0
      /\ st'.iteration = 0 /\ st'.error = st.error
  BY <1>2, <1>3 DEF MultiFields
<1>7. MultiTypes(st')
  BY <1>3, <1>4, <1>5, <1>6 DEF MultiAt, MultiTypes
<1>8. IsRecord(st')
  BY <1>1 DEF IsRecord
<1>9. MultiSpent'
  <2>1. st'.node \notin {"Supervisor", "END"} /\ Planned'
    BY <1>3, <1>4, <1>5, RankOrder DEF Planned
  <2>2. 0 + Due("topology", 1)' + Due("logs", 1)' + Due("repair", 1)'
          + Due("diagnosis", limits.iterations - st.diagnosisIteration)'
          + Due("report", limits.iterations - st.reportIteration)'
             <= 3 + 2 * limits.iterations
    BY <1>6 DEF Due, MultiAt, MultiNumbers
  <2> QED
    BY <1>2, <1>3, <1>4, <1>6, <2>1, <2>2 DEF MultiSpent, MultiAt, MultiNumbers
<1> QED
  BY <1>7, <1>8, <1>9 DEF MultiKept

LEMMA StopAtLimitSpends == ASSUME MultiAt, Multi!StopAtLimit PROVE MultiKept
<1>1. /\ st.node = "Supervisor" /\ Planned /\ st.handoffs >= limits.handoffs
      /\ DOMAIN st = MultiFields
      /\ st' = [st EXCEPT !.pending = {}, !.error = "handoffs", !.node = "END",
                   !.answer = IF @ = "empty" THEN "fallback" ELSE @]
  BY DEF Multi!StopAtLimit, Multi!HandoffLimit, MultiAt, MultiNumbers, Planned
<1>2. /\ st'.pending = {} /\ st'.error = "handoffs" /\ st'.node = "END"
      /\ st'.answer \in {st.answer, "fallback"} \ {"empty"}
      /\ DOMAIN st' = MultiFields /\ st'.plan = st.plan
      /\ st'.completed = st.completed /\ st'.evidence = st.evidence
      /\ st'.relevance = st.relevance /\ st'.query = st.query
      /\ st'.diagnosis = st.diagnosis /\ st'.repairPlan = st.repairPlan
      /\ st'.verdict = st.verdict /\ st'.errors = st.errors
      /\ st'.handoffs = st.handoffs /\ st'.diagnosisIteration = st.diagnosisIteration
      /\ st'.reportIteration = st.reportIteration /\ st'.iteration = st.iteration
  BY <1>1 DEF MultiFields
<1>3. MultiTypes(st')
  BY <1>2 DEF MultiAt, MultiTypes
<1>4. IsRecord(st')
  BY <1>1 DEF IsRecord
<1>5. MultiSpent'
  <2>1. /\ Due("topology", 1)' = 0 /\ Due("logs", 1)' = 0 /\ Due("repair", 1)' = 0
        /\ Due("diagnosis", limits.iterations - st.diagnosisIteration)' = 0
        /\ Due("report", limits.iterations - st.reportIteration)' = 0
    BY <1>2 DEF Due
  <2>2. st.handoffs <= 3 + 2 * limits.iterations
    BY DEF MultiAt, MultiSpent, MultiNumbers, Due
  <2>3. st.handoffs = limits.handoffs /\ steps = 2 * st.handoffs
    BY <1>1 DEF MultiAt, MultiSpent, MultiNumbers
  <2> QED
    BY <1>1, <1>2, <2>1, <2>2, <2>3 DEF MultiSpent, MultiAt, MultiNumbers, Planned
<1> QED
  BY <1>3, <1>4, <1>5 DEF MultiKept

LEMMA HandOverSpends == ASSUME MultiAt, Multi!HandOver PROVE MultiKept
<1> DEFINE skipped == IF Multi!SkipsRepair THEN {"repair"} ELSE {}
           rest == st.pending \ skipped
<1>1. /\ st.node = "Supervisor" /\ Planned /\ Queue /\ DOMAIN st = MultiFields
      /\ st.handoffs < limits.handoffs \/ st.pending = {}
      /\ st' = [st EXCEPT !.pending = @ \ skipped, !.errors = @ \cup skipped,
                   !.node = Multi!NodeOf(st.plan, rest)]
  BY DEF Multi!HandOver, Multi!HandoffLimit, MultiAt, MultiNumbers, MultiInv, Planned
<1>2. /\ st'.pending = rest /\ st'.error = st.error
      /\ st'.node = Multi!NodeOf(st.plan, rest)
      /\ st'.errors = st.errors \cup skipped
      /\ DOMAIN st' = MultiFields /\ st'.plan = st.plan
      /\ st'.completed = st.completed /\ st'.evidence = st.evidence
      /\ st'.relevance = st.relevance /\ st'.query = st.query
      /\ st'.diagnosis = st.diagnosis /\ st'.repairPlan = st.repairPlan
      /\ st'.verdict = st.verdict /\ st'.answer = st.answer
      /\ st'.handoffs = st.handoffs /\ st'.diagnosisIteration = st.diagnosisIteration
      /\ st'.reportIteration = st.reportIteration /\ st'.iteration = st.iteration
  BY <1>1 DEF MultiFields
<1>3. /\ rest \subseteq st.pending /\ skipped \subseteq Multi!AgentNames
      /\ "report" \in st.pending => "report" \in rest
  BY AgentsAre
<1>4. IsRecord(st')
  BY <1>1 DEF IsRecord
<1> HIDE DEF skipped, rest
<1>5. /\ rest \subseteq Multi!AgentNames
      /\ \/ rest = {} /\ st'.node = "END"
         \/ \E agent \in rest : st'.node = Multi!AgentNode[agent]
  <2>1. rest \in SUBSET Multi!Members(st.plan.agents)
    BY <1>1, <1>3 DEF Queue
  <2>2. st.plan \in SupervisorPlans /\ Multi!ValidSupervisorPlan(st.plan)
    BY <1>1 DEF Queue
  <2> QED
    BY <1>2, <2>1, <2>2, NodeOfIs, PlanIs
<1>6. MultiTypes(st')
  BY <1>2, <1>3, <1>5 DEF MultiAt, MultiTypes
<1>7. MultiSpent'
  <2>1. \/ st'.node = "END" /\ rest = {}
        \/ st'.node \notin {"Supervisor", "END"} /\ st.pending # {}
    BY <1>3, <1>5, RankOrder
  <2>2. st'.handoffs + Due("topology", 1)' + Due("logs", 1)' + Due("repair", 1)'
          + Due("diagnosis", limits.iterations - st.diagnosisIteration)'
          + Due("report", limits.iterations - st.reportIteration)'
             <= 3 + 2 * limits.iterations
    BY <1>2, <1>3, Dues DEF MultiAt
  <2>3. /\ "report" \notin rest => st.answer # "empty"
        /\ "report" \in rest => st.reportIteration < limits.iterations
        /\ "diagnosis" \in rest => st.diagnosisIteration < limits.iterations
        /\ steps = 2 * st.handoffs
    BY <1>1, <1>3 DEF MultiSpent, MultiAt
  <2>4. /\ st.diagnosisIteration <= limits.iterations
        /\ st.reportIteration <= limits.iterations /\ st.iteration <= limits.iterations
        /\ st.handoffs <= limits.handoffs
        /\ st.error = "handoffs" => st.handoffs = limits.handoffs
        /\ Planned'
    BY <1>1, <1>2 DEF MultiSpent, MultiAt, Planned
  <2> QED
    BY <1>1, <1>2, <1>3, <2>1, <2>2, <2>3, <2>4 DEF MultiSpent, MultiAt, MultiNumbers
<1> QED
  BY <1>4, <1>6, <1>7 DEF MultiKept

\* An agent that looks for signals, plans the repair or fails: it hands back for good.
LEMMA AgentSpendsItsTurn ==
    ASSUME MultiAt, NEW agent \in Multi!AgentNames, st.node = Multi!AgentNode[agent],
           agent # "report", IsRecord(st'), DOMAIN st' = MultiFields,
           st'.plan = st.plan, st'.node = "Supervisor",
           st'.pending \subseteq st.pending, agent \notin st'.pending,
           "report" \in st.pending => "report" \in st'.pending,
           st'.completed = Append(st.completed, agent),
           st'.evidence \subseteq Signals, st'.relevance \in {"none", "low", "high"},
           st'.query = st.query, st'.diagnosis \in {"none", "hypothesis", "confirmed"},
           st'.repairPlan \in BOOLEAN, st'.answer = st.answer, st'.verdict = st.verdict,
           st'.errors \subseteq Multi!AgentNames, st'.error = st.error,
           st'.handoffs = st.handoffs + 1, st'.reportIteration = st.reportIteration,
           st'.diagnosisIteration = st.diagnosisIteration
              \/ (agent = "diagnosis" /\ st'.diagnosisIteration = st.diagnosisIteration + 1),
           st'.iteration \in {st.iteration, st'.diagnosisIteration, st'.reportIteration}
    PROVE  MultiKept
<1>1. /\ Planned /\ Planned' /\ agent \in st.pending /\ st.error # "handoffs"
  BY AtWorkIs DEF Planned
<1>2. MultiSpent /\ MultiNumbers /\ MultiTypes(st)
  BY DEF MultiAt
<1>3. MultiSpent'
  <2>1. st'.node \in {"Supervisor", "END"} /\ st'.error # "handoffs" /\ st'.node # "END"
    BY <1>1
  <2>2. st'.reportIteration = st.reportIteration
              \/ (agent = "report" /\ st'.reportIteration = st.reportIteration + 1)
    OBVIOUS
  <2> QED
    BY <1>1, <1>2, <2>1, <2>2, HandedBack
<1>4. /\ st'.completed \in Seq(Multi!AgentNames) /\ st'.handoffs \in Nat
      /\ st'.diagnosisIteration \in Nat /\ st'.iteration \in Nat
  BY <1>2 DEF MultiTypes
<1>5. MultiTypes(st')
  BY <1>2, <1>4 DEF MultiTypes
<1> QED
  BY <1>3, <1>5 DEF MultiKept

LEMMA LooksSpends ==
    ASSUME MultiAt, NEW agent \in {"topology", "logs"}, st.node = Multi!AgentNode[agent],
           NEW found \in SUBSET Signals,
           st' = [Multi!Completed(agent) EXCEPT !.evidence = @ \cup found]
    PROVE  MultiKept
<1>1. agent \in Multi!AgentNames /\ agent # "report"
  BY AgentsAre
<1>2. /\ DOMAIN st = MultiFields /\ MultiTypes(st) /\ IsRecord(st')
  BY <1>1, AtWorkIs DEF MultiAt, IsRecord
<1>3. /\ DOMAIN st' = MultiFields /\ st'.plan = st.plan /\ st'.node = "Supervisor"
      /\ st'.pending = st.pending \ {agent} /\ st'.completed = Append(st.completed, agent)
      /\ st'.evidence = st.evidence \cup found /\ st'.relevance = st.relevance
      /\ st'.query = st.query /\ st'.diagnosis = st.diagnosis
      /\ st'.repairPlan = st.repairPlan /\ st'.answer = st.answer
      /\ st'.verdict = st.verdict /\ st'.errors = st.errors /\ st'.error = st.error
      /\ st'.handoffs = st.handoffs + 1 /\ st'.reportIteration = st.reportIteration
      /\ st'.diagnosisIteration = st.diagnosisIteration /\ st'.iteration = st.iteration
  BY <1>2 DEF Multi!Completed, MultiFields
<1> QED
  BY <1>1, <1>2, <1>3, AgentSpendsItsTurn DEF MultiTypes

LEMMA RepairSpends == ASSUME MultiAt, Multi!RepairAgent PROVE MultiKept
<1>1. "repair" \in Multi!AgentNames /\ st.node = Multi!AgentNode["repair"]
  BY AgentsAre DEF Multi!RepairAgent
<1>2. /\ DOMAIN st = MultiFields /\ MultiTypes(st) /\ IsRecord(st')
  BY <1>1, AtWorkIs DEF MultiAt, IsRecord, Multi!RepairAgent
<1>3. /\ DOMAIN st' = MultiFields /\ st'.plan = st.plan /\ st'.node = "Supervisor"
      /\ st'.pending = st.pending \ {"repair"}
      /\ st'.completed = Append(st.completed, "repair")
      /\ st'.evidence = st.evidence /\ st'.relevance = st.relevance
      /\ st'.query = st.query /\ st'.diagnosis = st.diagnosis
      /\ st'.repairPlan = TRUE /\ st'.answer = st.answer
      /\ st'.verdict = st.verdict /\ st'.errors = st.errors /\ st'.error = st.error
      /\ st'.handoffs = st.handoffs + 1 /\ st'.reportIteration = st.reportIteration
      /\ st'.diagnosisIteration = st.diagnosisIteration /\ st'.iteration = st.iteration
  BY <1>2 DEF Multi!RepairAgent, Multi!Completed, MultiFields
<1> QED
  BY <1>1, <1>2, <1>3, AgentSpendsItsTurn DEF MultiTypes

LEMMA AgentFailsSpends == ASSUME MultiAt, Multi!AgentFails PROVE MultiKept
<1>1. PICK agent \in Multi!AgentNames \ {"report"} :
        /\ st.node = Multi!AgentNode[agent]
        /\ LET skipped == {agent} \cup (IF agent = "diagnosis" THEN {"repair"} ELSE {})
           IN  st' = [Multi!Completed(agent) EXCEPT !.pending = @ \ skipped,
                         !.errors = @ \cup skipped]
  BY DEF Multi!AgentFails
<1> DEFINE skipped == {agent} \cup (IF agent = "diagnosis" THEN {"repair"} ELSE {})
<1>2. /\ skipped \in SUBSET Multi!AgentNames /\ "report" \notin skipped
      /\ agent \in Multi!AgentNames /\ agent # "report"
  BY AgentsAre
<1>3. st' = [Multi!Completed(agent) EXCEPT !.pending = @ \ skipped, !.errors = @ \cup skipped]
  BY <1>1
<1> HIDE DEF skipped
<1>4. /\ DOMAIN st = MultiFields /\ MultiTypes(st) /\ IsRecord(st')
  BY <1>1, <1>2, <1>3, AtWorkIs DEF MultiAt, IsRecord
<1>5. /\ DOMAIN st' = MultiFields /\ st'.plan = st.plan /\ st'.node = "Supervisor"
      /\ st'.pending = (st.pending \ {agent}) \ skipped
      /\ st'.completed = Append(st.completed, agent)
      /\ st'.evidence = st.evidence /\ st'.relevance = st.relevance
      /\ st'.query = st.query /\ st'.diagnosis = st.diagnosis
      /\ st'.repairPlan = st.repairPlan /\ st'.answer = st.answer
      /\ st'.verdict = st.verdict /\ st'.errors = st.errors \cup skipped
      /\ st'.error = st.error
      /\ st'.handoffs = st.handoffs + 1 /\ st'.reportIteration = st.reportIteration
      /\ st'.diagnosisIteration = st.diagnosisIteration /\ st'.iteration = st.iteration
  BY <1>3, <1>4 DEF Multi!Completed, MultiFields
<1> QED
  BY <1>1, <1>2, <1>4, <1>5, AgentSpendsItsTurn DEF MultiTypes

LEMMA DiagnosisAgentSpends == ASSUME MultiAt, Multi!DiagnosisAgent PROVE MultiKept
<1>0. "diagnosis" \in Multi!AgentNames /\ st.node = Multi!AgentNode["diagnosis"]
  BY AgentsAre DEF Multi!DiagnosisAgent
<1>1. /\ DOMAIN st = MultiFields /\ MultiTypes(st) /\ MultiSpent /\ MultiNumbers
      /\ Planned /\ "diagnosis" \in st.pending /\ st.error # "handoffs"
  BY <1>0, AtWorkIs DEF MultiAt
<1>2. PICK device \in Multi!Found("monitoring"), cases \in Multi!Found("knowledge"),
           grade \in (IF Multi!Asks("knowledge") THEN {"low", "high"} ELSE {st.relevance}) :
        LET after == Multi!Investigated(device, cases, grade)
            again == /\ Multi!Asks("knowledge") /\ grade = "low"
                     /\ after.diagnosisIteration < limits.iterations
            counted == IF grade = "low" THEN after.evidence \ Multi!SignalsOf.knowledge
                       ELSE after.evidence
        IN  \/ /\ again
               /\ st' = [after EXCEPT !.query = @ + 1, !.handoffs = @ + 1,
                            !.node = "Supervisor"]
            \/ /\ ~again
               /\ st' = [after EXCEPT !.diagnosis = Multi!Cause(counted),
                            !.pending = @ \ {"diagnosis"},
                            !.completed = Append(@, "diagnosis"),
                            !.handoffs = @ + 1, !.node = "Supervisor"]
  BY DEF Multi!DiagnosisAgent
<1> DEFINE after == Multi!Investigated(device, cases, grade)
           attempt == st.diagnosisIteration + 1
<1>3. /\ device \subseteq Signals /\ cases \subseteq Signals
      /\ grade \in {"none", "low", "high"}
  BY <1>1, <1>2, MultiIs, SignalsAre, SourcesAre DEF Multi!Found, MultiTypes
<1>4. /\ DOMAIN after = MultiFields /\ after.evidence \subseteq Signals
      /\ after.relevance = grade /\ after.plan = st.plan /\ after.pending = st.pending
      /\ after.completed = st.completed /\ after.errors = st.errors
      /\ after.error = st.error /\ after.diagnosis = st.diagnosis
      /\ after.repairPlan = st.repairPlan /\ after.query = st.query
      /\ after.answer = st.answer /\ after.verdict = st.verdict
      /\ after.handoffs = st.handoffs /\ after.diagnosisIteration = attempt
      /\ after.reportIteration = st.reportIteration
      /\ after.iteration \in {attempt, st.reportIteration}
  <2>1. st.evidence \subseteq Signals
    BY <1>1 DEF MultiTypes
  <2> QED
    BY <1>1, <1>3, <2>1 DEF Multi!Investigated, MultiFields, Multi!Larger
<1>5. \/ /\ st' = [after EXCEPT !.query = @ + 1, !.handoffs = @ + 1, !.node = "Supervisor"]
         /\ attempt < limits.iterations
      \/ \E cause \in {"hypothesis", "confirmed"} :
            st' = [after EXCEPT !.diagnosis = cause, !.pending = @ \ {"diagnosis"},
                      !.completed = Append(@, "diagnosis"),
                      !.handoffs = @ + 1, !.node = "Supervisor"]
  BY <1>2, <1>4 DEF Multi!Cause
<1> HIDE DEF after
<1>6. CASE /\ st' = [after EXCEPT !.query = @ + 1, !.handoffs = @ + 1, !.node = "Supervisor"]
           /\ attempt < limits.iterations
  <2>1. /\ DOMAIN st' = MultiFields /\ st'.plan = st.plan /\ st'.pending = st.pending
        /\ st'.completed = st.completed /\ st'.errors = st.errors /\ st'.error = st.error
        /\ st'.node = "Supervisor" /\ st'.evidence \subseteq Signals
        /\ st'.relevance = grade /\ st'.diagnosis = st.diagnosis
        /\ st'.repairPlan = st.repairPlan /\ st'.query = st.query + 1
        /\ st'.answer = st.answer /\ st'.verdict = st.verdict
        /\ st'.handoffs = st.handoffs + 1 /\ st'.diagnosisIteration = attempt
        /\ st'.reportIteration = st.reportIteration
        /\ st'.iteration \in {attempt, st.reportIteration}
    BY <1>4, <1>6 DEF MultiFields
  <2>2. IsRecord(st')
    BY <1>6 DEF IsRecord
  <2>3. MultiTypes(st')
    BY <1>1, <1>3, <2>1 DEF MultiTypes
  <2>4. MultiSpent'
    <3>1. "diagnosis" \in {"diagnosis", "report"} /\ Planned'
      BY <1>1, <2>1 DEF Planned
    <3> QED
      BY <1>0, <1>1, <1>6, <2>1, <3>1, RoundAgain
  <2> QED
    BY <2>2, <2>3, <2>4 DEF MultiKept
<1>7. CASE \E cause \in {"hypothesis", "confirmed"} :
              st' = [after EXCEPT !.diagnosis = cause, !.pending = @ \ {"diagnosis"},
                        !.completed = Append(@, "diagnosis"),
                        !.handoffs = @ + 1, !.node = "Supervisor"]
  <2>1. /\ DOMAIN st' = MultiFields /\ st'.plan = st.plan
        /\ st'.pending = st.pending \ {"diagnosis"}
        /\ st'.completed = Append(st.completed, "diagnosis")
        /\ st'.errors = st.errors /\ st'.error = st.error
        /\ st'.node = "Supervisor" /\ st'.evidence \subseteq Signals
        /\ st'.relevance = grade /\ st'.diagnosis \in {"hypothesis", "confirmed"}
        /\ st'.repairPlan = st.repairPlan /\ st'.query = st.query
        /\ st'.answer = st.answer /\ st'.verdict = st.verdict
        /\ st'.handoffs = st.handoffs + 1 /\ st'.diagnosisIteration = attempt
        /\ st'.reportIteration = st.reportIteration
        /\ st'.iteration \in {attempt, st.reportIteration}
    BY <1>4, <1>7 DEF MultiFields
  <2>2. IsRecord(st')
    BY <1>7 DEF IsRecord
  <2> QED
    BY <1>0, <1>1, <1>3, <2>1, <2>2, AgentSpendsItsTurn DEF MultiTypes
<1> QED
  BY <1>5, <1>6, <1>7

LEMMA ReportAgentSpends == ASSUME MultiAt, Multi!ReportAgent PROVE MultiKept
<1>0. "report" \in Multi!AgentNames /\ st.node = Multi!AgentNode["report"]
  BY AgentsAre DEF Multi!ReportAgent
<1>1. /\ DOMAIN st = MultiFields /\ MultiTypes(st) /\ MultiSpent /\ MultiNumbers
      /\ Planned /\ "report" \in st.pending /\ st.error # "handoffs"
  BY <1>0, AtWorkIs DEF MultiAt
<1> DEFINE done == Multi!Completed("report")
           attempt == st.reportIteration + 1
           larger == Multi!Larger(attempt, st.diagnosisIteration)
           written(s, verdict) ==
              [s EXCEPT !.answer = "report", !.verdict = verdict,
                  !.reportIteration = attempt, !.iteration = larger]
<1>2. /\ DOMAIN done = MultiFields
      /\ done.pending = st.pending \ {"report"}
      /\ done.completed = Append(st.completed, "report")
      /\ done.handoffs = st.handoffs + 1 /\ done.node = "Supervisor"
      /\ done.plan = st.plan /\ done.evidence = st.evidence /\ done.relevance = st.relevance
      /\ done.query = st.query /\ done.diagnosis = st.diagnosis
      /\ done.repairPlan = st.repairPlan /\ done.errors = st.errors /\ done.error = st.error
      /\ done.diagnosisIteration = st.diagnosisIteration
  BY <1>1 DEF Multi!Completed, MultiFields
<1>3. \/ st' = written(done, "approved")
      \/ st' = [written(done, "rejected") EXCEPT !.error = "budget"]
      \/ /\ st' = [written(st, "rejected") EXCEPT !.handoffs = @ + 1, !.node = "Supervisor"]
         /\ attempt < limits.iterations
  BY DEF Multi!ReportAgent
<1>4. larger \in {attempt, st.diagnosisIteration}
  BY DEF Multi!Larger
<1> HIDE DEF done, larger
<1>5. /\ IsRecord(st') /\ DOMAIN st' = MultiFields
      /\ st'.plan = st.plan /\ st'.evidence = st.evidence /\ st'.relevance = st.relevance
      /\ st'.query = st.query /\ st'.diagnosis = st.diagnosis
      /\ st'.repairPlan = st.repairPlan /\ st'.errors = st.errors
      /\ st'.error \in {st.error, "budget"}
      /\ st'.diagnosisIteration = st.diagnosisIteration /\ st'.reportIteration = attempt
      /\ st'.iteration = larger /\ st'.answer = "report"
      /\ st'.verdict \in {"approved", "rejected"}
      /\ st'.handoffs = st.handoffs + 1 /\ st'.node = "Supervisor"
      /\ \/ /\ st'.pending = st.pending \ {"report"}
            /\ st'.completed = Append(st.completed, "report")
         \/ /\ st'.pending = st.pending /\ st'.completed = st.completed
            /\ attempt < limits.iterations
  <2>1. CASE st' = written(done, "approved")
    BY <1>2, <2>1 DEF MultiFields, IsRecord
  <2>2. CASE st' = [written(done, "rejected") EXCEPT !.error = "budget"]
    BY <1>2, <2>2 DEF MultiFields, IsRecord
  <2>3. CASE /\ st' = [written(st, "rejected") EXCEPT !.handoffs = @ + 1,
                          !.node = "Supervisor"]
             /\ attempt < limits.iterations
    BY <1>1, <2>3 DEF MultiFields, IsRecord
  <2> QED
    BY <1>3, <2>1, <2>2, <2>3
<1>6. MultiTypes(st')
  <2>1. attempt \in Nat /\ larger \in Nat /\ st'.handoffs \in Nat
    BY <1>1, <1>4, <1>5 DEF MultiTypes
  <2>2. st'.completed \in Seq(Multi!AgentNames) /\ st'.pending \subseteq Multi!AgentNames
    <3>1. /\ st.completed \in Seq(Multi!AgentNames)
          /\ st.pending \subseteq Multi!AgentNames
      BY <1>1 DEF MultiTypes
    <3>2. Append(st.completed, "report") \in Seq(Multi!AgentNames)
      BY <1>0, <3>1
    <3> QED
      BY <1>5, <3>1, <3>2
  <2> QED
    BY <1>1, <1>5, <2>1, <2>2 DEF MultiTypes
<1>7. MultiSpent'
  <2>1. /\ Planned' /\ st'.error # "handoffs" /\ st'.answer # "empty"
        /\ "report" \in {"diagnosis", "report"}
        /\ st'.iteration \in {st'.diagnosisIteration, st'.reportIteration}
    BY <1>1, <1>4, <1>5 DEF Planned
  <2>2. CASE st'.pending = st.pending \ {"report"}
    <3>1. "report" \notin st'.pending /\ st'.pending \subseteq st.pending
          /\ st'.node \in {"Supervisor", "END"}
      BY <1>5, <2>2
    <3> QED
      BY <1>0, <1>1, <1>5, <2>1, <3>1, HandedBack
  <2>3. CASE st'.pending = st.pending /\ attempt < limits.iterations
    BY <1>0, <1>1, <1>5, <2>1, <2>3, RoundAgain
  <2> QED
    BY <1>5, <2>2, <2>3
<1> QED
  BY <1>5, <1>6, <1>7 DEF MultiKept

LEMMA ReportFailsSpends == ASSUME MultiAt, Multi!ReportFails PROVE MultiKept
<1>0. "report" \in Multi!AgentNames /\ st.node = Multi!AgentNode["report"]
  BY AgentsAre DEF Multi!ReportFails
<1>1. /\ DOMAIN st = MultiFields /\ MultiTypes(st) /\ MultiSpent /\ MultiNumbers
      /\ Planned /\ "report" \in st.pending /\ st.error # "handoffs"
  BY <1>0, AtWorkIs DEF MultiAt
<1>2. /\ IsRecord(st') /\ DOMAIN st' = MultiFields
      /\ st'.plan = st.plan /\ st'.evidence = st.evidence /\ st'.relevance = st.relevance
      /\ st'.query = st.query /\ st'.diagnosis = st.diagnosis
      /\ st'.repairPlan = st.repairPlan /\ st'.errors = st.errors \cup {"report"}
      /\ st'.error = "node" /\ st'.completed = st.completed
      /\ st'.diagnosisIteration = st.diagnosisIteration
      /\ st'.reportIteration = st.reportIteration
      /\ st'.iteration = st.iteration /\ st'.answer \in {st.answer, "fallback"} \ {"empty"}
      /\ st'.verdict = st.verdict /\ st'.handoffs = st.handoffs + 1 /\ st'.node = "END"
      /\ st'.pending = st.pending \ {"report"}
  BY <1>1 DEF Multi!ReportFails, MultiFields, IsRecord
<1>3. MultiTypes(st')
  BY <1>0, <1>1, <1>2 DEF MultiTypes
<1>4. MultiSpent'
  <2>1. /\ Planned' /\ st'.error # "handoffs" /\ st'.answer # "empty"
        /\ "report" \notin st'.pending /\ st'.pending \subseteq st.pending
        /\ st'.node \in {"Supervisor", "END"}
        /\ st'.iteration \in {st.iteration, st'.diagnosisIteration, st'.reportIteration}
    BY <1>1, <1>2 DEF Planned
  <2> QED
    BY <1>0, <1>1, <1>2, <2>1, HandedBack
<1> QED
  BY <1>2, <1>3, <1>4 DEF MultiKept

LEMMA SupervisorFailsSpends == ASSUME MultiAt, Multi!SupervisorFails PROVE MultiKept
<1>1. /\ DOMAIN st = MultiFields /\ ~Planned /\ MultiTypes(st) /\ MultiNumbers
      /\ MultiSpent /\ st.node = "Supervisor" /\ st.pending = {}
  BY DEF Multi!SupervisorFails, MultiAt, MultiNumbers, Planned, MultiInv, Unplanned
<1>2. /\ IsRecord(st') /\ DOMAIN st' = MultiFields
      /\ st'.plan = st.plan /\ st'.evidence = st.evidence /\ st'.relevance = st.relevance
      /\ st'.query = st.query /\ st'.diagnosis = st.diagnosis
      /\ st'.repairPlan = st.repairPlan /\ st'.errors = st.errors
      /\ st'.error = "node" /\ st'.completed = st.completed
      /\ st'.diagnosisIteration = st.diagnosisIteration
      /\ st'.reportIteration = st.reportIteration /\ st'.iteration = st.iteration
      /\ st'.answer = "fallback" /\ st'.verdict = st.verdict /\ st'.handoffs = st.handoffs
      /\ st'.node = "END" /\ st'.pending = {}
  BY <1>1 DEF Multi!SupervisorFails, MultiFields, IsRecord
<1>3. MultiTypes(st')
  BY <1>1, <1>2 DEF MultiTypes
<1>4. MultiSpent'
  <2>1. ~Planned' /\ st'.pending \subseteq st.pending
    BY <1>1, <1>2 DEF Planned
  <2>2. st'.handoffs + Due("topology", 1)' + Due("logs", 1)' + Due("repair", 1)'
          + Due("diagnosis", limits.iterations - st.diagnosisIteration)'
          + Due("report", limits.iterations - st.reportIteration)'
             <= 3 + 2 * limits.iterations
    BY <1>1, <1>2, <2>1, Dues
  <2>3. /\ st.handoffs = 0 /\ st.iteration = 0 /\ st.diagnosisIteration = 0
        /\ st.reportIteration = 0 /\ steps = 2 * st.handoffs
    BY <1>1 DEF MultiSpent
  <2> QED
    BY <1>1, <1>2, <2>1, <2>2, <2>3 DEF MultiSpent, MultiNumbers
<1> QED
  BY <1>2, <1>3, <1>4 DEF MultiKept

LEMMA MultiSpends ==
    ASSUME MultiInv, MultiTypes(st), MultiSpent, Counted, Multi!Next
    PROVE  IsRecord(st') /\ MultiTypes(st') /\ MultiSpent'
<1>1. MultiAt
  BY MultiCounts DEF MultiAt
<1>2. CASE Multi!TopologyAgent \/ Multi!LogAgent
  <2>1. PICK agent \in {"topology", "logs"}, found \in SUBSET Signals :
          /\ st.node = Multi!AgentNode[agent]
          /\ st' = [Multi!Completed(agent) EXCEPT !.evidence = @ \cup found]
    BY <1>2, AgentsAre, MultiIs, SignalsAre DEF Multi!TopologyAgent, Multi!LogAgent
  <2> QED
    BY <1>1, <2>1, LooksSpends DEF MultiKept
<1> QED
  BY <1>1, <1>2, PlanIncidentSpends, StopAtLimitSpends, HandOverSpends,
     DiagnosisAgentSpends, RepairSpends, ReportAgentSpends, SupervisorFailsSpends,
     ReportFailsSpends, AgentFailsSpends
  DEF Multi!Next, MultiKept

-------------------------------------------------------------------------------
(***************************************************************************)
(* The service: a chat starts with nothing spent, and only a superstep of  *)
(* its graph spends.                                                       *)
(***************************************************************************)
SpentInv ==
    /\ flow \in Flows /\ limits \in Budgets /\ IsRecord(st)
    /\ flow = "agent" => AgentTypes(st) /\ AgentSpent
    /\ flow = "diagnosis" => DiagnosisTypes(st) /\ DiagnosisSpent
    /\ flow = "multi" => MultiTypes(st) /\ MultiSpent
    /\ steps \in Nat

LEMMA BudgetsAre ==
    ASSUME NEW b \in Budgets PROVE b.iterations \in 1..3 /\ b.handoffs \in 1..32
BY BudgetsAssumption

\* The first state of each graph: nothing is spent.
LEMMA AskedAre ==
    /\ IsRecord(Agent!Asked) /\ AgentTypes(Agent!Asked)
    /\ Agent!Asked.node = "QueryAnalyzer" /\ Agent!Asked.iteration = 0
    /\ Agent!Asked.feedback = "none"
    /\ IsRecord(Diagnosis!Asked) /\ DiagnosisTypes(Diagnosis!Asked)
    /\ Diagnosis!Asked.node = "QueryAnalyzer" /\ Diagnosis!Asked.iteration = 0
    /\ IsRecord(Multi!Asked) /\ MultiTypes(Multi!Asked)
    /\ Multi!Asked.node = "Supervisor" /\ Multi!Asked.pending = {}
    /\ Multi!Asked.iteration = 0 /\ Multi!Asked.handoffs = 0
    /\ Multi!Asked.diagnosisIteration = 0 /\ Multi!Asked.reportIteration = 0
    /\ Multi!Asked.error = "none" /\ Multi!Asked.plan = Multi!NoPlan
<1>1. /\ IsRecord(Agent!Asked) /\ AgentTypes(Agent!Asked)
      /\ Agent!Asked.node = "QueryAnalyzer" /\ Agent!Asked.iteration = 0
      /\ Agent!Asked.feedback = "none"
  BY DEF Agent!Asked, AgentTypes, AgentFields, IsRecord, Agent!RetryNodes, Agent!Intents
<1>2. /\ IsRecord(Diagnosis!Asked) /\ DiagnosisTypes(Diagnosis!Asked)
      /\ Diagnosis!Asked.node = "QueryAnalyzer" /\ Diagnosis!Asked.iteration = 0
  BY DiagnosisNodesAre DEF Diagnosis!Asked, DiagnosisTypes, DiagnosisFields, IsRecord
<1>3. <<>> \in Seq(Multi!AgentNames)
  OBVIOUS
<1>4. /\ IsRecord(Multi!Asked) /\ MultiTypes(Multi!Asked)
      /\ Multi!Asked.node = "Supervisor" /\ Multi!Asked.pending = {}
      /\ Multi!Asked.iteration = 0 /\ Multi!Asked.handoffs = 0
      /\ Multi!Asked.diagnosisIteration = 0 /\ Multi!Asked.reportIteration = 0
      /\ Multi!Asked.error = "none" /\ Multi!Asked.plan = Multi!NoPlan
  BY <1>3 DEF Multi!Asked, MultiTypes, MultiFields, IsRecord
<1> QED
  BY <1>1, <1>2, <1>4

\* A step that leaves the graph and the count alone spends nothing.
LEMMA SpentRests ==
    ASSUME SpentInv, UNCHANGED <<flow, limits, st, steps>>
    PROVE  SpentInv'
<1>1. AgentSpent => AgentSpent'
  BY DEF AgentSpent, Agent!ConsumesIteration
<1>2. DiagnosisSpent => DiagnosisSpent'
  BY DEF DiagnosisSpent
<1>3. MultiSpent => MultiSpent'
  BY DEF MultiSpent, Due, Planned
<1> QED
  BY <1>1, <1>2, <1>3 DEF SpentInv

LEMMA SpentGoesOn == ASSUME GraphInv, SpentInv, [Next]_vars PROVE SpentInv'
<1>0. limits.iterations \in 1..3 /\ limits.handoffs \in 1..32 /\ steps \in Nat
  BY BudgetsAre DEF SpentInv
<1>1. CASE Step(Agent!Next, "agent")
  <2>1. /\ Agent!Next /\ flow = "agent" /\ Counted /\ flow' = flow /\ limits' = limits
        /\ steps' \in Nat
    BY <1>0, <1>1 DEF Step, Counted
  <2>2. AgentTypes(st)' /\ IsRecord(st)' /\ AgentSpent'
    BY <2>1, AgentTyped, AgentSpends DEF GraphInv, SpentInv
  <2> QED
    BY <1>0, <2>1, <2>2 DEF SpentInv
<1>2. CASE Step(Diagnosis!Next, "diagnosis")
  <2>1. /\ Diagnosis!Next /\ flow = "diagnosis" /\ Counted /\ flow' = flow
        /\ limits' = limits /\ steps' \in Nat
    BY <1>0, <1>2 DEF Step, Counted
  <2>2. DiagnosisTypes(st') /\ IsRecord(st') /\ DiagnosisSpent'
    BY <2>1, DiagnosisSpends DEF GraphInv, SpentInv
  <2> QED
    BY <1>0, <2>1, <2>2 DEF SpentInv
<1>3. CASE Step(Multi!Next, "multi")
  <2>1. /\ Multi!Next /\ flow = "multi" /\ Counted /\ flow' = flow
        /\ limits' = limits /\ steps' \in Nat
    BY <1>0, <1>3 DEF Step, Counted
  <2>2. MultiTypes(st') /\ IsRecord(st') /\ MultiSpent'
    BY <2>1, MultiSpends DEF GraphInv, SpentInv
  <2> QED
    BY <1>0, <2>1, <2>2 DEF SpentInv
<1>4. CASE Aside
  BY <1>4, AsideIs, SpentRests
<1> QED
  BY <1>1, <1>2, <1>3, <1>4, NextIs

\* What a graph ends with is an answer.
LEMMA EndsWithAnswer == ASSUME GraphInv, SpentInv, st.node = "END" PROVE st.answer \in Answers
<1>1. CASE flow = "agent"
  BY <1>1 DEF SpentInv, AgentTypes, AgentSpent, Answers
<1>2. CASE flow = "diagnosis"
  BY <1>2 DEF SpentInv, DiagnosisTypes, DiagnosisSpent, Answers
<1>3. CASE flow = "multi"
  BY <1>3 DEF SpentInv, MultiTypes, MultiSpent, Answers
<1> QED
  BY <1>1, <1>2, <1>3 DEF GraphInv

LEMMA SpentStarts == Init => SpentInv
<1> SUFFICES ASSUME Init PROVE SpentInv
  OBVIOUS
<1>1. /\ flow \in Flows /\ flow \in {"agent", "diagnosis", "multi"} /\ limits \in Budgets
      /\ limits.iterations \in 1..3 /\ limits.handoffs \in 1..32
      /\ steps = 0
  BY BoundsAssumption, FlowsAssumption, BudgetsAre DEF Init
<1>2. flow = "agent" => IsRecord(st) /\ AgentTypes(st) /\ AgentSpent
  BY <1>1, AskedAre DEF Init, Asked, AgentSpent
<1>3. flow = "diagnosis" => IsRecord(st) /\ DiagnosisTypes(st) /\ DiagnosisSpent
  BY <1>1, AskedAre, DiagnosisNodesAre DEF Init, Asked, DiagnosisSpent
<1>4. flow = "multi" => IsRecord(st) /\ MultiTypes(st) /\ MultiSpent
  <2> SUFFICES ASSUME flow = "multi" PROVE IsRecord(st) /\ MultiTypes(st) /\ MultiSpent
    OBVIOUS
  <2>1. st = Multi!Asked
    BY DEF Init, Asked
  <2>2. /\ st.node = "Supervisor" /\ st.pending = {} /\ st.iteration = 0
        /\ st.handoffs = 0 /\ st.diagnosisIteration = 0 /\ st.reportIteration = 0
        /\ st.error = "none" /\ ~Planned
    BY <2>1, AskedAre DEF Planned
  <2>3. /\ Due("topology", 1) = 0 /\ Due("logs", 1) = 0 /\ Due("repair", 1) = 0
        /\ Due("diagnosis", limits.iterations - st.diagnosisIteration) = 0
        /\ Due("report", limits.iterations - st.reportIteration) = 0
    BY <2>2 DEF Due
  <2>4. st.handoffs + Due("topology", 1) + Due("logs", 1) + Due("repair", 1)
           + Due("diagnosis", limits.iterations - st.diagnosisIteration)
           + Due("report", limits.iterations - st.reportIteration)
              <= 3 + 2 * limits.iterations
    BY <1>1, <2>2, <2>3
  <2>5. st.handoffs <= limits.handoffs
    <3>1. limits.handoffs \in 1..32 /\ st.handoffs = 0
      BY <1>1, <2>2
    <3> QED
      BY <3>1
  <2>6. MultiSpent
    BY <1>1, <2>2, <2>4, <2>5 DEF MultiSpent
  <2> QED
    BY <2>1, <2>6, AskedAre
<1> QED
  BY <1>1, <1>2, <1>3, <1>4 DEF SpentInv

LEMMA StepsAreFew ==
    ASSUME SpentInv, flow \in {"agent", "diagnosis", "multi"}
    PROVE  steps <= 19 /\ st.iteration <= limits.iterations
<1>1. limits.iterations \in 1..3 /\ steps \in Nat
  BY BudgetsAre DEF SpentInv
<1>2. CASE flow = "agent"
  BY <1>1, <1>2 DEF SpentInv, AgentSpent
<1>3. CASE flow = "diagnosis"
  BY <1>1, <1>3 DEF SpentInv, DiagnosisSpent
<1>4. CASE flow = "multi"
  <2>1. /\ st.handoffs \in Nat /\ st.diagnosisIteration \in Nat /\ st.reportIteration \in Nat
        /\ steps <= 2 * st.handoffs + 1 /\ st.iteration <= limits.iterations
    BY <1>4 DEF SpentInv, MultiTypes, MultiSpent
  <2>2. /\ Due("topology", 1) \in Nat /\ Due("logs", 1) \in Nat /\ Due("repair", 1) \in Nat
        /\ Due("diagnosis", limits.iterations - st.diagnosisIteration) \in Nat
        /\ Due("report", limits.iterations - st.reportIteration) \in Nat
    BY <1>1, <1>4, <2>1 DEF Due, SpentInv, MultiSpent
  <2> DEFINE a == Due("topology", 1)
             b == Due("logs", 1)
             c == Due("repair", 1)
             d == Due("diagnosis", limits.iterations - st.diagnosisIteration)
             e == Due("report", limits.iterations - st.reportIteration)
  <2>3. st.handoffs + a + b + c + d + e <= 3 + 2 * limits.iterations
    BY <1>4 DEF SpentInv, MultiSpent
  <2>4. a \in Nat /\ b \in Nat /\ c \in Nat /\ d \in Nat /\ e \in Nat
    BY <2>2
  <2> HIDE DEF a, b, c, d, e
  <2>5. st.handoffs <= 3 + 2 * limits.iterations
    BY <1>1, <2>1, <2>3, <2>4
  <2> QED
    BY <1>1, <2>1, <2>5
<1> QED
  BY <1>2, <1>3, <1>4

-------------------------------------------------------------------------------
(***************************************************************************)
(* The session: what the streams sent and the history holds.               *)
(***************************************************************************)
Streams   == [stage : Stages, answer : Answers \cup {"none"}, seen : Nat]
Exchanges == [chat : 1..MaxChats, answer : Answers]

\* What the record of one stream says: nothing is sent before the answer, and the
\* answer of the followed chat is what its graph ended with.
StreamOK(c) ==
    /\ chat[c].stage = "running" => chat[c].answer = "none"
    /\ chat[c].stage \in {"answered", "remembered"} =>
          /\ chat[c].answer \in Answers
          /\ c = followed => st.node = "END" /\ chat[c].answer = st.answer
    /\ chat[c].seen <= Len(history)

SessionInv ==
    /\ followed \in 1..MaxChats
    /\ chat \in Seq(Streams)
    /\ history \in Seq(Exchanges)
    /\ \A c \in DOMAIN chat : StreamOK(c)
    /\ HistoryIsDelivered

LEMMA Appended ==
    ASSUME NEW S, NEW s \in Seq(S), NEW x \in S
    PROVE  /\ Append(s, x) \in Seq(S)
           /\ DOMAIN Append(s, x) = DOMAIN s \cup {Len(s) + 1}
           /\ DOMAIN s = 1..Len(s) /\ Len(s) \in Nat /\ Len(Append(s, x)) = Len(s) + 1
           /\ \A i \in DOMAIN s : Append(s, x)[i] = s[i]
           /\ Append(s, x)[Len(s) + 1] = x
<1>1. /\ Append(s, x) \in Seq(S)
      /\ Len(Append(s, x)) = Len(s) + 1
      /\ \A i \in 1..Len(s) : Append(s, x)[i] = s[i]
      /\ Append(s, x)[Len(s) + 1] = x
  BY AppendProperties
<1>2. DOMAIN Append(s, x) = 1..(Len(s) + 1) /\ DOMAIN s = 1..Len(s) /\ Len(s) \in Nat
  BY <1>1
<1>3. 1..(Len(s) + 1) = (1..Len(s)) \cup {Len(s) + 1}
  BY <1>2
<1> QED
  BY <1>1, <1>2, <1>3

LEMMA Rewritten ==
    ASSUME NEW S, NEW s \in Seq(S), NEW c \in DOMAIN s, NEW x \in S,
           NEW t, t = [s EXCEPT ![c] = x]
    PROVE  /\ t \in Seq(S) /\ DOMAIN t = DOMAIN s
           /\ t[c] = x /\ \A d \in DOMAIN s : d # c => t[d] = s[d]
OBVIOUS

LEMMA SessionStarts == Init => SessionInv
<1> SUFFICES ASSUME Init PROVE SessionInv
  OBVIOUS
<1>1. followed \in 1..MaxChats
  BY BoundsAssumption DEF Init
<1>2. /\ \A S : <<>> \in Seq(S)
      /\ DOMAIN <<>> = {}
  OBVIOUS
<1>3. chat = <<>> /\ history = <<>>
  BY DEF Init
<1> QED
  BY <1>1, <1>2, <1>3 DEF SessionInv, HistoryIsDelivered

\* Another chat of the session begins.
LEMMA AskKeeps == ASSUME SessionInv, Ask PROVE SessionInv'
<1>1. Len(history) \in Nat /\ UNCHANGED <<followed, st, history>>
  BY DEF SessionInv, Ask
<1>2. Asking \in Streams /\ Asking.stage = "running" /\ Asking.answer = "none"
      /\ Asking.seen = Len(history)
  BY <1>1 DEF Asking, Streams, Stages
<1>3. /\ chat' \in Seq(Streams) /\ DOMAIN chat' = DOMAIN chat \cup {Len(chat) + 1}
      /\ \A c \in DOMAIN chat : chat'[c] = chat[c]
      /\ chat'[Len(chat) + 1] = Asking
  <2>1. chat' = Append(chat, Asking) /\ chat \in Seq(Streams)
    BY DEF Ask, SessionInv
  <2> QED
    BY <1>2, <2>1, Appended
<1>4. ASSUME NEW c \in DOMAIN chat' PROVE StreamOK(c)'
  <2>1. CASE c \in DOMAIN chat
    BY <1>1, <1>3, <2>1 DEF SessionInv, StreamOK
  <2>2. CASE c = Len(chat) + 1
    BY <1>1, <1>2, <1>3, <2>2 DEF StreamOK
  <2> QED
    BY <1>3, <2>1, <2>2
<1>5. HistoryIsDelivered'
  <2>1. ASSUME NEW c \in DOMAIN chat', chat'[c].stage = "remembered" PROVE c \in DOMAIN chat
    BY <1>2, <1>3, <2>1
  <2> QED
    BY <1>1, <1>3, <2>1 DEF SessionInv, HistoryIsDelivered, At, Ended
<1> QED
  BY <1>1, <1>3, <1>4, <1>5 DEF SessionInv

\* While its chat runs the graph goes on: nothing of it was sent yet.
LEMMA StepKeeps ==
    ASSUME SessionInv, At(followed, "running"), UNCHANGED <<followed, chat, history>>
    PROVE  SessionInv'
<1>1. \A c \in DOMAIN chat : StreamOK(c)'
  BY DEF SessionInv, StreamOK, At
<1>2. HistoryIsDelivered'
  BY DEF SessionInv, HistoryIsDelivered, At, Ended
<1> QED
  BY <1>1, <1>2 DEF SessionInv

\* A stream moves on and the history does not grow: it was not in it, and is not.
LEMMA StreamMoves ==
    ASSUME SessionInv, NEW c \in DOMAIN chat, chat[c].stage # "remembered",
           NEW x \in Streams, chat' = [chat EXCEPT ![c] = x], x.stage # "remembered",
           x.seen = chat[c].seen, UNCHANGED <<followed, st, history>>, StreamOK(c)'
    PROVE  SessionInv'
<1>1. /\ chat' \in Seq(Streams) /\ DOMAIN chat' = DOMAIN chat
      /\ chat'[c] = x /\ \A d \in DOMAIN chat : d # c => chat'[d] = chat[d]
  BY Rewritten DEF SessionInv
<1>2. \A d \in DOMAIN chat' : StreamOK(d)'
  BY <1>1 DEF SessionInv, StreamOK
<1>3. HistoryIsDelivered'
  <2>1. ASSUME NEW i \in DOMAIN history
        PROVE  history[i].chat \in DOMAIN chat /\ history[i].chat # c
    BY <2>1 DEF SessionInv, HistoryIsDelivered, At
  <2> QED
    BY <1>1, <2>1 DEF SessionInv, HistoryIsDelivered, At, Ended
<1> QED
  BY <1>1, <1>2, <1>3 DEF SessionInv

LEMMA SendAnswerKeeps ==
    ASSUME GraphInv, SpentInv, SessionInv, NEW c \in 1..MaxChats, SendAnswer(c)
    PROVE  SessionInv'
<1>1. c \in DOMAIN chat /\ chat[c] \in Streams /\ chat[c].stage = "running"
  BY DEF SendAnswer, At, SessionInv
<1>2. PICK answer \in Response(c) :
        chat' = [chat EXCEPT ![c].stage = "answered", ![c].answer = answer]
  BY DEF SendAnswer
<1>3. answer \in Answers /\ (c = followed => st.node = "END" /\ answer = st.answer)
  BY EndsWithAnswer DEF Response, Answers
<1> DEFINE x == [chat[c] EXCEPT !.stage = "answered", !.answer = answer]
<1>4. chat' = [chat EXCEPT ![c] = x]
  BY <1>2
<1>5. /\ x \in Streams /\ x.stage = "answered" /\ x.answer = answer
      /\ x.seen = chat[c].seen
  BY <1>1, <1>3 DEF Streams, Stages
<1> HIDE DEF x
<1>6. UNCHANGED <<followed, st, history>>
  BY DEF SendAnswer
<1>7. chat'[c] = x
  BY <1>1, <1>4
<1>8. StreamOK(c)'
  BY <1>1, <1>3, <1>5, <1>6, <1>7 DEF StreamOK, SessionInv
<1> QED
  BY <1>1, <1>4, <1>5, <1>6, <1>8, StreamMoves

\* The stream ends without an exchange: an error event or a client that left.
LEMMA OverKeeps ==
    ASSUME SessionInv, NEW c \in 1..MaxChats, SendError(c) \/ Disconnect(c)
    PROVE  SessionInv'
<1>1. /\ c \in DOMAIN chat /\ chat[c] \in Streams
      /\ chat[c].stage \in {"running", "answered"}
      /\ chat' = [chat EXCEPT ![c].stage = "over"] /\ UNCHANGED <<followed, st, history>>
  BY DEF SendError, Disconnect, At, SessionInv
<1> DEFINE x == [chat[c] EXCEPT !.stage = "over"]
<1>2. chat' = [chat EXCEPT ![c] = x]
  BY <1>1
<1>3. x \in Streams /\ x.stage = "over" /\ x.seen = chat[c].seen
  BY <1>1 DEF Streams, Stages
<1> HIDE DEF x
<1>4. chat'[c] = x
  BY <1>1, <1>2
<1>5. StreamOK(c)'
  BY <1>1, <1>3, <1>4 DEF StreamOK, SessionInv
<1> QED
  BY <1>1, <1>2, <1>3, <1>5, StreamMoves

\* append_exchange: the chat was not in the history, and stands behind all it has seen.
LEMMA RememberKeeps ==
    ASSUME SessionInv, NEW c \in 1..MaxChats, Remember(c)
    PROVE  SessionInv'
<1> DEFINE x == [chat[c] EXCEPT !.stage = "remembered"]
           e == [chat |-> c, answer |-> chat[c].answer]
           n == Len(history) + 1
<1>1. /\ c \in DOMAIN chat /\ chat[c] \in Streams /\ chat[c].stage = "answered"
      /\ StreamOK(c) /\ UNCHANGED <<followed, st>>
  BY DEF Remember, At, SessionInv
<1>2. /\ chat[c].answer \in Answers /\ chat[c].seen <= Len(history)
      /\ c = followed => st.node = "END" /\ chat[c].answer = st.answer
  BY <1>1 DEF StreamOK
<1>3. chat' = [chat EXCEPT ![c] = x] /\ history' = Append(history, e)
  BY <1>1 DEF Remember
<1>4. /\ x \in Streams /\ x.stage = "remembered" /\ x.answer = chat[c].answer
      /\ x.seen = chat[c].seen
  BY <1>1 DEF Streams, Stages
<1>5. e \in Exchanges /\ e.chat = c /\ e.answer = chat[c].answer
  BY <1>2 DEF Exchanges
<1> HIDE DEF x, e
<1>6. /\ chat' \in Seq(Streams) /\ DOMAIN chat' = DOMAIN chat
      /\ chat'[c] = x /\ \A d \in DOMAIN chat : d # c => chat'[d] = chat[d]
  BY <1>1, <1>3, <1>4, Rewritten DEF SessionInv
<1>7. /\ history' \in Seq(Exchanges) /\ DOMAIN history' = DOMAIN history \cup {n}
      /\ DOMAIN history = 1..Len(history) /\ Len(history) \in Nat /\ Len(history') = n
      /\ \A i \in DOMAIN history : history'[i] = history[i]
      /\ history'[n] = e
  <2>1. history \in Seq(Exchanges)
    BY DEF SessionInv
  <2> QED
    BY <1>3, <1>5, <2>1, Appended
<1> HIDE DEF n
<1>8. n = Len(history) + 1 /\ n \notin DOMAIN history
  BY <1>7 DEF n
<1>9. ASSUME NEW i \in DOMAIN history
      PROVE  history[i].chat \in DOMAIN chat /\ history[i].chat # c
  BY <1>1, <1>9 DEF SessionInv, HistoryIsDelivered, At
<1>10. ASSUME NEW d \in DOMAIN chat' PROVE StreamOK(d)'
  <2>1. CASE d = c
    BY <1>1, <1>2, <1>4, <1>6, <1>7, <1>8, <2>1 DEF StreamOK, Streams
  <2>2. CASE d # c
    <3>0. d \in DOMAIN chat /\ chat'[d] = chat[d] /\ chat[d] \in Streams
      <4>1. d \in DOMAIN chat /\ chat'[d] = chat[d]
        BY <1>6, <1>10, <2>2
      <4>2. chat \in Seq(Streams)
        BY DEF SessionInv
      <4> QED
        BY <4>1, <4>2
    <3>1. chat'[d] = chat[d] /\ StreamOK(d) /\ chat[d].seen \in Nat
      <4>1. StreamOK(d)
        BY <3>0 DEF SessionInv
      <4>2. chat[d].seen \in Nat
        BY <3>0 DEF Streams
      <4> QED
        BY <3>0, <4>1, <4>2
    <3>2. chat[d].seen <= Len(history')
      BY <1>7, <1>8, <3>1 DEF StreamOK
    <3> QED
      BY <1>1, <3>1, <3>2 DEF StreamOK
  <2> QED
    BY <2>1, <2>2
<1>11. HistoryIsDelivered'
  <2>1. ASSUME NEW i \in DOMAIN history
        PROVE  /\ history'[i].chat \in DOMAIN chat' /\ chat'[history'[i].chat].stage = "remembered"
               /\ history'[i].answer = chat'[history'[i].chat].answer
               /\ history'[i].chat = followed' => Ended' /\ history'[i].answer = st'.answer
               /\ chat'[history'[i].chat].seen < i
               /\ \A j \in DOMAIN history' : history'[j].chat = history'[i].chat => j = i
    <3>1. /\ history'[i] = history[i] /\ history[i].chat # c
          /\ chat'[history[i].chat] = chat[history[i].chat]
      BY <1>6, <1>7, <1>9, <2>1
    <3>2. \A j \in DOMAIN history' : history'[j].chat = history'[i].chat => j = i
      BY <1>5, <1>7, <2>1, <3>1 DEF SessionInv, HistoryIsDelivered
    <3> QED
      BY <1>1, <1>6, <2>1, <3>1, <3>2 DEF SessionInv, HistoryIsDelivered, At, Ended
  <2>2. /\ history'[n].chat \in DOMAIN chat' /\ chat'[history'[n].chat].stage = "remembered"
        /\ history'[n].answer = chat'[history'[n].chat].answer
        /\ history'[n].chat = followed' => Ended' /\ history'[n].answer = st'.answer
        /\ chat'[history'[n].chat].seen < n
        /\ \A j \in DOMAIN history' : history'[j].chat = history'[n].chat => j = n
    <3>1. history'[n].chat = c /\ history'[n].answer = chat[c].answer
      BY <1>5, <1>7
    <3>2. \A j \in DOMAIN history' : history'[j].chat = c => j = n
      BY <1>7, <1>9
    <3>3. chat[c].seen < n
      BY <1>1, <1>2, <1>7, <1>8 DEF Streams
    <3> QED
      BY <1>1, <1>2, <1>4, <1>6, <3>1, <3>2, <3>3 DEF At, Ended
  <2>3. ASSUME NEW d \in DOMAIN chat', chat'[d].stage = "remembered"
        PROVE  \E i \in DOMAIN history' : history'[i].chat = d
    <3>1. CASE d = c
      BY <1>5, <1>7, <3>1
    <3>2. CASE d # c
      <4>1. PICK i \in DOMAIN history : history[i].chat = d
        BY <1>6, <2>3, <3>2 DEF SessionInv, HistoryIsDelivered
      <4> QED
        BY <1>7, <4>1
    <3> QED
      BY <3>1, <3>2
  <2> QED
    BY <1>7, <2>1, <2>2, <2>3 DEF HistoryIsDelivered, At
<1> QED
  BY <1>1, <1>6, <1>7, <1>10, <1>11 DEF SessionInv

LEMMA SessionGoesOn == ASSUME GraphInv, SpentInv, SessionInv, [Next]_vars PROVE SessionInv'
<1>1. CASE \/ Step(Agent!Next, "agent") \/ Step(Diagnosis!Next, "diagnosis")
           \/ Step(Multi!Next, "multi")
  BY <1>1, StepKeeps DEF Step
<1>2. CASE UNCHANGED vars
  BY <1>2 DEF vars, SessionInv, StreamOK, HistoryIsDelivered, At, Ended
<1> QED
  BY <1>1, <1>2, NextIs, AskKeeps, SendAnswerKeeps, RememberKeeps, OverKeeps DEF Aside

LEMMA ServiceAlways == Spec => [](GraphInv /\ SpentInv /\ SessionInv)
<1>1. Init => GraphInv /\ SpentInv /\ SessionInv
  BY GraphStarts, FlowsAssumption, SpentStarts, SessionStarts DEF Init
<1>2. GraphInv /\ SpentInv /\ SessionInv /\ [Next]_vars => (GraphInv /\ SpentInv /\ SessionInv)'
  BY GraphGoesOn, SpentGoesOn, SessionGoesOn
<1> QED
  BY <1>1, <1>2, PTL DEF Spec

\* However many chats of a session overlap, and whatever their graphs answer, fail at or
\* are left by: a stream served to its end is in the history once, with the answer that was
\* sent and its graph ended with, behind all that was there when it was asked; nothing else
\* is in it (_stream_chat, InMemoryHistoryStore.append_exchange).
THEOREM HistoryDelivered == Spec => []HistoryIsDelivered
<1>1. SessionInv => HistoryIsDelivered
  BY DEF SessionInv
<1> QED
  BY <1>1, ServiceAlways, PTL

-------------------------------------------------------------------------------
\* The states of the graph that is running, its history and its stream have their
\* types: the type invariant of the service.
LEMMA Typed == ASSUME SessionInv, GraphInv, SpentInv PROVE TypeOK
<1>1. flow \in Flows /\ limits \in Budgets /\ flow \in {"agent", "diagnosis", "multi"}
  BY DEF SpentInv, GraphInv
<1>2. st \in CASE flow = "agent" -> Agent!States
               [] flow = "diagnosis" -> Diagnosis!States
               [] flow = "multi" -> Multi!States
  <2>1. CASE flow = "agent"
    BY <2>1, AgentStatesAre DEF SpentInv
  <2>2. CASE flow = "diagnosis"
    BY <2>2, DiagnosisStatesAre DEF SpentInv
  <2>3. CASE flow = "multi"
    BY <2>3, MultiStatesAre DEF SpentInv
  <2> QED
    BY <1>1, <2>1, <2>2, <2>3
<1>3. chat \in Seq(Streams) /\ history \in Seq(Exchanges) /\ followed \in 1..MaxChats
  BY DEF SessionInv
<1>4. steps \in Nat
  BY DEF SpentInv
<1> QED
  BY <1>1, <1>2, <1>3, <1>4 DEF TypeOK, Streams, Exchanges

\* Every loop of the three graphs stays in its budget, for all plans, failures and
\* retries, and no run needs more than 19 of the supersteps the engine grants
\* (LangGraph grants 25): iterations, hand-overs and supersteps, counted over the whole
\* run; a run that says it was stopped at the hand-over limit has reached it.
THEOREM BudgetsKept ==
    ASSUME StepLimit >= 19
    PROVE  Spec => []WithinBudgets
<1>1. ASSUME SessionInv, GraphInv, SpentInv PROVE WithinBudgets
  <2>1. TypeOK
    BY <1>1, Typed
  <2>2. flow \in {"agent", "diagnosis", "multi"} /\ steps \in Nat
    BY <1>1 DEF GraphInv, SpentInv
  <2>3. steps <= StepLimit /\ st.iteration <= limits.iterations
    BY <1>1, <2>2, StepsAreFew, BoundsAssumption
  <2>4. flow = "multi" => /\ st.handoffs <= limits.handoffs
                          /\ st.error = "handoffs" => st.handoffs = limits.handoffs
    BY <1>1 DEF SpentInv, MultiSpent
  <2> QED
    BY <2>1, <2>2, <2>3, <2>4 DEF WithinBudgets
<1> QED
  BY <1>1, ServiceAlways, PTL

================================================================================
