--------------------------- MODULE IncidentProofs ---------------------------
(***************************************************************************)
(* Type correctness and the approval obligation of the incident service,   *)
(* for every set of requests, users, plans and every clock bound, whatever *)
(* the interleaving, the faults and the restarts.                          *)
(*                                                                         *)
(* The argument is local to a thread state: ThreadOK relates a state's     *)
(* next node to its plan, risk decision and approval, every node preserves *)
(* it, and runs and the checkpoint only exchange whole states.             *)
(***************************************************************************)
EXTENDS IncidentSafety, TLAPS

BeforeVerdict == {"DiagnosisAgent", "RepairAgent", "RiskCheck", "Approval"}

ThreadOK(st) ==
  /\ st.next \in {"RiskCheck", "Approval", "Execute"} => st.plan # None
  /\ st.next \in {"Approval", "Execute"} =>
       /\ st.risk # None
       /\ st.risk.digest = Digest(st.plan)
       /\ st.risk.required = ApprovalRequired(st.plan)
  /\ st.next = "DiagnosisAgent" => st.attempt < MaxQuality
  /\ st.next \in BeforeVerdict => st.approval = None
  /\ st.approval # None =>
       /\ st.risk # None
       /\ st.approval.digest = st.risk.digest
       /\ Approved(st) => st.approval.at <= st.risk.expires
  /\ st.next = "Execute" /\ st.risk.required => Approved(st)

\* A run acts on an approved state that Execute did not refuse.
ActingOK(r) == Acting(r) => local[r].next = "Execute" /\ Refusal(local[r]) = "none"

\* The strengthening that is inductive.
IInv == /\ TypeOK
        /\ ThreadOK(ckpt)
        /\ \A r \in Requests : ThreadOK(local[r]) /\ ActingOK(r)

-----------------------------------------------------------------------------
(***************************************************************************)
(* What each node makes of a well-formed thread state.                     *)
(***************************************************************************)

\* The state of a request that holds no run is well formed.
LEMMA NoThreadOK == NoThread \in Threads /\ ThreadOK(NoThread)
BY BoundAssumption
   DEF NoThread, Threads, Nodes, Statuses, Results, ThreadOK, BeforeVerdict, Approved

\* A fresh input keeps a state well formed: it only moves back to the Supervisor.
LEMMA RestartedOK ==
  ASSUME NEW st \in Threads, ThreadOK(st)
  PROVE  Restarted(st) \in Threads /\ ThreadOK(Restarted(st))
BY DEF Restarted, Threads, Nodes, ThreadOK, BeforeVerdict, Approved

\* The Supervisor starts from nothing.
LEMMA InitializedOK ==
  ASSUME NEW st
  PROVE  Initialized(st) \in Threads /\ ThreadOK(Initialized(st))
<1>1. 0 \in 0 .. MaxQuality /\ 0 < MaxQuality
  BY BoundAssumption
<1>2. Initialized(st) \in Threads
  BY <1>1 DEF Initialized, NoThread, Threads, Nodes, Statuses, Results
<1>3. ThreadOK(Initialized(st))
  BY <1>1 DEF Initialized, NoThread, ThreadOK, BeforeVerdict
<1> QED BY <1>2, <1>3

\* The evidence agents keep the state well formed: a visit that sends the agent
\* back to itself leaves an attempt to be made.
LEMMA DiagnosedOK ==
  ASSUME NEW st \in Threads, ThreadOK(st), st.next = "DiagnosisAgent",
         NEW next \in AfterDiagnosis(st)
  PROVE  Diagnosed(st, next) \in Threads /\ ThreadOK(Diagnosed(st, next))
<1>1. /\ next \in {"DiagnosisAgent", "RepairAgent", "ReportAgent"}
      /\ next = "DiagnosisAgent" => st.attempt + 1 < MaxQuality
  BY DEF AfterDiagnosis
<1>2. st.attempt + 1 \in 0 .. MaxQuality
  BY BoundAssumption DEF Threads, ThreadOK
<1>3. Diagnosed(st, next) \in Threads
  BY <1>1, <1>2 DEF Diagnosed, Threads, Nodes
<1>4. ThreadOK(Diagnosed(st, next))
  BY <1>1 DEF Diagnosed, Threads, ThreadOK, BeforeVerdict, Approved
<1> QED BY <1>3, <1>4

\* The repair agent adds a plan.
LEMMA PlannedOK ==
  ASSUME NEW st \in Threads, ThreadOK(st), st.next = "RepairAgent", NEW p \in Plans
  PROVE  Planned(st, p) \in Threads /\ ThreadOK(Planned(st, p))
BY NoneAssumption DEF Planned, Threads, Nodes, ThreadOK, BeforeVerdict

\* The risk decision is about the plan of the state.
LEMMA AssessedOK ==
  ASSUME NEW st \in Threads, ThreadOK(st), st.next = "RiskCheck", NEW t \in Times
  PROVE  Assessed(st, t) \in Threads /\ ThreadOK(Assessed(st, t))
<1>1. st.plan \in Plans /\ st.approval = None
  BY DEF Threads, ThreadOK, BeforeVerdict
<1>2. RiskDecision(st.plan, t) \in Risks
  <2>1. ApprovalRequired(st.plan) \in BOOLEAN
    BY DEF ApprovalRequired, HumanRequired
  <2>2. t + Ttl \in Nat
    BY BoundAssumption DEF Times
  <2>3. Digest(st.plan) \in Digests
    BY <1>1 DEF Digests
  <2> QED BY <2>1, <2>2, <2>3 DEF RiskDecision, Risks
<1>3. RiskDecision(st.plan, t) # None
  BY <1>2, NoneAssumption
<1>4. Assessed(st, t) \in Threads
  BY <1>2 DEF Assessed, Threads, Nodes, Statuses
<1>5. ThreadOK(Assessed(st, t))
  BY <1>1, <1>3 DEF Assessed, ThreadOK, RiskDecision, Threads, BeforeVerdict
<1> QED BY <1>4, <1>5

\* A verdict is about the plan of the state, and an approval was in time.
LEMMA DecidedOK ==
  ASSUME NEW st \in Threads, ThreadOK(st), st.next = "Approval",
         NEW payload \in Payloads, NEW t \in Times, CanDecide(st, payload, t)
  PROVE  Decided(st, payload, t) \in Threads /\ ThreadOK(Decided(st, payload, t))
<1> DEFINE a == [decision |-> payload.decision, actor |-> payload.actor,
                 digest |-> payload.digest, at |-> t]
<1>1. a \in Approvals /\ a # None
  BY NoneAssumption DEF Approvals, Payloads
<1>2. Decided(st, payload, t) \in Threads
  BY <1>1 DEF Decided, Threads, Nodes, Statuses
<1>3. ThreadOK(Decided(st, payload, t))
  BY <1>1 DEF Decided, ThreadOK, CanDecide, Threads, Approved, BeforeVerdict, Payloads, Decisions
<1> QED BY <1>2, <1>3

\* A result is stored beside the verdict.
LEMMA ExecutedOK ==
  ASSUME NEW st \in Threads, ThreadOK(st), NEW result \in Results
  PROVE  Executed(st, result) \in Threads /\ ThreadOK(Executed(st, result))
BY DEF Executed, Threads, Nodes, Statuses, ThreadOK, BeforeVerdict, Approved

\* The report ends the workflow.
LEMMA ReportedOK ==
  ASSUME NEW st \in Threads, ThreadOK(st)
  PROVE  Reported(st) \in Threads /\ ThreadOK(Reported(st))
BY DEF Reported, Threads, Nodes, ThreadOK, BeforeVerdict, Approved

\* A refusal is a result.
LEMMA RefusalType == ASSUME NEW st PROVE Refusal(st) \in Results
BY DEF Refusal, Results

-----------------------------------------------------------------------------
(***************************************************************************)
(* How a run ends, raises and returns.                                     *)
(***************************************************************************)
Events == AuthzEvents \union PolicyEvents \union DecideEvents \union ToolEvents

\* The rest of IInv once the audit log and the calls are known to be typed.
LEMMA EndOK ==
  ASSUME IInv, NEW r \in Requests, End(r),
         UNCHANGED <<ckpt, now, rbac, dirty, calls>>, audit' \subseteq Events
  PROVE  IInv'
<1>1. TypeOK'
  BY NoThreadOK DEF IInv, TypeOK, End, Phases, NoReq, ReqType, Kinds, Events
<1>2. ThreadOK(ckpt)'
  BY DEF IInv, ThreadOK, Approved
<1>3. ASSUME NEW q \in Requests PROVE (ThreadOK(local[q]) /\ ActingOK(q))'
  <2>1. ThreadOK(local'[q])
    BY NoThreadOK DEF IInv, TypeOK, End
  <2>2. ActingOK(q)'
    BY DEF IInv, TypeOK, End, ActingOK, Acting
  <2> QED BY <2>1, <2>2 DEF ThreadOK, Approved
<1> QED BY <1>1, <1>2, <1>3 DEF IInv

LEMMA RaiseOK ==
  ASSUME IInv, NEW r \in Requests, Raise(r), calls' = calls, audit' \subseteq Events
  PROVE  IInv'
BY EndOK DEF Raise

LEMMA ReturnOK ==
  ASSUME IInv, NEW r \in Requests, NEW st \in Threads, ThreadOK(st), Return(r, st),
         calls' = calls, audit' \subseteq Events
  PROVE  IInv'
<1>1. CASE gone[r]
  BY <1>1, EndOK DEF Return
<1>2. CASE ~gone[r]
  <2>1. TypeOK'
    BY <1>2 DEF IInv, TypeOK, Return, Phases, Events
  <2>2. ThreadOK(ckpt)'
    BY DEF IInv, ThreadOK, Approved, Return
  <2>3. ASSUME NEW q \in Requests PROVE (ThreadOK(local[q]) /\ ActingOK(q))'
    <3>1. ThreadOK(local'[q])
      BY <1>2 DEF IInv, TypeOK, Return
    <3>2. ActingOK(q)'
      BY <1>2 DEF IInv, TypeOK, Return, ActingOK, Acting
    <3> QED BY <3>1, <3>2 DEF ThreadOK, Approved
  <2> QED BY <2>1, <2>2, <2>3 DEF IInv
<1> QED BY <1>1, <1>2

LEMMA AuthzType ==
  ASSUME NEW r, NEW stage \in Stages
  PROVE  AuthzAudit(r, stage) \subseteq Events
BY DEF AuthzAudit, Authz, AuthzEvents, Events

LEMMA KeyedType == ASSUME NEW e \in Events PROVE Keyed(e) \subseteq Events
BY DEF Keyed

LEMMA PolicyAuditType ==
  ASSUME IInv, NEW r \in Requests, local[r].plan # None
  PROVE  PolicyAudit(r) \subseteq Events
<1>1. local[r].plan \in Plans
  BY DEF IInv, TypeOK, Threads
<1>2. PolicyVerdict(local[r].plan) \in Events
  BY <1>1, PlanAssumption DEF PolicyVerdict, Digests, Events, PolicyEvents
<1> QED BY <1>2, KeyedType DEF PolicyAudit

\* A request that changes neither the checkpoint, nor a run's state, nor who acts.
LEMMA FrameOK ==
  ASSUME IInv, TypeOK', UNCHANGED <<ckpt, local>>,
         \A q \in Requests : pc'[q] = "acting" => pc[q] = "acting"
  PROVE  IInv'
BY DEF IInv, ThreadOK, Approved, ActingOK, Acting, TypeOK

-----------------------------------------------------------------------------
(***************************************************************************)
(* One lemma per action.                                                   *)
(***************************************************************************)
LEMMA AskStep == ASSUME IInv, NEW r \in Requests, Ask(r) PROVE IInv'
<1>1. PICK kind \in Kinds, u \in Users \union {None}, payload \in Payloads \union {None} :
        Accept(r, kind, u, payload)
  BY DEF Ask, Start, SubmitRetry, SubmitDecision, Kinds
<1>2. TypeOK'
  BY <1>1 DEF IInv, TypeOK, Accept, ReqType, Phases
<1> QED BY <1>1, <1>2, FrameOK DEF Accept, IInv, TypeOK

LEMMA BeginStep == ASSUME IInv, NEW r \in Requests, Begin(r) PROVE IInv'
<1>1. audit' \subseteq Events
  BY DEF Begin, IInv, TypeOK, Events
<1>2. CASE req[r].kind # "start" /\ Finished(ckpt)
  BY <1>1, <1>2, EndOK DEF Begin
<1>3. ASSUME NEW st \in Threads, ThreadOK(st), local' = [local EXCEPT ![r] = st],
             pc' = [pc EXCEPT ![r] = "running"], req' \in [Requests -> ReqType],
             dirty' \in [Requests -> BOOLEAN], UNCHANGED gone
      PROVE  IInv'
  <2>1. TypeOK'
    BY <1>1, <1>3 DEF IInv, TypeOK, Begin, Phases, Events
  <2>2. ThreadOK(ckpt)'
    BY DEF IInv, ThreadOK, Approved, Begin
  <2>3. ASSUME NEW q \in Requests PROVE (ThreadOK(local[q]) /\ ActingOK(q))'
    <3>1. ThreadOK(local'[q])
      BY <1>3 DEF IInv, TypeOK
    <3>2. ActingOK(q)'
      BY <1>3 DEF IInv, TypeOK, ActingOK, Acting
    <3> QED BY <3>1, <3>2 DEF ThreadOK, Approved
  <2> QED BY <2>1, <2>2, <2>3 DEF IInv
<1>4. CASE req[r].kind = "start"
  <2>1. Restarted(ckpt) \in Threads /\ ThreadOK(Restarted(ckpt))
    BY RestartedOK DEF IInv, TypeOK
  <2> QED BY <1>3, <1>4, <2>1 DEF Begin, IInv, TypeOK
<1>5. CASE req[r].kind # "start" /\ ~Finished(ckpt)
  <2>1. req' \in [Requests -> ReqType]
    <3>1. CASE req' = req
      BY <3>1 DEF IInv, TypeOK
    <3>2. CASE req' = [req EXCEPT ![r].payload = None]
      <4>1. req[r] \in ReqType
        BY DEF IInv, TypeOK
      <4>2. [req[r] EXCEPT !.payload = None] \in ReqType
        BY <4>1 DEF ReqType
      <4> QED BY <3>2, <4>2 DEF IInv, TypeOK
    <3> QED BY <1>5, <3>1, <3>2 DEF Begin
  <2> QED BY <1>3, <1>5, <2>1 DEF Begin, IInv, TypeOK
<1> QED BY <1>2, <1>4, <1>5

LEMMA SaveStep == ASSUME IInv, NEW r \in Requests, Save(r) PROVE IInv'
<1>1. TypeOK'
  BY DEF IInv, TypeOK, Save
<1>2. ThreadOK(ckpt')
  BY DEF IInv, TypeOK, Save
<1> QED BY <1>1, <1>2 DEF IInv, TypeOK, Save, ThreadOK, Approved, ActingOK, Acting

LEMMA EvidenceStep ==
  ASSUME IInv, NEW r \in Requests, Supervisor(r) \/ DiagnosisAgent(r) \/ ReportAgent(r)
  PROVE  IInv'
<1>1. local[r] \in Threads /\ ThreadOK(local[r]) /\ audit \subseteq Events
  BY DEF IInv, TypeOK, Events
<1>2. CASE Supervisor(r)
  BY <1>1, <1>2, InitializedOK, ReturnOK DEF Supervisor
<1>3. CASE DiagnosisAgent(r)
  <2>1. PICK next \in AfterDiagnosis(local[r]) : Return(r, Diagnosed(local[r], next))
    BY <1>3 DEF DiagnosisAgent
  <2>2. local[r].next = "DiagnosisAgent" /\ audit' = audit /\ calls' = calls
    BY <1>3 DEF DiagnosisAgent, At
  <2> QED BY <1>1, <2>1, <2>2, DiagnosedOK, ReturnOK
<1>4. CASE ReportAgent(r)
  BY <1>1, <1>4, ReportedOK, ReturnOK DEF ReportAgent
<1> QED BY <1>2, <1>3, <1>4

LEMMA RepairStep == ASSUME IInv, NEW r \in Requests, RepairAgent(r) PROVE IInv'
<1>1. local[r] \in Threads /\ ThreadOK(local[r]) /\ local[r].next = "RepairAgent"
  BY DEF IInv, TypeOK, RepairAgent, At
<1>2. audit' \subseteq Events /\ calls' = calls
  BY AuthzType DEF RepairAgent, IInv, TypeOK, Events, Stages
<1>3. CASE Authorized(r, "repair_plan")
  <2>1. PICK p \in Plans : Return(r, Planned(local[r], p))
    BY <1>3 DEF RepairAgent
  <2> QED BY <1>1, <1>2, <2>1, PlannedOK, ReturnOK
<1>4. CASE ~Authorized(r, "repair_plan")
  BY <1>2, <1>4, RaiseOK DEF RepairAgent
<1> QED BY <1>3, <1>4

LEMMA RiskStep == ASSUME IInv, NEW r \in Requests, RiskCheck(r) PROVE IInv'
<1>1. local[r] \in Threads /\ ThreadOK(local[r]) /\ local[r].next = "RiskCheck" /\ now \in Times
  BY DEF IInv, TypeOK, RiskCheck, At
<1>2. audit' \subseteq Events /\ calls' = calls
  <2>1. PolicyAudit(r) \subseteq Events
    BY <1>1, PolicyAuditType DEF ThreadOK
  <2> QED BY <2>1 DEF RiskCheck, IInv, TypeOK, Events
<1>3. Assessed(local[r], now) \in Threads /\ ThreadOK(Assessed(local[r], now))
  BY <1>1, AssessedOK
<1> QED BY <1>2, <1>3, ReturnOK, RaiseOK DEF RiskCheck

LEMMA ApprovalStep == ASSUME IInv, NEW r \in Requests, Approval(r) PROVE IInv'
<1> DEFINE payload == req[r].payload
<1>1. local[r] \in Threads /\ ThreadOK(local[r]) /\ local[r].next = "Approval" /\ now \in Times
  BY DEF IInv, TypeOK, Approval, At
<1>2. payload \in Payloads
  BY DEF IInv, TypeOK, Approval, ReqType
<1>3. Keyed(Verdict(payload)) \subseteq Events
  BY <1>2, KeyedType DEF Payloads, Events, DecideEvents, Verdict
<1>4. audit' \subseteq Events /\ calls' = calls
  BY <1>3, AuthzType DEF Approval, IInv, TypeOK, Events, Stages
<1>5. CASE Raise(r)
  BY <1>4, <1>5, RaiseOK
<1>6. CASE CanDecide(local[r], payload, now) /\ Return(r, Decided(local[r], payload, now))
  BY <1>1, <1>2, <1>4, <1>6, DecidedOK, ReturnOK
<1> QED BY <1>5, <1>6 DEF Approval

LEMMA ExecuteStep == ASSUME IInv, NEW r \in Requests, Execute(r) PROVE IInv'
<1>1. local[r] \in Threads /\ ThreadOK(local[r]) /\ local[r].next = "Execute"
  BY DEF IInv, TypeOK, Execute
<1>2. audit' \subseteq Events /\ calls' = calls
  <2>1. PolicyAudit(r) \subseteq Events
    BY <1>1, PolicyAuditType DEF ThreadOK
  <2> QED BY <2>1, AuthzType DEF Execute, IInv, TypeOK, Events, Stages
<1>3. CASE Raise(r)
  BY <1>2, <1>3, RaiseOK
<1>4. CASE Return(r, Executed(local[r], Refusal(local[r])))
  BY <1>1, <1>2, <1>4, ExecutedOK, RefusalType, ReturnOK
<1>5. CASE /\ Refusal(local[r]) = "none"
           /\ pc' = [pc EXCEPT ![r] = "acting"]
           /\ UNCHANGED <<ckpt, now, rbac, req, local, dirty, gone>>
  <2>1. TypeOK'
    BY <1>2, <1>5 DEF IInv, TypeOK, Phases, Events
  <2>2. ThreadOK(ckpt)' /\ \A q \in Requests : ThreadOK(local[q])'
    BY <1>5 DEF IInv, ThreadOK, Approved
  <2>3. ASSUME NEW q \in Requests PROVE ActingOK(q)'
    BY <1>1, <1>5 DEF IInv, TypeOK, ActingOK, Acting
  <2> QED BY <2>1, <2>2, <2>3 DEF IInv
<1> QED BY <1>3, <1>4, <1>5 DEF Execute

LEMMA CallStep == ASSUME IInv, NEW r \in Requests, CallHandler(r) PROVE IInv'
<1>1. local[r] \in Threads /\ ThreadOK(local[r]) /\ local[r].next = "Execute"
  BY DEF IInv, TypeOK, CallHandler, ActingOK, Acting
<1>2. local[r].plan \in Plans
  BY <1>1 DEF Threads, ThreadOK
<1>3. PICK o \in Outcomes :
        calls' = [calls EXCEPT ![r] = Append(@, [plan |-> local[r].plan, outcome |-> o])]
  BY DEF CallHandler
<1>4. [plan |-> local[r].plan, outcome |-> o] \in Calls
  BY <1>2 DEF Calls
<1>5. calls' \in [Requests -> Seq(Calls)]
  BY <1>3, <1>4 DEF IInv, TypeOK
<1>6. TypeOK'
  BY <1>5 DEF CallHandler, IInv, TypeOK
<1> QED BY <1>6, FrameOK DEF CallHandler

LEMMA FinishStep ==
  ASSUME IInv, NEW r \in Requests, FinishExecute(r) \/ FailExecute(r)
  PROVE  IInv'
<1>1. local[r] \in Threads /\ ThreadOK(local[r])
  BY DEF IInv, TypeOK
<1>2. ToolAudit(r) \subseteq Events
  <2>1. \A i \in DOMAIN calls[r] : calls[r][i] \in Calls
    BY DEF IInv, TypeOK
  <2> QED BY <2>1 DEF ToolAudit, Events, ToolEvents, Calls
<1>3. audit' \subseteq Events /\ calls' = calls
  BY <1>2 DEF FinishExecute, FailExecute, IInv, TypeOK, Events
<1>4. CASE FinishExecute(r)
  <2>1. PICK result \in Results : Return(r, Executed(local[r], result))
    BY <1>4 DEF FinishExecute, Results
  <2> QED BY <1>1, <1>3, <2>1, ExecutedOK, ReturnOK
<1>5. CASE FailExecute(r)
  BY <1>3, <1>5, RaiseOK DEF FailExecute
<1> QED BY <1>4, <1>5

LEMMA EndStep ==
  ASSUME IInv, NEW r \in Requests, Interrupt(r) \/ Complete(r) \/ Fail(r)
  PROVE  IInv'
<1>1. audit' \subseteq Events
  BY DEF Interrupt, Complete, Fail, IInv, TypeOK, Events
<1> QED BY <1>1, EndOK, RaiseOK DEF Interrupt, Complete, Fail

LEMMA DisconnectStep == ASSUME IInv, NEW r \in Requests, Disconnect(r) PROVE IInv'
<1>1. TypeOK'
  BY DEF Disconnect, IInv, TypeOK
<1> QED BY <1>1, FrameOK DEF Disconnect

LEMMA RestartStep == ASSUME IInv, Restart PROVE IInv'
<1>1. TypeOK'
  BY NoThreadOK, DeploymentAssumption
     DEF Restart, IInv, TypeOK, Phases, NoReq, ReqType, Kinds
<1>2. ThreadOK(ckpt)'
  BY DEF Restart, IInv, ThreadOK, Approved
<1>3. ASSUME NEW q \in Requests PROVE (ThreadOK(local[q]) /\ ActingOK(q))'
  <2>1. ThreadOK(local'[q])
    BY NoThreadOK DEF Restart
  <2>2. ActingOK(q)'
    BY DEF Restart, ActingOK, Acting
  <2> QED BY <2>1, <2>2 DEF ThreadOK, Approved
<1> QED BY <1>1, <1>2, <1>3 DEF IInv

LEMMA TickStep == ASSUME IInv, Tick PROVE IInv'
<1>1. TypeOK'
  BY BoundAssumption DEF Tick, IInv, TypeOK, Times
<1> QED BY <1>1, FrameOK DEF Tick

-----------------------------------------------------------------------------
LEMMA InitOK == Init => IInv
<1> SUFFICES ASSUME Init PROVE IInv
  OBVIOUS
<1>1. TypeOK
  BY NoThreadOK, DeploymentAssumption, BoundAssumption
     DEF Init, TypeOK, Phases, NoReq, ReqType, Kinds, Times
<1> QED BY <1>1, NoThreadOK DEF Init, IInv, ActingOK, Acting

LEMMA NextOK == IInv /\ [Next]_vars => IInv'
<1> SUFFICES ASSUME IInv, [Next]_vars PROVE IInv'
  OBVIOUS
<1>1. ASSUME NEW r \in Requests, Ask(r) PROVE IInv'
  BY <1>1, AskStep
<1>2. ASSUME NEW r \in Requests, Step(r) PROVE IInv'
  BY <1>2, BeginStep, SaveStep, EvidenceStep, RepairStep, RiskStep, ApprovalStep,
     ExecuteStep, CallStep, FinishStep, EndStep DEF Step
<1>3. ASSUME NEW r \in Requests, Fault(r) PROVE IInv'
  BY <1>3, EndStep, FinishStep, DisconnectStep DEF Fault
<1>4. CASE Restart
  BY <1>4, RestartStep
<1>5. CASE Tick
  BY <1>5, TickStep
<1>6. CASE UNCHANGED vars
  BY <1>6 DEF vars, IInv, TypeOK, ThreadOK, Approved, ActingOK, Acting
<1> QED BY <1>1, <1>2, <1>3, <1>4, <1>5, <1>6 DEF Next

\* The strengthened invariant holds in every reachable state.
THEOREM Inductive == Spec => []IInv
<1>1. Init => IInv
  BY InitOK
<1>2. IInv /\ [Next]_vars => IInv'
  BY NextOK
<1> QED BY <1>1, <1>2, PTL DEF Spec

\* Every variable keeps its type: the checkpoint, the runs and the audit log.
THEOREM TypeCorrect == Spec => []TypeOK
BY Inductive, PTL DEF IInv

\* No handler is called without the approval the plan or the policy requires, nor
\* against a policy denial.
THEOREM ApprovalRespected == Spec => []ApprovedWhenActing
<1>1. ASSUME IInv, NEW r \in Requests, Acting(r)
      PROVE  LET st == local[r] IN
             /\ PolicyOn => Effect[st.plan] # "deny"
             /\ NeedsApproval(st.plan) => /\ Approved(st)
                                          /\ st.approval.digest = Digest(st.plan)
                                          /\ st.approval.at <= st.risk.expires
  <2> DEFINE st == local[r]
  <2>1. st.next = "Execute" /\ Refusal(st) = "none" /\ ThreadOK(st)
    BY <1>1 DEF IInv, ActingOK
  <2>2. PolicyOn => Effect[st.plan] # "deny"
    BY <2>1 DEF Refusal
  <2>3. st.risk # None /\ st.risk.digest = Digest(st.plan)
        /\ st.risk.required = ApprovalRequired(st.plan)
    BY <2>1 DEF ThreadOK
  <2>4. ASSUME NeedsApproval(st.plan) PROVE Approved(st)
    <3>1. CASE PolicyOn /\ Effect[st.plan] = "require_approval"
      BY <2>1, <3>1 DEF Refusal
    <3>2. CASE ~(PolicyOn /\ Effect[st.plan] = "require_approval")
      <4>1. st.plan \in Plans
        BY <1>1, <2>1 DEF IInv, TypeOK, Threads, ThreadOK
      <4>2. PolicyOn => Effect[st.plan] = "allow"
        BY <2>2, <3>2, <4>1, PlanAssumption DEF Effects
      <4>3. HumanRequired(st.plan)
        BY <2>4, <3>2 DEF NeedsApproval, HumanRequired
      <4>4. st.risk.required
        BY <2>3, <4>2, <4>3 DEF ApprovalRequired
      <4> QED BY <2>1, <4>4 DEF ThreadOK
    <3> QED BY <3>1, <3>2
  <2>5. Approved(st) => /\ st.approval.digest = Digest(st.plan)
                        /\ st.approval.at <= st.risk.expires
    BY <2>1, <2>3 DEF ThreadOK, Approved
  <2> QED BY <2>2, <2>4, <2>5
<1>2. IInv => ApprovedWhenActing
  BY <1>1 DEF ApprovedWhenActing
<1> QED BY <1>2, Inductive, PTL

-----------------------------------------------------------------------------
(***************************************************************************)
(* What an incident can be relied on for, for every set of requests, users *)
(* and plans.                                                              *)
(*                                                                         *)
(* The RBAC chain, whatever the restarts: an incident planned under        *)
(* authentication acts only with an authorised execution and approval.     *)
(* The argument: all requests of one process are of one mode, with or      *)
(* without identities; a planner with an identity is accepted only while   *)
(* the incident does not exist, when nothing can be approved; from then on *)
(* every new approval is authorised.                                       *)
(*                                                                         *)
(* The verdict and the result, when the clients of an incident take turns  *)
(* (Serial): one request at a time owns the thread, so its state is the    *)
(* checkpoint or one node ahead of it (Turns), and the calls it has made   *)
(* account for the result it carries (Work).  Without faults besides, the  *)
(* verdict it follows is the only one in the audit log (Calm).             *)
(***************************************************************************)

Running(r) == pc[r] \in {"running", "acting"}

PlanGrant        == Authz("repair_plan", "allowed")
PlanAllowed      == PlanGrant \in audit
ApprovalAllowed  == Authz("approval", "allowed") \in audit
ExecutionAllowed == Authz("execution", "allowed") \in audit

\* A request that may still plan the incident with an identity.
Planner(r) == Live(r) /\ req[r].kind = "start" /\ req[r].user # None

\* Every request of a process has an identity, or none has.
OneMode == \A r \in Requests : Live(r) => (rbac <=> req[r].user # None)

\* A slot holds a state only while its run lasts.
OneRun == \A r \in Requests : IF Running(r) THEN local[r].next # "none"
                                           ELSE local[r] = NoThread /\ ~dirty[r]

\* Before the first checkpoint, runs have only been started.
Unborn == ~Exists(ckpt) =>
            /\ ckpt = NoThread
            /\ \A r \in Requests :
                 /\ Live(r) => req[r].kind = "start"
                 /\ Running(r) => /\ dirty[r]
                                  /\ local[r].next = "Supervisor"
                                  /\ local[r].approval = None

\* A run that acts was authorised in its mode.
ActingAllowed == \A r \in Requests : Acting(r) =>
                   IF req[r].user = None THEN ~PlanAllowed ELSE ExecutionAllowed

\* Every approval of an incident that a user planned, or may plan, is authorised.
ApprovalsAllowed ==
  PlanAllowed \/ (\E r \in Requests : Planner(r)) =>
    \/ ApprovalAllowed
    \/ ~Approved(ckpt) /\ \A r \in Requests : ~Approved(local[r])

\* The strengthening that is inductive, beside IInv.
Chain == OneMode /\ OneRun /\ Unborn /\ ActingAllowed /\ ApprovalsAllowed

\* Only a planner authorises the plan.
PlanByPlanner(r) == PlanAllowed' => PlanAllowed \/ Planner(r)

-----------------------------------------------------------------------------
\* The authorisation of a stage writes nothing about another stage.
LEMMA AuthzOwnStage ==
  ASSUME NEW r, NEW stage \in Stages, NEW other \in Stages, NEW outcome,
         Authz(other, outcome) \in AuthzAudit(r, stage)
  PROVE  /\ other = stage
         /\ outcome = "allowed" => Authorized(r, stage) /\ req[r].user # None
BY DEF AuthzAudit, Authz, Authorized

\* Only a planner has a context for the plan.
LEMMA PlanContext ==
  ASSUME NEW r \in Requests, Live(r), req[r].user # None, Authorized(r, "repair_plan")
  PROVE  Planner(r)
BY DEF Authorized, ContextsOf, Planner

\* No event other than an authorisation authorises.
LEMMA PolicyNoAuthz == ASSUME NEW r \in Requests PROVE PlanGrant \notin PolicyAudit(r)
BY DEF PolicyAudit, PolicyVerdict, Keyed, Authz, PlanGrant

LEMMA VerdictNoAuthz ==
  ASSUME NEW payload \in Payloads PROVE PlanGrant \notin Keyed(Verdict(payload))
BY DEF Verdict, Keyed, Authz, PlanGrant

LEMMA ToolNoAuthz == ASSUME NEW r \in Requests PROVE PlanGrant \notin ToolAudit(r)
BY DEF ToolAudit, Authz, PlanGrant

\* A run that keeps acting stays authorised, whatever another request is granted.
LEMMA StillAllowed ==
  ASSUME IInv, Chain, NEW r \in Requests, Live(r), audit \subseteq audit', PlanByPlanner(r),
         NEW q \in Requests, Acting(q), req'[q] = req[q]
  PROVE  IF req'[q].user = None THEN ~PlanAllowed' ELSE ExecutionAllowed'
<1>1. Live(q)
  BY DEF Acting, Live
<1>2. CASE req[q].user = None
  <2>1. ~PlanAllowed /\ ~Planner(r)
    BY <1>1, <1>2 DEF Chain, ActingAllowed, OneMode, Planner
  <2> QED BY <1>2, <2>1 DEF PlanByPlanner
<1>3. CASE req[q].user # None
  BY <1>3 DEF Chain, ActingAllowed, ExecutionAllowed
<1> QED BY <1>2, <1>3

\* The approvals stay authorised when every state held afterwards was held before,
\* or carries no approval, or one that is authorised.
LEMMA ApprovalsKept ==
  ASSUME Chain, audit \subseteq audit',
         PlanAllowed' => PlanAllowed \/ \E q \in Requests : Planner(q),
         \A q \in Requests : Planner(q)' => Planner(q),
         ApprovalAllowed' \/ (/\ Approved(ckpt') => \/ Approved(ckpt)
                                                    \/ \E q \in Requests : Approved(local[q])
                              /\ \A q \in Requests :
                                   Approved(local'[q]) => \/ Approved(ckpt)
                                                          \/ Approved(local[q]))
  PROVE  ApprovalsAllowed'
<1> SUFFICES ASSUME PlanAllowed' \/ \E q \in Requests : Planner(q)'
             PROVE  (\/ ApprovalAllowed
                     \/ ~Approved(ckpt) /\ \A q \in Requests : ~Approved(local[q]))'
  BY DEF ApprovalsAllowed
<1>1. PlanAllowed \/ \E q \in Requests : Planner(q)
  OBVIOUS
<1>2. CASE ApprovalAllowed
  BY <1>2 DEF ApprovalAllowed
<1>3. CASE ~Approved(ckpt) /\ \A q \in Requests : ~Approved(local[q])
  <2>1. Approved(ckpt)' <=> Approved(ckpt')
    BY DEF Approved
  <2>2. \A q \in Requests : Approved(local[q])' <=> Approved(local'[q])
    BY DEF Approved
  <2> QED BY <1>3, <2>1, <2>2
<1> QED BY <1>1, <1>2, <1>3 DEF Chain, ApprovalsAllowed

LEMMA NoThreadNotApproved == ~Approved(NoThread)
BY DEF NoThread, Approved

\* The end of a run keeps the chain.
LEMMA EndChain ==
  ASSUME IInv, Chain, NEW r \in Requests, Live(r), ~dirty[r], End(r),
         UNCHANGED <<ckpt, rbac, dirty>>, audit \subseteq audit', PlanByPlanner(r)
  PROVE  Chain'
<1> USE DEF IInv, TypeOK, End
<1>1. OneMode'
  BY DEF Chain, OneMode, Live
<1>2. OneRun'
  BY DEF Chain, OneRun, Running
<1>3. Unborn'
  BY DEF Chain, Unborn, Running, Live, Exists
<1>4. ActingAllowed'
  <2> SUFFICES ASSUME NEW q \in Requests, Acting(q)'
               PROVE  (IF req[q].user = None THEN ~PlanAllowed ELSE ExecutionAllowed)'
    BY DEF ActingAllowed
  <2>1. Acting(q) /\ req'[q] = req[q]
    BY DEF Acting
  <2> QED BY <2>1, StillAllowed
<1>5. ApprovalsAllowed'
  <2>1. \A q \in Requests : Planner(q)' => Planner(q)
    BY DEF Planner, Live
  <2>2. \A q \in Requests : Approved(local'[q]) => Approved(local[q])
    BY NoThreadNotApproved
  <2> QED BY <2>1, <2>2, ApprovalsKept DEF PlanByPlanner
<1> QED BY <1>1, <1>2, <1>3, <1>4, <1>5 DEF Chain

LEMMA RaiseChain ==
  ASSUME IInv, Chain, NEW r \in Requests, Live(r), ~dirty[r], Raise(r),
         audit \subseteq audit', PlanByPlanner(r)
  PROVE  Chain'
BY EndChain DEF Raise

\* A node that returns keeps the chain, if an approval it adds is authorised.
LEMMA ReturnChain ==
  ASSUME IInv, Chain, NEW r \in Requests, Running(r), ~dirty[r],
         NEW st \in Threads, st.next # "none", Return(r, st),
         \/ Approved(st) => Approved(local[r])
         \/ ApprovalAllowed'
         \/ req[r].user = None /\ ~PlanAllowed',
         audit \subseteq audit', PlanByPlanner(r)
  PROVE  Chain'
<1> USE DEF IInv, TypeOK
<1>0. Live(r)
  BY DEF Running, Live
<1>1. CASE gone[r]
  BY <1>0, <1>1, EndChain DEF Return
<1>2. CASE ~gone[r]
  <2> USE <1>2 DEF Return
  <2>1. OneMode'
    BY <1>0 DEF Chain, OneMode, Live
  <2>2. OneRun'
    BY DEF Chain, OneRun, Running
  <2>3. Unborn'
    BY DEF Chain, Unborn, Exists
  <2>4. ActingAllowed'
    <3> SUFFICES ASSUME NEW q \in Requests, Acting(q)'
                 PROVE  (IF req[q].user = None THEN ~PlanAllowed ELSE ExecutionAllowed)'
      BY DEF ActingAllowed
    <3>1. Acting(q) /\ req'[q] = req[q]
      BY DEF Acting
    <3> QED BY <1>0, <3>1, StillAllowed
  <2>5. ApprovalsAllowed'
    <3>1. \A q \in Requests : Planner(q)' => Planner(q)
      BY <1>0 DEF Planner, Live
    <3>2. CASE req[r].user = None /\ ~PlanAllowed'
      <4>1. \A q \in Requests : ~Planner(q)
        BY <1>0, <3>2 DEF Chain, OneMode, Planner
      <4> QED BY <3>1, <3>2, <4>1 DEF ApprovalsAllowed
    <3>3. CASE (Approved(st) => Approved(local[r])) \/ ApprovalAllowed'
      <4>1. \A q \in Requests : local'[q] = IF q = r THEN st ELSE local[q]
        OBVIOUS
      <4> QED BY <3>1, <3>3, <4>1, ApprovalsKept DEF PlanByPlanner
    <3> QED BY <3>2, <3>3
  <2> QED BY <2>1, <2>2, <2>3, <2>4, <2>5 DEF Chain
<1> QED BY <1>1, <1>2

-----------------------------------------------------------------------------
(***************************************************************************)
(* One lemma per action.                                                   *)
(***************************************************************************)

\* A decision or a retry needs a checkpoint, and a start needs none.
LEMMA AskChain == ASSUME IInv, Chain, NEW r \in Requests, Ask(r) PROVE Chain'
<1> USE DEF IInv, TypeOK
<1>1. PICK kind \in Kinds, u \in Users \union {None}, payload \in Payloads \union {None} :
        /\ Accept(r, kind, u, payload)
        /\ pc[r] = "idle"
        /\ rbac <=> u # None
        /\ IF kind = "start" THEN ~Exists(ckpt) ELSE Exists(ckpt)
  <2>1. PICK u \in Users \union {None} :
          Start(r, u) \/ \E payload \in Payloads : SubmitRetry(r, u, payload)
                                                  \/ SubmitDecision(r, u, payload)
    BY DEF Ask
  <2>2. CASE Start(r, u)
    BY <2>2 DEF Start, Admitted, Kinds
  <2>3. ASSUME NEW payload \in Payloads,
               SubmitRetry(r, u, payload) \/ SubmitDecision(r, u, payload)
        PROVE  Exists(ckpt)
    <3>1. ckpt.risk # None
      BY <2>3 DEF SubmitRetry, SubmitDecision, CanRetry, CanDecide
    <3> QED BY <3>1 DEF Chain, Unborn, NoThread
  <2>4. ASSUME NEW payload \in Payloads,
               SubmitRetry(r, u, payload) \/ SubmitDecision(r, u, payload)
        PROVE  \E kind \in {"retry", "resume"}, given \in Payloads \union {None} :
                 Accept(r, kind, u, given) /\ pc[r] = "idle" /\ (rbac <=> u # None)
    BY <2>4 DEF SubmitRetry, SubmitDecision, Admitted
  <2> QED BY <2>1, <2>2, <2>3, <2>4 DEF Kinds
<1>2. /\ UNCHANGED <<ckpt, rbac, audit, local, dirty>>
      /\ pc' = [pc EXCEPT ![r] = "accepted"]
      /\ req' = [req EXCEPT ![r] = [kind |-> kind, user |-> u, payload |-> payload]]
  BY <1>1 DEF Accept
<1>3. OneMode'
  BY <1>1, <1>2 DEF Chain, OneMode, Live
<1>4. OneRun'
  BY <1>1, <1>2 DEF Chain, OneRun, Running
<1>5. Unborn'
  BY <1>1, <1>2 DEF Chain, Unborn, Running, Live, Exists
<1>6. ActingAllowed'
  BY <1>1, <1>2 DEF Chain, ActingAllowed, Acting, PlanAllowed, ExecutionAllowed
<1>7. ApprovalsAllowed'
  <2>1. CASE kind = "start"
    <3>1. ~Approved(ckpt)
      BY <1>1, <2>1, NoThreadNotApproved DEF Chain, Unborn
    <3>2. ASSUME NEW q \in Requests PROVE ~Approved(local[q])
      BY <1>1, <2>1, NoThreadNotApproved DEF Chain, Unborn, OneRun, Approved
    <3> QED BY <1>2, <3>1, <3>2 DEF ApprovalsAllowed, Approved
  <2>2. CASE kind # "start"
    <3>1. \A q \in Requests : Planner(q)' => Planner(q)
      BY <1>1, <1>2, <2>2 DEF Planner, Live
    <3> QED BY <1>2, <3>1, ApprovalsKept DEF PlanAllowed
  <2> QED BY <2>1, <2>2
<1> QED BY <1>3, <1>4, <1>5, <1>6, <1>7 DEF Chain

LEMMA BeginChain == ASSUME IInv, Chain, NEW r \in Requests, Begin(r) PROVE Chain'
<1> USE DEF IInv, TypeOK
<1>1. pc[r] = "accepted" /\ Live(r) /\ ~dirty[r] /\ UNCHANGED <<ckpt, rbac, audit>>
  BY DEF Begin, Live, Chain, OneRun, Running
<1>2. CASE End(r) /\ UNCHANGED dirty
  BY <1>1, <1>2, EndChain DEF PlanByPlanner, PlanAllowed
<1>3. CASE /\ pc' = [pc EXCEPT ![r] = "running"]
           /\ \/ /\ req[r].kind = "start"
                 /\ local' = [local EXCEPT ![r] = Restarted(ckpt)]
                 /\ dirty' = [dirty EXCEPT ![r] = TRUE]
                 /\ req' = req
              \/ /\ req[r].kind # "start"
                 /\ local' = [local EXCEPT ![r] = ckpt]
                 /\ req' = req \/ req' = [req EXCEPT ![r].payload = None]
                 /\ UNCHANGED dirty
  <2>0. /\ \A q \in Requests : q # r => req'[q] = req[q]
        /\ req'[r].user = req[r].user /\ req'[r].kind = req[r].kind
    BY <1>3 DEF ReqType
  <2>1. req[r].kind # "start" => Exists(ckpt)
    BY <1>1 DEF Chain, Unborn
  <2>2. Restarted(ckpt).next = "Supervisor" /\ Restarted(ckpt).approval = ckpt.approval
    BY DEF Restarted, Threads
  <2>3. OneMode'
    BY <1>1, <1>3, <2>0 DEF Chain, OneMode, Live
  <2>4. OneRun'
    BY <1>1, <1>3, <2>1, <2>2 DEF Chain, OneRun, Running, Exists
  <2>5. Unborn'
    <3> SUFFICES ASSUME ~Exists(ckpt)
                 PROVE  Unborn'
      BY <1>1 DEF Unborn, Exists
    <3>1. req[r].kind = "start" /\ local'[r] = Restarted(ckpt) /\ dirty'[r]
      BY <1>3, <2>1
    <3>2. ckpt = NoThread /\ ckpt.approval = None
      BY DEF Chain, Unborn, NoThread
    <3>3. ASSUME NEW q \in Requests, q # r
          PROVE  (/\ Live(q) => req[q].kind = "start"
                  /\ Running(q) => /\ dirty[q]
                                   /\ local[q].next = "Supervisor"
                                   /\ local[q].approval = None)'
      BY <1>3, <2>0, <3>3 DEF Chain, Unborn, Live, Running
    <3> QED BY <1>1, <2>0, <2>2, <3>1, <3>2, <3>3 DEF Unborn, Live, Running
  <2>6. ActingAllowed'
    BY <1>1, <1>3, <2>0 DEF Chain, ActingAllowed, Acting, PlanAllowed, ExecutionAllowed
  <2>7. ApprovalsAllowed'
    <3>1. \A q \in Requests : Planner(q)' => Planner(q)
      BY <1>1, <1>3, <2>0 DEF Planner, Live
    <3>2. \A q \in Requests : local'[q] = local[q] \/ local'[q].approval = ckpt.approval
      BY <1>3, <2>2
    <3>3. \A q \in Requests : Approved(local'[q]) => Approved(ckpt) \/ Approved(local[q])
      BY <3>2 DEF Approved
    <3> QED BY <1>1, <3>1, <3>3, ApprovalsKept DEF PlanAllowed
  <2> QED BY <2>3, <2>4, <2>5, <2>6, <2>7 DEF Chain
<1> QED BY <1>2, <1>3 DEF Begin

\* The first save ends the time in which nothing is approved.
LEMMA SaveChain == ASSUME IInv, Chain, NEW r \in Requests, Save(r) PROVE Chain'
<1> USE DEF IInv, TypeOK, Save
<1>1. OneMode'
  BY DEF Chain, OneMode, Live
<1>2. OneRun'
  BY DEF Chain, OneRun, Running
<1>3. Unborn'
  BY DEF Chain, OneRun, Running, Unborn, Exists
<1>4. ActingAllowed'
  BY DEF Chain, ActingAllowed, Acting, PlanAllowed, ExecutionAllowed
<1>5. ApprovalsAllowed'
  <2>1. \A q \in Requests : Planner(q)' => Planner(q)
    BY DEF Planner, Live
  <2> QED BY <2>1, ApprovalsKept DEF PlanAllowed
<1> QED BY <1>1, <1>2, <1>3, <1>4, <1>5 DEF Chain

LEMMA EvidenceChain ==
  ASSUME IInv, Chain, NEW r \in Requests, Supervisor(r) \/ DiagnosisAgent(r) \/ ReportAgent(r)
  PROVE  Chain'
<1>1. local[r] \in Threads /\ ThreadOK(local[r]) /\ Running(r) /\ ~dirty[r]
  BY DEF IInv, TypeOK, Supervisor, DiagnosisAgent, ReportAgent, At, Running
<1>2. audit \subseteq audit' /\ PlanByPlanner(r)
  BY DEF Supervisor, DiagnosisAgent, ReportAgent, PlanByPlanner, PlanAllowed
<1>3. CASE Supervisor(r)
  <2>1. ~Approved(Initialized(local[r])) /\ Initialized(local[r]).next # "none"
    BY DEF Initialized, NoThread, Approved
  <2> QED BY <1>1, <1>2, <1>3, <2>1, InitializedOK, ReturnChain DEF Supervisor
<1>4. CASE DiagnosisAgent(r)
  <2>1. PICK next \in AfterDiagnosis(local[r]) : Return(r, Diagnosed(local[r], next))
    BY <1>4 DEF DiagnosisAgent
  <2>2. /\ Diagnosed(local[r], next).next # "none"
        /\ Approved(Diagnosed(local[r], next)) => Approved(local[r])
    BY <1>1, <1>4 DEF Diagnosed, AfterDiagnosis, Threads, Approved
  <2>3. Diagnosed(local[r], next) \in Threads
    BY <1>1, <1>4, DiagnosedOK DEF DiagnosisAgent, At
  <2> QED BY <1>1, <1>2, <2>1, <2>2, <2>3, ReturnChain
<1>5. CASE ReportAgent(r)
  <2>1. Reported(local[r]).next # "none" /\ (Approved(Reported(local[r])) => Approved(local[r]))
    BY <1>1 DEF Reported, Threads, Approved
  <2> QED BY <1>1, <1>2, <1>5, <2>1, ReportedOK, ReturnChain DEF ReportAgent
<1> QED BY <1>3, <1>4, <1>5

\* A plan is authorised by a planner alone.
LEMMA RepairChain == ASSUME IInv, Chain, NEW r \in Requests, RepairAgent(r) PROVE Chain'
<1>1. /\ local[r] \in Threads /\ ThreadOK(local[r]) /\ local[r].next = "RepairAgent"
      /\ Running(r) /\ Live(r) /\ ~dirty[r] /\ audit \subseteq audit'
  BY DEF IInv, TypeOK, RepairAgent, At, Running, Live
<1>2. PlanByPlanner(r)
  <2> SUFFICES ASSUME PlanAllowed', ~PlanAllowed
               PROVE  Planner(r)
    BY DEF PlanByPlanner
  <2>1. PlanGrant \in AuthzAudit(r, "repair_plan")
    BY DEF RepairAgent, PlanAllowed
  <2> QED BY <1>1, <2>1, AuthzOwnStage, PlanContext DEF Stages, PlanGrant
<1>3. CASE Authorized(r, "repair_plan")
  <2>1. PICK p \in Plans : Return(r, Planned(local[r], p))
    BY <1>3 DEF RepairAgent
  <2>2. /\ Planned(local[r], p).next # "none"
        /\ Approved(Planned(local[r], p)) => Approved(local[r])
    BY <1>1 DEF Planned, Threads, Approved
  <2> QED BY <1>1, <1>2, <2>1, <2>2, PlannedOK, ReturnChain
<1>4. CASE ~Authorized(r, "repair_plan")
  BY <1>1, <1>2, <1>4, RaiseChain DEF RepairAgent
<1> QED BY <1>3, <1>4

LEMMA RiskChain == ASSUME IInv, Chain, NEW r \in Requests, RiskCheck(r) PROVE Chain'
<1>1. /\ local[r] \in Threads /\ ThreadOK(local[r]) /\ local[r].next = "RiskCheck"
      /\ now \in Times /\ Running(r) /\ Live(r) /\ ~dirty[r] /\ audit \subseteq audit'
  BY DEF IInv, TypeOK, RiskCheck, At, Running, Live
<1>2. PlanByPlanner(r)
  BY PolicyNoAuthz DEF RiskCheck, PlanByPlanner, PlanAllowed
<1>3. /\ Assessed(local[r], now).next # "none"
      /\ Approved(Assessed(local[r], now)) => Approved(local[r])
  BY <1>1 DEF Assessed, Threads, Approved
<1>4. Assessed(local[r], now) \in Threads
  BY <1>1, AssessedOK
<1> QED BY <1>1, <1>2, <1>3, <1>4, ReturnChain, RaiseChain DEF RiskCheck

\* A verdict with an identity is authorised; one without belongs to a process without
\* authentication, in which no user planned the incident.
LEMMA ApprovalChain == ASSUME IInv, Chain, NEW r \in Requests, Approval(r) PROVE Chain'
<1> DEFINE payload == req[r].payload
<1>1. /\ local[r] \in Threads /\ ThreadOK(local[r]) /\ local[r].next = "Approval"
      /\ now \in Times /\ Running(r) /\ Live(r) /\ ~dirty[r] /\ audit \subseteq audit'
  BY DEF IInv, TypeOK, Approval, At, Running, Live
<1>2. payload \in Payloads
  BY DEF IInv, TypeOK, Approval, ReqType
<1>3. PlanAllowed' => PlanAllowed
  <2>1. PlanGrant \notin AuthzAudit(r, "approval")
    BY DEF AuthzAudit, Authz, PlanGrant
  <2> QED BY <1>2, <2>1, VerdictNoAuthz DEF Approval, PlanAllowed
<1>4. CASE Raise(r)
  BY <1>1, <1>3, <1>4, RaiseChain DEF PlanByPlanner
<1>5. CASE /\ Authorized(r, "approval") /\ CanDecide(local[r], payload, now)
           /\ AuthzAudit(r, "approval") \subseteq audit'
           /\ Return(r, Decided(local[r], payload, now))
  <2>1. Decided(local[r], payload, now).next # "none"
    BY <1>1 DEF Decided, Threads
  <2>2. Decided(local[r], payload, now) \in Threads
    BY <1>1, <1>2, <1>5, DecidedOK
  <2>3. ApprovalAllowed' \/ (req[r].user = None /\ ~PlanAllowed')
    <3>1. CASE req[r].user = None
      BY <1>3, <1>5, <3>1 DEF Authorized, UsesRbac, PlanAllowed, PlanGrant, Authz
    <3>2. CASE req[r].user # None
      BY <1>5, <3>2 DEF AuthzAudit, ApprovalAllowed
    <3> QED BY <3>1, <3>2
  <2> QED BY <1>1, <1>3, <1>5, <2>1, <2>2, <2>3, ReturnChain DEF PlanByPlanner
<1> QED BY <1>4, <1>5 DEF Approval

LEMMA ExecuteChain == ASSUME IInv, Chain, NEW r \in Requests, Execute(r) PROVE Chain'
<1>1. /\ local[r] \in Threads /\ ThreadOK(local[r]) /\ local[r].next = "Execute"
      /\ Running(r) /\ Live(r) /\ audit \subseteq audit'
  BY DEF IInv, TypeOK, Execute, Running, Live
<1>2. PlanAllowed' => PlanAllowed
  <2>1. PlanGrant \notin AuthzAudit(r, "execution")
    BY DEF AuthzAudit, Authz, PlanGrant
  <2> QED BY <2>1, PolicyNoAuthz DEF Execute, PlanAllowed
<1>3. CASE ~dirty[r] /\ Raise(r)
  BY <1>1, <1>2, <1>3, RaiseChain DEF PlanByPlanner
<1>4. CASE ~dirty[r] /\ Return(r, Executed(local[r], Refusal(local[r])))
  <2>1. /\ Executed(local[r], Refusal(local[r])).next # "none"
        /\ Approved(Executed(local[r], Refusal(local[r]))) => Approved(local[r])
    BY <1>1 DEF Executed, Threads, Approved
  <2>2. Executed(local[r], Refusal(local[r])) \in Threads
    BY <1>1, ExecutedOK, RefusalType
  <2> QED BY <1>1, <1>2, <1>4, <2>1, <2>2, ReturnChain DEF PlanByPlanner
<1>5. CASE /\ Authorized(r, "execution")
           /\ AuthzAudit(r, "execution") \subseteq audit'
           /\ pc' = [pc EXCEPT ![r] = "acting"]
           /\ UNCHANGED <<ckpt, now, rbac, req, local, dirty, gone>>
  <2> USE <1>5 DEF IInv, TypeOK
  <2>1. OneMode'
    BY <1>1 DEF Chain, OneMode, Live
  <2>2. OneRun'
    BY <1>1 DEF Chain, OneRun, Running
  <2>3. Unborn'
    BY <1>1 DEF Chain, Unborn, Exists
  <2>4. ActingAllowed'
    <3> SUFFICES ASSUME NEW q \in Requests, Acting(q)'
                 PROVE  (IF req[q].user = None THEN ~PlanAllowed ELSE ExecutionAllowed)'
      BY DEF ActingAllowed
    <3>1. CASE q # r
      BY <1>1, <1>2, <3>1, StillAllowed DEF Acting, PlanByPlanner
    <3>2. CASE q = r /\ req[r].user = None
      BY <1>2, <3>2 DEF Authorized, UsesRbac, PlanAllowed, PlanGrant, Authz
    <3>3. CASE q = r /\ req[r].user # None
      BY <3>3 DEF AuthzAudit, ExecutionAllowed
    <3> QED BY <3>1, <3>2, <3>3
  <2>5. ApprovalsAllowed'
    <3>1. \A q \in Requests : Planner(q)' => Planner(q)
      BY <1>1 DEF Planner, Live
    <3> QED BY <1>1, <1>2, <3>1, ApprovalsKept
  <2> QED BY <2>1, <2>2, <2>3, <2>4, <2>5 DEF Chain
<1> QED BY <1>3, <1>4, <1>5 DEF Execute

\* A handler call or a disconnect touches nothing the chain speaks of.
LEMMA QuietChain ==
  ASSUME Chain, UNCHANGED <<ckpt, rbac, audit, pc, req, local, dirty>>
  PROVE  Chain'
BY DEF Chain, OneMode, OneRun, Unborn, ActingAllowed, ApprovalsAllowed, Running, Live,
       Acting, Planner, PlanAllowed, ApprovalAllowed, ExecutionAllowed, Exists, Approved

LEMMA FinishChain ==
  ASSUME IInv, Chain, NEW r \in Requests, FinishExecute(r) \/ FailExecute(r)
  PROVE  Chain'
<1>1. /\ local[r] \in Threads /\ ThreadOK(local[r])
      /\ Running(r) /\ Live(r) /\ ~dirty[r] /\ audit \subseteq audit'
  BY DEF IInv, TypeOK, FinishExecute, FailExecute, Running, Live
<1>2. PlanByPlanner(r)
  BY ToolNoAuthz DEF FinishExecute, FailExecute, PlanByPlanner, PlanAllowed
<1>3. CASE FailExecute(r)
  BY <1>1, <1>2, <1>3, RaiseChain DEF FailExecute
<1>4. CASE FinishExecute(r)
  <2>1. PICK result \in Results : Return(r, Executed(local[r], result))
    BY <1>4 DEF FinishExecute, Results
  <2>2. /\ Executed(local[r], result).next # "none"
        /\ Approved(Executed(local[r], result)) => Approved(local[r])
    BY <1>1 DEF Executed, Threads, Approved
  <2> QED BY <1>1, <1>2, <2>1, <2>2, ExecutedOK, ReturnChain
<1> QED BY <1>3, <1>4

LEMMA CloseChain ==
  ASSUME IInv, Chain, NEW r \in Requests, Interrupt(r) \/ Complete(r) \/ Fail(r)
  PROVE  Chain'
<1>1. Live(r) /\ ~dirty[r] /\ End(r) /\ UNCHANGED <<ckpt, rbac, dirty, audit>>
  BY DEF Interrupt, Complete, Fail, Raise, At, Live
<1> QED BY <1>1, EndChain DEF PlanByPlanner, PlanAllowed

\* A restart ends every run, and with them the mode of the process.
LEMMA RestartChain == ASSUME IInv, Chain, Restart PROVE Chain'
<1> USE DEF IInv, TypeOK, Restart
<1>1. \A q \in Requests : pc'[q] \in {"idle", "closed"}
  OBVIOUS
<1>2. OneMode' /\ OneRun' /\ ActingAllowed'
  BY <1>1 DEF OneMode, OneRun, ActingAllowed, Live, Running, Acting
<1>3. Unborn'
  BY <1>1 DEF Chain, Unborn, Live, Running, Exists
<1>4. ApprovalsAllowed'
  <2>1. \A q \in Requests : ~Planner(q)' /\ ~Approved(local'[q])
    BY <1>1, NoThreadNotApproved DEF Planner, Live
  <2> QED BY <2>1, ApprovalsKept DEF PlanAllowed
<1> QED BY <1>2, <1>3, <1>4 DEF Chain

LEMMA ChainInit == Init => Chain
<1> SUFFICES ASSUME Init PROVE Chain
  OBVIOUS
<1>1. \A r \in Requests : /\ pc[r] = "idle" /\ local[r] = NoThread
                          /\ ~dirty[r] /\ ~Approved(local[r])
  BY NoThreadNotApproved DEF Init
<1>2. ckpt = NoThread /\ audit = {} /\ ~Approved(ckpt)
  BY NoThreadNotApproved DEF Init
<1> QED BY <1>1, <1>2 DEF Chain, OneMode, OneRun, Unborn, ActingAllowed, ApprovalsAllowed,
                          Live, Running, Acting, Planner, PlanAllowed

LEMMA ChainNext == IInv /\ Chain /\ [Next]_vars => Chain'
<1> SUFFICES ASSUME IInv, Chain, [Next]_vars PROVE Chain'
  OBVIOUS
<1>1. ASSUME NEW r \in Requests, Ask(r) PROVE Chain'
  BY <1>1, AskChain
<1>2. ASSUME NEW r \in Requests, CallHandler(r) \/ Disconnect(r) PROVE Chain'
  BY <1>2, QuietChain DEF CallHandler, Disconnect
<1>3. ASSUME NEW r \in Requests, Step(r) PROVE Chain'
  BY <1>2, <1>3, BeginChain, SaveChain, EvidenceChain, RepairChain, RiskChain, CloseChain,
     ApprovalChain, ExecuteChain, FinishChain DEF Step
<1>4. ASSUME NEW r \in Requests, Fault(r) PROVE Chain'
  BY <1>2, <1>4, CloseChain, FinishChain DEF Fault
<1>5. CASE Restart
  BY <1>5, RestartChain
<1>6. CASE Tick \/ UNCHANGED vars
  BY <1>6, QuietChain DEF Tick, vars
<1> QED BY <1>1, <1>3, <1>4, <1>5, <1>6 DEF Next

\* Acting on an incident that was planned under authentication needs an authorised
\* execution and approval, across restarts that change authentication.
THEOREM RbacChained == Spec => []RbacChain
<1>1. Spec => [](IInv /\ Chain)
  <2>1. Init => IInv /\ Chain
    BY InitOK, ChainInit
  <2>2. IInv /\ Chain /\ [Next]_vars => (IInv /\ Chain)'
    BY NextOK, ChainNext
  <2> QED BY <2>1, <2>2, PTL DEF Spec
<1>2. ASSUME IInv, Chain, ApprovedWhenActing PROVE RbacChain
  <2> SUFFICES ASSUME PlanAllowed, NEW r \in Requests, Acting(r)
               PROVE  ExecutionAllowed /\ (NeedsApproval(local[r].plan) => ApprovalAllowed)
    BY DEF RbacChain, PlanAllowed, PlanGrant, ExecutionAllowed, ApprovalAllowed
  <2>1. ExecutionAllowed
    BY <1>2 DEF Chain, ActingAllowed
  <2>2. NeedsApproval(local[r].plan) => Approved(local[r])
    BY <1>2 DEF ApprovedWhenActing
  <2> QED BY <1>2, <2>1, <2>2 DEF Chain, ApprovalsAllowed
<1>3. Spec => []ApprovedWhenActing
  BY ApprovalRespected
<1> QED BY <1>1, <1>2, <1>3, PTL

-----------------------------------------------------------------------------
(***************************************************************************)
(* Clients that wait for the end of a stream before the next request.      *)
(*                                                                         *)
(* The argument: at most one run has its client, and only such a run can   *)
(* save; its state is the checkpoint, or the state one node away from it   *)
(* that is due to be saved.  A run whose client left works on a copy that  *)
(* is dropped.  What a run did is settled when it stops acting.            *)
(***************************************************************************)
\* A run whose node can still be saved: its client is there.
Active(r)  == Live(r) /\ ~gone[r]
Reporting  == {"ReportAgent", "END"}

\* What a state may hold where it stands.
Sound(st) ==
  /\ st.next = "Supervisor" => st.approval = None
  /\ st.result # "none" => st.next \in Reporting
  /\ st.result \in Outcomes => ~Rejected(st)

\* The state that is due to be saved over c takes nothing back.
Follows(c, st) ==
  /\ c.next # "END"
  /\ c.approval # None => st.approval = c.approval
  /\ c.result \in Outcomes => st.result = c.result /\ st.plan = c.plan

\* One client at a time: the run that can save works on what is saved.
Turns ==
  /\ Serial
  /\ \A q, r \in Requests : Active(q) /\ Active(r) => q = r
  /\ \A r \in Requests : gone[r] => Running(r) /\ ~dirty[r]
  /\ \A r \in Requests : pc[r] = "accepted" /\ req[r].kind = "start" => ckpt = NoThread
  /\ \A r \in Requests : Running(r) /\ ~gone[r] =>
       IF dirty[r] THEN Follows(ckpt, local[r]) ELSE local[r] = ckpt
  /\ Sound(ckpt) /\ \A r \in Requests : Sound(local[r])

\* A run that has acted, or never will, and one that has not acted yet.
Spent(r)   == \/ pc[r] = "closed"
              \/ pc[r] = "running" /\ local[r].next \in Reporting
Unspent(r) == \/ pc[r] \in {"idle", "accepted"}
              \/ pc[r] = "running" /\ local[r].next \notin Reporting

\* What runs that have acted can show: their calls, once they are all audited.
Evidence == {calls[r] : r \in {q \in Requests : Spent(q) /\ ToolAudit(q) \subseteq audit}}

\* Calls are the result of a state.
Shows(done, st) ==
  /\ done # <<>>
  /\ \A i \in DOMAIN done : done[i].plan = st.plan
  /\ \A i \in DOMAIN done :
       done[i].outcome = "failed" <=> (st.result = "failed" /\ i = Len(done))
  /\ st.result = "succeeded" => Len(done) = Len(st.plan.actions)

Backed(st, shown) == st.result \in Outcomes => \E done \in shown : Shows(done, st)

\* A run that acts calls the handlers of its plan in order and stops at a failure.
InOrder(r) ==
  /\ Len(calls[r]) <= Len(local[r].plan.actions)
  /\ \A i \in DOMAIN calls[r] : /\ calls[r][i].plan = local[r].plan
                                /\ calls[r][i].outcome = "failed" => i = Len(calls[r])

Work == /\ \A r \in Requests : /\ Unspent(r) => calls[r] = <<>>
                               /\ Acting(r) => InOrder(r)
                               /\ Backed(local[r], Evidence)
        /\ Backed(ckpt, Evidence)

SInv == IInv /\ Chain /\ Turns /\ Work

-----------------------------------------------------------------------------
LEMMA BackedMore ==
  ASSUME NEW st, NEW shown, NEW more, Backed(st, shown), shown \subseteq more
  PROVE  Backed(st, more)
BY DEF Backed

\* What was shown stays shown: a run that acted makes no further call.
LEMMA EvidenceKept ==
  ASSUME audit \subseteq audit',
         \A q \in Requests : Spent(q) => Spent(q)' /\ calls'[q] = calls[q]
  PROVE  Evidence \subseteq Evidence'
<1> SUFFICES ASSUME NEW q \in Requests, Spent(q), ToolAudit(q) \subseteq audit
             PROVE  calls[q] \in Evidence'
  BY DEF Evidence
<1>1. Spent(q)' /\ calls'[q] = calls[q]
  OBVIOUS
<1>2. ToolAudit(q)' = ToolAudit(q)
  BY <1>1 DEF ToolAudit
<1> QED BY <1>1, <1>2 DEF Evidence

LEMMA NoThreadSound ==
  Sound(NoThread) /\ NoThread.approval = None /\ NoThread.result = "none"
BY DEF Sound, NoThread, Outcomes

\* A step of one request keeps the turns and the work, if its own part is in order.
LEMMA OneStep ==
  ASSUME SInv, NEW r \in Requests,
         \A q \in Requests : q # r =>
           /\ pc'[q] = pc[q] /\ local'[q] = local[q] /\ dirty'[q] = dirty[q]
           /\ gone'[q] = gone[q] /\ calls'[q] = calls[q] /\ req'[q] = req[q],
         ckpt' = ckpt, audit \subseteq audit',
         Active(r)' => Active(r) \/ \A q \in Requests : q # r => ~Active(q),
         gone'[r] => Running(r)' /\ ~dirty'[r],
         pc'[r] = "accepted" /\ req'[r].kind = "start" => ckpt = NoThread,
         Running(r)' /\ ~gone'[r] =>
           IF dirty'[r] THEN Follows(ckpt, local'[r]) ELSE local'[r] = ckpt,
         Sound(local'[r]),
         Spent(r) => Spent(r)' /\ calls'[r] = calls[r],
         Unspent(r)' => calls'[r] = <<>>,
         Acting(r)' => InOrder(r)',
         Backed(local'[r], Evidence')
  PROVE  (Turns /\ Work)'
<1>1. ASSUME NEW q \in Requests, q # r
      PROVE  /\ Active(q)' = Active(q) /\ Running(q)' = Running(q) /\ Acting(q)' = Acting(q)
             /\ Spent(q)' = Spent(q) /\ Unspent(q)' = Unspent(q) /\ InOrder(q)' = InOrder(q)
  BY <1>1 DEF Active, Live, Running, Acting, Spent, Unspent, InOrder
<1>2. Evidence \subseteq Evidence'
  BY <1>1, EvidenceKept
<1>3. Turns'
  <2>1. \A p, q \in Requests : Active(p)' /\ Active(q)' => p = q
    BY <1>1 DEF SInv, Turns
  <2>2. \A q \in Requests : gone'[q] => Running(q)' /\ ~dirty'[q]
    BY <1>1 DEF SInv, Turns
  <2>3. \A q \in Requests : pc'[q] = "accepted" /\ req'[q].kind = "start" => ckpt' = NoThread
    BY DEF SInv, Turns
  <2>4. \A q \in Requests : Running(q)' /\ ~gone'[q] =>
          IF dirty'[q] THEN Follows(ckpt', local'[q]) ELSE local'[q] = ckpt'
    BY <1>1 DEF SInv, Turns
  <2>5. Sound(ckpt') /\ \A q \in Requests : Sound(local'[q])
    BY DEF SInv, Turns
  <2>6. Serial
    BY DEF SInv, Turns
  <2> QED BY <2>1, <2>2, <2>3, <2>4, <2>5, <2>6 DEF Turns, Follows, Sound, Rejected
<1>4. Work'
  <2>1. ASSUME NEW q \in Requests
        PROVE  /\ Unspent(q)' => calls'[q] = <<>>
               /\ Acting(q)' => InOrder(q)'
               /\ Backed(local'[q], Evidence')
    <3>1. CASE q = r
      BY <3>1
    <3>2. CASE q # r
      BY <1>1, <1>2, <3>2, BackedMore DEF SInv, Work
    <3> QED BY <3>1, <3>2
  <2>2. Backed(ckpt', Evidence')
    BY <1>2, BackedMore DEF SInv, Work
  <2> QED BY <2>1, <2>2 DEF Work, Backed, Shows
<1> QED BY <1>3, <1>4

\* A run that ends leaves its slot to nobody.
LEMMA EndSerial ==
  ASSUME SInv, NEW r \in Requests, End(r), ~dirty[r],
         UNCHANGED <<ckpt, dirty, calls>>, audit \subseteq audit'
  PROVE  (Turns /\ Work)'
<1> USE DEF SInv, IInv, TypeOK
<1>1. /\ pc'[r] = "closed" /\ local'[r] = NoThread /\ ~gone'[r]
      /\ \A q \in Requests : q # r =>
           /\ pc'[q] = pc[q] /\ local'[q] = local[q] /\ gone'[q] = gone[q] /\ req'[q] = req[q]
  BY DEF End
<1>2. /\ ~Active(r)' /\ ~Running(r)' /\ Spent(r)' /\ ~Unspent(r)' /\ ~Acting(r)'
  BY <1>1 DEF Active, Live, Running, Spent, Unspent, Acting
<1>3. Sound(local'[r]) /\ Backed(local'[r], Evidence')
  BY <1>1, NoThreadSound DEF Backed, Outcomes
<1> QED BY <1>1, <1>2, <1>3, OneStep

\* A node returns to the run of a client that is there, or to nobody.
LEMMA ReturnSerial ==
  ASSUME SInv, NEW r \in Requests, Running(r), ~dirty[r], NEW st \in Threads, Return(r, st),
         calls' = calls, audit \subseteq audit',
         Sound(st), Follows(local[r], st),
         pc[r] = "running" /\ local[r].next \in Reporting => st.next \in Reporting,
         st.next \notin Reporting => Unspent(r),
         st.result \in Outcomes =>
           \/ st.result = local[r].result /\ st.plan = local[r].plan
           \/ /\ Acting(r) /\ ToolAudit(r) \subseteq audit'
              /\ Shows(calls[r], st) /\ st.next \in Reporting
  PROVE  (Turns /\ Work)'
<1> USE DEF SInv, IInv, TypeOK
<1>1. CASE gone[r]
  BY <1>1, EndSerial DEF Return
<1>2. CASE ~gone[r]
  <2>1. /\ pc'[r] = "running" /\ local'[r] = st /\ dirty'[r] /\ ~gone'[r]
        /\ \A q \in Requests : q # r =>
             /\ pc'[q] = pc[q] /\ local'[q] = local[q] /\ dirty'[q] = dirty[q]
             /\ gone'[q] = gone[q] /\ calls'[q] = calls[q] /\ req'[q] = req[q]
        /\ req' = req /\ ckpt' = ckpt
    BY <1>2 DEF Return
  <2>2. local[r] = ckpt
    BY <1>2 DEF Turns
  <2>3. Active(r) /\ ~Acting(r)'
    BY <1>2, <2>1 DEF Active, Live, Running, Acting
  <2>4. Spent(r) => Spent(r)'
    BY <2>1 DEF Spent, Running
  <2>5. Unspent(r)' => calls'[r] = <<>>
    BY <2>1 DEF Unspent, Work
  <2>6. ASSUME st.result \in Outcomes PROVE \E done \in Evidence' : Shows(done, st)
    <3>1. CASE st.result = local[r].result /\ st.plan = local[r].plan
      <4>1. PICK done \in Evidence : Shows(done, local[r])
        BY <2>6, <3>1 DEF Work, Backed
      <4>2. Evidence \subseteq Evidence'
        <5>1. \A q \in Requests : Spent(q) => Spent(q)' /\ calls'[q] = calls[q]
          BY <2>1, <2>4 DEF Spent
        <5> QED BY <5>1, EvidenceKept
      <4> QED BY <3>1, <4>1, <4>2 DEF Shows
    <3>2. CASE /\ Acting(r) /\ ToolAudit(r) \subseteq audit'
               /\ Shows(calls[r], st) /\ st.next \in Reporting
      <4>1. Spent(r)' /\ ToolAudit(r)' = ToolAudit(r) /\ calls'[r] = calls[r]
        BY <2>1, <3>2 DEF Spent, ToolAudit
      <4> QED BY <3>2, <4>1 DEF Evidence
    <3> QED BY <2>6, <3>1, <3>2
  <2>7. Backed(local'[r], Evidence')
    BY <2>1, <2>6 DEF Backed
  <2> QED BY <2>1, <2>2, <2>3, <2>4, <2>5, <2>7, OneStep
<1> QED BY <1>1, <1>2

\* A node that stores no result only has to keep an approval there is.
LEMMA NodeSerial ==
  ASSUME SInv, NEW r \in Requests, pc[r] = "running", ~dirty[r],
         local[r].next \notin Reporting,
         NEW st \in Threads, Return(r, st), calls' = calls, audit \subseteq audit',
         st.result \notin Outcomes,
         st.result # "none" => st.next \in Reporting,
         st.next # "Supervisor",
         local[r].approval # None => st.approval = local[r].approval
  PROVE  (Turns /\ Work)'
<1>1. Running(r) /\ Unspent(r)
  BY DEF Running, Unspent
<1>2. local[r].result = "none"
  BY DEF SInv, Turns, Sound
<1>3. Sound(st) /\ Follows(local[r], st)
  BY <1>2 DEF Sound, Follows, Reporting, Outcomes
<1> QED BY <1>1, <1>3, ReturnSerial

LEMMA AskSerial == ASSUME SInv, NEW r \in Requests, Ask(r) PROVE (Turns /\ Work)'
<1> USE DEF SInv, IInv, TypeOK
<1>1. PICK kind \in Kinds, u \in Users \union {None}, payload \in Payloads \union {None} :
        /\ Accept(r, kind, u, payload)
        /\ pc[r] = "idle" /\ MayAsk(r)
        /\ kind = "start" => ~Exists(ckpt)
  BY DEF Ask, Start, SubmitRetry, SubmitDecision, Kinds
<1>2. /\ UNCHANGED <<ckpt, audit, local, dirty, gone, calls>>
      /\ pc' = [pc EXCEPT ![r] = "accepted"]
      /\ req' = [req EXCEPT ![r] = [kind |-> kind, user |-> u, payload |-> payload]]
  BY <1>1 DEF Accept
<1>3. \A q \in Requests : q # r => ~Active(q)
  BY <1>1 DEF MayAsk, Active, Turns
<1>4. ~gone[r] /\ ~Running(r)' /\ ~Spent(r) /\ ~Acting(r)'
  BY <1>1, <1>2 DEF Turns, Running, Spent, Acting
<1>5. calls[r] = <<>>
  BY <1>1 DEF Work, Unspent
<1>6. req'[r].kind = "start" => ckpt = NoThread
  BY <1>1, <1>2 DEF Chain, Unborn
<1>7. Backed(local'[r], Evidence')
  <2>1. \A q \in Requests : Spent(q) => Spent(q)' /\ calls'[q] = calls[q]
    BY <1>2, <1>4 DEF Spent
  <2> QED BY <1>2, <2>1, EvidenceKept, BackedMore DEF Work
<1>8. Sound(local'[r])
  BY <1>2 DEF Turns
<1> QED BY <1>2, <1>3, <1>4, <1>5, <1>6, <1>7, <1>8, OneStep

LEMMA BeginSerial == ASSUME SInv, NEW r \in Requests, Begin(r) PROVE (Turns /\ Work)'
<1> USE DEF SInv, IInv, TypeOK
<1>1. /\ pc[r] = "accepted" /\ Live(r) /\ UNCHANGED <<ckpt, audit, calls>> /\ ~dirty[r]
      /\ calls[r] = <<>> /\ ~gone[r] /\ Active(r)
  BY DEF Begin, Live, Chain, OneRun, Running, Work, Unspent, Turns, Active
<1>2. CASE End(r) /\ UNCHANGED dirty
  BY <1>1, <1>2, EndSerial
<1>3. CASE /\ pc' = [pc EXCEPT ![r] = "running"] /\ gone' = gone
           /\ \A q \in Requests : q # r => req'[q] = req[q]
           /\ \/ /\ req[r].kind = "start"
                 /\ local' = [local EXCEPT ![r] = Restarted(ckpt)]
                 /\ dirty' = [dirty EXCEPT ![r] = TRUE]
              \/ /\ ~Finished(ckpt)
                 /\ local' = [local EXCEPT ![r] = ckpt]
                 /\ UNCHANGED dirty
  <2>1. /\ pc'[r] = "running" /\ Running(r)' /\ ~Acting(r)' /\ ~Spent(r)
    BY <1>1, <1>3 DEF Running, Acting, Spent
  <2>2. \A q \in Requests : Spent(q) => Spent(q)' /\ calls'[q] = calls[q]
    BY <1>1, <1>3, <2>1 DEF Spent
  <2>3. CASE req[r].kind = "start" /\ local' = [local EXCEPT ![r] = Restarted(ckpt)]
             /\ dirty' = [dirty EXCEPT ![r] = TRUE]
    <3>1. ckpt = NoThread
      BY <1>1, <2>3 DEF Turns
    <3>2. /\ Restarted(ckpt).next = "Supervisor" /\ Restarted(ckpt).approval = None
          /\ Restarted(ckpt).result = "none"
      BY <3>1 DEF Restarted, NoThread
    <3>3. Sound(local'[r]) /\ Follows(ckpt, local'[r]) /\ Backed(local'[r], Evidence')
      BY <2>3, <3>1, <3>2, NoThreadSound DEF Sound, Follows, Backed, Outcomes, NoThread
    <3> QED BY <1>1, <1>3, <2>1, <2>3, <3>3, OneStep
  <2>4. CASE local' = [local EXCEPT ![r] = ckpt] /\ UNCHANGED dirty
    <3>1. Sound(local'[r]) /\ Backed(local'[r], Evidence')
      BY <2>2, <2>4, EvidenceKept, BackedMore, <1>1 DEF Turns, Work
    <3> QED BY <1>1, <1>3, <2>1, <2>4, <3>1, OneStep
  <2> QED BY <1>3, <2>3, <2>4
<1> QED BY <1>2, <1>3 DEF Begin

\* Only the run that has its client saves, so no other run works on what it replaces.
LEMMA SaveSerial == ASSUME SInv, NEW r \in Requests, Save(r) PROVE (Turns /\ Work)'
<1> USE DEF SInv, IInv, TypeOK, Save
<1>1. Running(r) /\ ~gone[r] /\ Active(r)
  BY DEF Chain, OneRun, Turns, Running, Active, Live
<1>2. ASSUME NEW q \in Requests
      PROVE  /\ Active(q)' = Active(q) /\ Running(q)' = Running(q) /\ Acting(q)' = Acting(q)
             /\ Spent(q)' = Spent(q) /\ Unspent(q)' = Unspent(q) /\ InOrder(q)' = InOrder(q)
  BY DEF Active, Live, Running, Acting, Spent, Unspent, InOrder
<1>3. Evidence \subseteq Evidence'
  BY <1>2, EvidenceKept
<1>4. Turns'
  <2>1. \A p, q \in Requests : Active(p)' /\ Active(q)' => p = q
    BY <1>2 DEF Turns
  <2>2. \A q \in Requests : gone'[q] => Running(q)' /\ ~dirty'[q]
    BY <1>2 DEF Turns
  <2>3. ASSUME NEW q \in Requests, pc'[q] = "accepted" PROVE FALSE
    <3>1. Active(q)
      BY <2>3 DEF Active, Live, Turns, Running
    <3>2. q = r
      BY <1>1, <3>1 DEF Turns
    <3> QED BY <1>1, <2>3, <3>2 DEF Running
  <2>4. ASSUME NEW q \in Requests, Running(q)', ~gone'[q]
        PROVE  ~dirty'[q] /\ local'[q] = ckpt'
    <3>1. Active(q)
      BY <1>2, <2>4 DEF Active, Live, Running
    <3>2. q = r
      BY <1>1, <3>1 DEF Turns
    <3> QED BY <3>2
  <2>5. Sound(ckpt') /\ \A q \in Requests : Sound(local'[q])
    BY DEF Turns
  <2>6. Serial
    BY DEF Turns
  <2> QED BY <2>1, <2>2, <2>3, <2>4, <2>5, <2>6 DEF Turns, Follows, Sound, Rejected
<1>5. Work'
  <2>1. ASSUME NEW q \in Requests
        PROVE  /\ Unspent(q)' => calls'[q] = <<>>
               /\ Acting(q)' => InOrder(q)'
               /\ Backed(local'[q], Evidence')
    BY <1>2, <1>3, BackedMore DEF Work
  <2>2. Backed(ckpt', Evidence')
    BY <1>3, BackedMore DEF Work
  <2> QED BY <2>1, <2>2 DEF Work, Backed, Shows
<1> QED BY <1>4, <1>5

LEMMA EvidenceSerial ==
  ASSUME SInv, NEW r \in Requests, Supervisor(r) \/ DiagnosisAgent(r) \/ ReportAgent(r)
  PROVE  (Turns /\ Work)'
<1>1. /\ local[r] \in Threads /\ ThreadOK(local[r]) /\ pc[r] = "running" /\ ~dirty[r]
      /\ audit \subseteq audit' /\ calls' = calls /\ Sound(local[r])
  BY DEF SInv, IInv, TypeOK, Turns, Supervisor, DiagnosisAgent, ReportAgent, At
<1>2. CASE Supervisor(r)
  <2>1. local[r].next = "Supervisor" /\ local[r].approval = None
    BY <1>1, <1>2 DEF Supervisor, At, Sound
  <2>2. /\ Initialized(local[r]).result = "none"
        /\ Initialized(local[r]).next = "DiagnosisAgent"
    BY DEF Initialized, NoThread
  <2>3. Initialized(local[r]) \in Threads /\ Return(r, Initialized(local[r]))
    BY <1>2, InitializedOK DEF Supervisor
  <2> QED BY <1>1, <2>1, <2>2, <2>3, NodeSerial DEF Reporting, Outcomes
<1>3. CASE DiagnosisAgent(r)
  <2>1. PICK next \in AfterDiagnosis(local[r]) : Return(r, Diagnosed(local[r], next))
    BY <1>3 DEF DiagnosisAgent
  <2>2. local[r].next = "DiagnosisAgent" /\ local[r].result = "none"
    BY <1>1, <1>3 DEF DiagnosisAgent, At, Sound, Reporting
  <2>3. /\ Diagnosed(local[r], next).result = "none"
        /\ Diagnosed(local[r], next).approval = local[r].approval
        /\ Diagnosed(local[r], next).next # "Supervisor"
    BY <1>1, <2>2 DEF Diagnosed, AfterDiagnosis, Threads
  <2>4. Diagnosed(local[r], next) \in Threads
    BY <1>1, <2>2, DiagnosedOK
  <2> QED BY <1>1, <2>1, <2>2, <2>3, <2>4, NodeSerial DEF Reporting, Outcomes
<1>4. CASE ReportAgent(r)
  <2>1. local[r].next = "ReportAgent" /\ Running(r)
    BY <1>1, <1>4 DEF ReportAgent, At, Running
  <2>2. /\ Reported(local[r]) \in Threads /\ Reported(local[r]).next = "END"
        /\ Reported(local[r]).result = local[r].result
        /\ Reported(local[r]).plan = local[r].plan
        /\ Reported(local[r]).approval = local[r].approval
    BY <1>1 DEF Reported, Threads, Nodes
  <2>3. Sound(Reported(local[r])) /\ Follows(local[r], Reported(local[r]))
    BY <1>1, <2>1, <2>2 DEF Sound, Follows, Rejected, Reporting
  <2>4. Return(r, Reported(local[r]))
    BY <1>4 DEF ReportAgent
  <2> QED BY <1>1, <2>1, <2>2, <2>3, <2>4, ReturnSerial DEF Reporting
<1> QED BY <1>2, <1>3, <1>4

LEMMA RaiseSerial ==
  ASSUME SInv, NEW r \in Requests, Raise(r), ~dirty[r], calls' = calls, audit \subseteq audit'
  PROVE  (Turns /\ Work)'
BY EndSerial DEF Raise

LEMMA PlanningSerial ==
  ASSUME SInv, NEW r \in Requests, RepairAgent(r) \/ RiskCheck(r)
  PROVE  (Turns /\ Work)'
<1>1. /\ local[r] \in Threads /\ ThreadOK(local[r]) /\ pc[r] = "running" /\ ~dirty[r]
      /\ audit \subseteq audit' /\ calls' = calls /\ Sound(local[r]) /\ now \in Times
  BY DEF SInv, IInv, TypeOK, Turns, RepairAgent, RiskCheck, At
<1>2. CASE Raise(r)
  BY <1>1, <1>2, RaiseSerial
<1>3. ASSUME NEW p \in Plans, Return(r, Planned(local[r], p)), local[r].next = "RepairAgent"
      PROVE  (Turns /\ Work)'
  <2>1. local[r].result = "none"
    BY <1>1, <1>3 DEF Sound, Reporting
  <2>2. /\ Planned(local[r], p).result = "none"
        /\ Planned(local[r], p).approval = local[r].approval
        /\ Planned(local[r], p).next = "RiskCheck"
    BY <1>1, <2>1 DEF Planned, Threads
  <2> QED BY <1>1, <1>3, <2>2, PlannedOK, NodeSerial DEF Reporting, Outcomes
<1>4. CASE Return(r, Assessed(local[r], now)) /\ local[r].next = "RiskCheck"
  <2>1. local[r].result = "none"
    BY <1>1, <1>4 DEF Sound, Reporting
  <2>2. /\ Assessed(local[r], now).result = "none"
        /\ Assessed(local[r], now).approval = local[r].approval
        /\ Assessed(local[r], now).next \in {"Approval", "Execute"}
    BY <1>1, <2>1 DEF Assessed, Threads
  <2> QED BY <1>1, <1>4, <2>2, AssessedOK, NodeSerial DEF Reporting, Outcomes
<1> QED BY <1>2, <1>3, <1>4 DEF RepairAgent, RiskCheck, At

\* A verdict is only given to a state without one.
LEMMA ApprovalSerial == ASSUME SInv, NEW r \in Requests, Approval(r) PROVE (Turns /\ Work)'
<1> DEFINE payload == req[r].payload
           st == Decided(local[r], payload, now)
<1>1. /\ local[r] \in Threads /\ ThreadOK(local[r]) /\ pc[r] = "running" /\ ~dirty[r]
      /\ audit \subseteq audit' /\ calls' = calls /\ Sound(local[r]) /\ now \in Times
      /\ local[r].next = "Approval" /\ payload \in Payloads
  BY DEF SInv, IInv, TypeOK, Turns, Approval, At, ReqType
<1>2. CASE Raise(r)
  BY <1>1, <1>2, RaiseSerial
<1>3. CASE CanDecide(local[r], payload, now) /\ Return(r, st)
  <2>1. local[r].result = "none" /\ local[r].approval = None
    BY <1>1, <1>3 DEF Sound, Reporting, CanDecide
  <2>2. st.result = "none" /\ st.next \in {"Execute", "ReportAgent"}
    BY <1>1, <2>1 DEF Decided, Threads
  <2>3. st \in Threads
    BY <1>1, <1>3, DecidedOK
  <2> HIDE DEF st
  <2> QED BY <1>1, <1>3, <2>1, <2>2, <2>3, NodeSerial DEF Reporting, Outcomes
<1> QED BY <1>2, <1>3 DEF Approval

LEMMA ExecuteSerial == ASSUME SInv, NEW r \in Requests, Execute(r) PROVE (Turns /\ Work)'
<1> DEFINE st == Executed(local[r], Refusal(local[r]))
<1>1. /\ local[r] \in Threads /\ ThreadOK(local[r]) /\ pc[r] = "running"
      /\ audit \subseteq audit' /\ calls' = calls /\ Sound(local[r])
      /\ local[r].next = "Execute" /\ ckpt' = ckpt
  BY DEF SInv, IInv, TypeOK, Turns, Execute, Raise, Return
<1>2. CASE ~dirty[r] /\ Raise(r)
  BY <1>1, <1>2, RaiseSerial
<1>3. CASE Refusal(local[r]) # "none" /\ ~dirty[r] /\ Return(r, st)
  <2>1. Refusal(local[r]) \in {"blocked", "not_executed"}
    BY <1>3 DEF Refusal
  <2>2. /\ st.result \in {"blocked", "not_executed"} /\ st.next = "ReportAgent"
        /\ st.approval = local[r].approval
    BY <1>1, <2>1 DEF Executed, Threads
  <2>3. st \in Threads
    BY <1>1, RefusalType, ExecutedOK
  <2> HIDE DEF st
  <2> QED BY <1>1, <1>3, <2>2, <2>3, NodeSerial DEF Reporting, Outcomes
<1>4. CASE /\ pc' = [pc EXCEPT ![r] = "acting"]
           /\ UNCHANGED <<ckpt, now, rbac, req, local, dirty, gone>>
  <2> USE DEF SInv, IInv, TypeOK
  <2>1. Running(r) /\ Running(r)' /\ ~Spent(r) /\ ~Unspent(r)' /\ calls[r] = <<>>
    BY <1>1, <1>4 DEF Running, Spent, Unspent, Reporting, Work
  <2>2. InOrder(r)'
    <3>1. local[r].plan \in Plans
      BY <1>1 DEF ThreadOK, Threads
    <3>2. Len(local[r].plan.actions) \in Nat
      BY <3>1, PlanAssumption
    <3> QED BY <1>1, <1>4, <2>1, <3>2 DEF InOrder
  <2>3. \A q \in Requests : Spent(q) => Spent(q)' /\ calls'[q] = calls[q]
    BY <1>1, <1>4, <2>1 DEF Spent
  <2>4. Backed(local'[r], Evidence')
    BY <1>1, <1>4, <2>3, EvidenceKept, BackedMore DEF Work
  <2>5. Active(r)' => Active(r)
    BY <1>4, <2>1 DEF Active, Live, Running
  <2>6. Sound(local'[r]) /\ (gone[r] => ~dirty[r]) /\ pc'[r] # "accepted"
    BY <1>4 DEF Turns
  <2> QED BY <1>1, <1>4, <2>1, <2>2, <2>3, <2>4, <2>5, <2>6, OneStep DEF Turns
<1> QED BY <1>2, <1>3, <1>4 DEF Execute

\* A call follows calls that all succeeded.
LEMMA CallSerial == ASSUME SInv, NEW r \in Requests, CallHandler(r) PROVE (Turns /\ Work)'
<1> USE DEF SInv, IInv, TypeOK
<1>1. /\ pc[r] = "acting" /\ ~ActionsDone(r) /\ local[r].plan \in Plans /\ InOrder(r)
      /\ UNCHANGED <<ckpt, audit, pc, req, local, dirty, gone>>
  BY DEF CallHandler, ActingOK, Acting, ThreadOK, Threads, Work
<1>2. PICK o \in Outcomes :
        calls' = [calls EXCEPT ![r] = Append(@, [plan |-> local[r].plan, outcome |-> o])]
  BY DEF CallHandler
<1>3. /\ calls[r] \in Seq(Calls) /\ Len(calls[r]) \in Nat
      /\ Len(local[r].plan.actions) \in Nat
  BY <1>1, PlanAssumption
<1>4. /\ calls'[r] = Append(calls[r], [plan |-> local[r].plan, outcome |-> o])
      /\ \A q \in Requests : q # r => calls'[q] = calls[q]
  BY <1>2
<1>5. InOrder(r)'
  <2>1. Len(calls'[r]) = Len(calls[r]) + 1 /\ DOMAIN calls'[r] = 1 .. Len(calls[r]) + 1
    BY <1>3, <1>4
  <2>2. Len(calls'[r]) <= Len(local[r].plan.actions)
    BY <1>1, <1>3, <2>1 DEF InOrder, ActionsDone
  <2>3. ASSUME NEW i \in DOMAIN calls'[r]
        PROVE  /\ calls'[r][i].plan = local[r].plan
               /\ calls'[r][i].outcome = "failed" => i = Len(calls'[r])
    <3>1. CASE i = Len(calls[r]) + 1
      <4>1. calls'[r][i] = [plan |-> local[r].plan, outcome |-> o]
        BY <1>3, <1>4, <3>1
      <4> QED BY <2>1, <3>1, <4>1
    <3>2. CASE i # Len(calls[r]) + 1
      <4>1. i \in DOMAIN calls[r] /\ calls'[r][i] = calls[r][i]
        BY <1>3, <1>4, <2>1, <3>2
      <4> QED BY <1>1, <4>1 DEF InOrder, ActionsDone
    <3> QED BY <3>1, <3>2
  <2> QED BY <1>1, <2>2, <2>3 DEF InOrder
<1>6. ~Spent(r) /\ ~Unspent(r)' /\ Active(r)' = Active(r) /\ Running(r)' = Running(r)
  BY <1>1 DEF Spent, Unspent, Active, Live, Running
<1>7. \A q \in Requests : Spent(q) => Spent(q)' /\ calls'[q] = calls[q]
  BY <1>1, <1>4, <1>6 DEF Spent
<1>8. Sound(local'[r]) /\ Backed(local'[r], Evidence')
  BY <1>1, <1>7, EvidenceKept, BackedMore DEF Turns, Work
<1> QED BY <1>1, <1>4, <1>5, <1>6, <1>7, <1>8, OneStep DEF Turns

\* The result of a run that acted is what its calls show.
LEMMA FinishShows ==
  ASSUME SInv, NEW r \in Requests, Acting(r), ActionsDone(r),
         NEW st, st.plan = local[r].plan,
         st.result = IF \E i \in DOMAIN calls[r] : calls[r][i].outcome = "failed"
                     THEN "failed" ELSE "succeeded"
  PROVE  Shows(calls[r], st)
<1> USE DEF SInv, IInv, TypeOK
<1>1. /\ local[r].plan \in Plans /\ InOrder(r) /\ Refusal(local[r]) = "none"
  BY DEF ActingOK, Acting, ThreadOK, Threads, Work
<1>2. /\ Len(local[r].plan.actions) \in Nat \ {0}
      /\ calls[r] \in Seq(Calls) /\ Len(calls[r]) \in Nat /\ DOMAIN calls[r] = 1 .. Len(calls[r])
  BY <1>1, PlanAssumption DEF Refusal
<1>3. CASE \E i \in DOMAIN calls[r] : calls[r][i].outcome = "failed"
  <2>1. PICK i \in DOMAIN calls[r] : calls[r][i].outcome = "failed"
    BY <1>3
  <2>2. i = Len(calls[r]) /\ calls[r] # <<>>
    BY <1>1, <1>2, <2>1 DEF InOrder
  <2> QED BY <1>1, <1>3, <2>1, <2>2 DEF InOrder, Shows
<1>4. CASE ~\E i \in DOMAIN calls[r] : calls[r][i].outcome = "failed"
  <2>1. Len(calls[r]) = Len(local[r].plan.actions) /\ calls[r] # <<>>
    BY <1>2, <1>4 DEF ActionsDone
  <2> QED BY <1>1, <1>4, <2>1 DEF InOrder, Shows
<1> QED BY <1>3, <1>4

LEMMA FinishSerial ==
  ASSUME SInv, NEW r \in Requests, FinishExecute(r) \/ FailExecute(r)
  PROVE  (Turns /\ Work)'
<1>1. /\ local[r] \in Threads /\ ThreadOK(local[r]) /\ pc[r] = "acting" /\ ~dirty[r]
      /\ audit \subseteq audit' /\ calls' = calls /\ Sound(local[r])
      /\ ActionsDone(r) /\ Acting(r) /\ Running(r)
      /\ local[r].next = "Execute" /\ Refusal(local[r]) = "none"
  BY DEF SInv, IInv, TypeOK, Turns, FinishExecute, FailExecute, Acting, ActingOK, Running
<1>2. CASE FailExecute(r)
  BY <1>1, <1>2, RaiseSerial DEF FailExecute
<1>3. CASE FinishExecute(r)
  <2> DEFINE result == IF \E i \in DOMAIN calls[r] : calls[r][i].outcome = "failed"
                       THEN "failed" ELSE "succeeded"
             st == Executed(local[r], result)
  <2>1. Return(r, st) /\ ToolAudit(r) \subseteq audit' /\ result \in Results
    BY <1>3 DEF FinishExecute, Results
  <2>2. /\ st \in Threads /\ st.next = "ReportAgent" /\ st.result = result
        /\ st.plan = local[r].plan /\ st.approval = local[r].approval
    BY <1>1, <2>1, ExecutedOK DEF Executed, Threads
  <2>3. local[r].result = "none" /\ ~Rejected(local[r])
    BY <1>1 DEF Sound, Reporting, Refusal
  <2>4. Sound(st) /\ Follows(local[r], st)
    BY <1>1, <2>2, <2>3 DEF Sound, Follows, Rejected, Reporting, Outcomes
  <2>5. Shows(calls[r], st)
    BY <1>1, <2>2, FinishShows
  <2> HIDE DEF st
  <2> QED BY <1>1, <2>1, <2>2, <2>4, <2>5, ReturnSerial DEF Reporting
<1> QED BY <1>2, <1>3

LEMMA CloseSerial ==
  ASSUME SInv, NEW r \in Requests, Interrupt(r) \/ Complete(r) \/ Fail(r)
  PROVE  (Turns /\ Work)'
<1>1. End(r) /\ ~dirty[r] /\ UNCHANGED <<ckpt, dirty, audit, calls>>
  BY DEF Interrupt, Complete, Fail, Raise, At
<1> QED BY <1>1, EndSerial

LEMMA DisconnectSerial ==
  ASSUME SInv, NEW r \in Requests, Disconnect(r) PROVE (Turns /\ Work)'
<1> USE DEF SInv, IInv, TypeOK
<1>1. /\ pc[r] \in {"running", "acting"} /\ ~gone[r] /\ ~dirty[r] /\ gone'[r]
      /\ \A q \in Requests : q # r => gone'[q] = gone[q]
      /\ UNCHANGED <<ckpt, audit, pc, req, local, dirty, calls>>
  BY DEF Disconnect
<1>2. /\ ~Active(r)' /\ Running(r)' /\ ~dirty'[r] /\ Spent(r)' = Spent(r)
      /\ Unspent(r)' = Unspent(r) /\ Acting(r)' = Acting(r) /\ InOrder(r)' = InOrder(r)
  BY <1>1 DEF Active, Running, Spent, Unspent, Acting, InOrder
<1>3. Evidence \subseteq Evidence'
  <2>1. \A q \in Requests : Spent(q) => Spent(q)' /\ calls'[q] = calls[q]
    BY <1>1 DEF Spent
  <2> QED BY <1>1, <2>1, EvidenceKept
<1>4. Backed(local'[r], Evidence') /\ Sound(local'[r])
  BY <1>1, <1>3, BackedMore DEF Work, Turns
<1>5. (Unspent(r)' => calls'[r] = <<>>) /\ (Acting(r)' => InOrder(r)')
  BY <1>1, <1>2 DEF Work
<1>6. pc'[r] # "accepted" /\ (Spent(r) => Spent(r)' /\ calls'[r] = calls[r])
  BY <1>1, <1>2
<1> QED BY <1>1, <1>2, <1>4, <1>5, <1>6, OneStep

LEMMA RestartSerial == ASSUME SInv, Restart PROVE (Turns /\ Work)'
<1> USE DEF SInv, IInv, TypeOK, Restart
<1>1. ASSUME NEW q \in Requests
      PROVE  /\ ~Active(q)' /\ ~Running(q)' /\ ~Acting(q)' /\ ~gone'[q] /\ pc'[q] # "accepted"
             /\ local'[q] = NoThread /\ calls'[q] = calls[q]
             /\ Unspent(q)' => Unspent(q)
             /\ Spent(q) => Spent(q)'
  BY DEF Active, Live, Running, Acting, Unspent, Spent
<1>2. Evidence \subseteq Evidence'
  BY <1>1, EvidenceKept
<1>3. Turns'
  <2>1. Sound(ckpt') /\ \A q \in Requests : Sound(local'[q])
    BY <1>1, NoThreadSound DEF Turns
  <2>2. Serial
    BY DEF Turns
  <2> QED BY <1>1, <2>1, <2>2 DEF Turns, Sound, Rejected
<1>4. Work'
  <2>1. Backed(ckpt', Evidence')
    BY <1>2, BackedMore DEF Work
  <2>2. ASSUME NEW q \in Requests
        PROVE  Backed(local'[q], Evidence') /\ (Unspent(q)' => calls'[q] = <<>>)
    BY <1>1, NoThreadSound DEF Backed, Outcomes, Work
  <2> QED BY <1>1, <2>1, <2>2 DEF Work, Backed, Shows
<1> QED BY <1>3, <1>4

\* The clock and a stutter touch none of it.
LEMMA QuietSerial ==
  ASSUME SInv, UNCHANGED <<ckpt, audit, pc, req, local, dirty, gone, calls>>
  PROVE  (Turns /\ Work)'
<1>1. ASSUME NEW q \in Requests
      PROVE  /\ Active(q)' = Active(q) /\ Running(q)' = Running(q) /\ Acting(q)' = Acting(q)
             /\ Spent(q)' = Spent(q) /\ Unspent(q)' = Unspent(q) /\ InOrder(q)' = InOrder(q)
  BY DEF Active, Live, Running, Acting, Spent, Unspent, InOrder
<1>2. Evidence \subseteq Evidence'
  BY <1>1, EvidenceKept
<1>3. Turns'
  BY <1>1 DEF SInv, Turns, Follows, Sound, Rejected
<1>4. Work'
  <2>1. \A q \in Requests : Backed(local'[q], Evidence')
    BY <1>2, BackedMore DEF SInv, Work
  <2>2. Backed(ckpt', Evidence')
    BY <1>2, BackedMore DEF SInv, Work
  <2>3. \A q \in Requests : (Unspent(q)' => calls'[q] = <<>>) /\ (Acting(q)' => InOrder(q)')
    BY <1>1 DEF SInv, Work
  <2> QED BY <2>1, <2>2, <2>3 DEF Work, Backed, Shows
<1> QED BY <1>3, <1>4

LEMMA InitSerial == ASSUME Init, Serial PROVE SInv
<1>1. IInv /\ Chain
  BY InitOK, ChainInit
<1>2. ckpt = NoThread /\ \A r \in Requests : /\ pc[r] = "idle" /\ local[r] = NoThread
                                             /\ ~dirty[r] /\ ~gone[r] /\ calls[r] = <<>>
  BY DEF Init
<1>3. Turns
  BY <1>2, NoThreadSound DEF Turns, Active, Live, Running
<1>4. Work
  BY <1>2, NoThreadSound DEF Work, Unspent, Acting, Backed, Outcomes
<1> QED BY <1>1, <1>3, <1>4 DEF SInv

LEMMA NextSerial == SInv /\ [Next]_vars => SInv'
<1> SUFFICES ASSUME SInv, [Next]_vars PROVE SInv'
  OBVIOUS
<1>1. IInv' /\ Chain'
  BY NextOK, ChainNext DEF SInv
<1>2. ASSUME NEW r \in Requests, Ask(r) \/ Step(r) \/ Fault(r) PROVE (Turns /\ Work)'
  BY <1>2, AskSerial, BeginSerial, SaveSerial, EvidenceSerial, PlanningSerial, ApprovalSerial,
     ExecuteSerial, CallSerial, FinishSerial, CloseSerial, DisconnectSerial DEF Step, Fault
<1>3. CASE Restart
  BY <1>1, <1>3, RestartSerial DEF SInv
<1>4. CASE Tick \/ UNCHANGED vars
  BY <1>1, <1>4, QuietSerial DEF Tick, vars, SInv
<1> QED BY <1>1, <1>2, <1>3, <1>4 DEF Next, SInv

\* What holds as long as clients wait for their streams.
THEOREM SerialInductive == Serial /\ Spec => []SInv
<1>1. Serial /\ Init => SInv
  BY InitSerial
<1> QED BY <1>1, NextSerial, PTL DEF Spec

\* A result in the checkpoint is what one run did, call by call, and all of it was
\* audited, whatever fails, disconnects or restarts.
THEOREM ResultBacked == Serial /\ Spec => []ResultIsBacked
<1>1. ASSUME SInv, ckpt.result \in Outcomes
      PROVE  \E r \in Requests :
               /\ calls[r] # <<>>
               /\ \A i \in DOMAIN calls[r] : calls[r][i].plan = ckpt.plan
               /\ ToolAudit(r) \subseteq audit
               /\ \A i \in DOMAIN calls[r] :
                    calls[r][i].outcome = "failed" <=>
                      (ckpt.result = "failed" /\ i = Len(calls[r]))
               /\ ckpt.result = "succeeded" => Len(calls[r]) = Len(ckpt.plan.actions)
  <2>1. PICK done \in Evidence : Shows(done, ckpt)
    BY <1>1 DEF SInv, Work, Backed
  <2>2. PICK r \in Requests : done = calls[r] /\ ToolAudit(r) \subseteq audit
    BY <2>1 DEF Evidence
  <2> QED BY <2>1, <2>2 DEF Shows
<1>2. SInv => ResultIsBacked
  BY <1>1 DEF ResultIsBacked
<1> QED BY <1>2, SerialInductive, PTL

-----------------------------------------------------------------------------
(***************************************************************************)
(* Serial clients and no fault: what the audit log and the report tell.    *)
(***************************************************************************)
\* Without faults the audit log and the handler calls tell of what is saved, or due.
Told(st, log) == st.approval # None =>
                   [event |-> "decide", digest |-> st.approval.digest,
                    outcome |-> st.approval.decision] \in log

Spoken == \E e \in audit : e.event = "decide"

Calm ==
  /\ Faults = {}
  /\ \A r \in Requests : ~gone[r] /\ Told(local[r], audit)
  /\ Told(ckpt, audit)
  /\ Spoken => \/ ckpt.approval # None
               \/ \E r \in Requests : Running(r) /\ local[r].approval # None
  /\ \A r \in Requests : calls[r] # <<>> =>
       \/ Acting(r) \/ ckpt.result \in Outcomes
       \/ Running(r) /\ local[r].result \in Outcomes

LEMMA ToldMore ==
  ASSUME NEW st, NEW log, NEW more, Told(st, log), log \subseteq more
  PROVE  Told(st, more)
BY DEF Told

LEMMA NotSpoken ==
  ASSUME NEW r \in Requests
  PROVE  /\ \A stage, e : e \in AuthzAudit(r, stage) => e.event # "decide"
         /\ \A e \in PolicyAudit(r) : e.event # "decide"
         /\ \A e \in ToolAudit(r) : e.event # "decide"
BY DEF AuthzAudit, Authz, PolicyAudit, PolicyVerdict, Keyed, ToolAudit

\* A step of one request keeps the calm, if its own part is in order.
LEMMA OneCalm ==
  ASSUME Calm, NEW r \in Requests,
         \A q \in Requests : q # r =>
           /\ pc'[q] = pc[q] /\ local'[q] = local[q] /\ calls'[q] = calls[q]
           /\ gone'[q] = gone[q],
         ckpt' = ckpt, audit \subseteq audit', ~gone'[r],
         Told(local'[r], audit'),
         Spoken' => Spoken \/ (Running(r)' /\ local'[r].approval # None),
         Running(r) /\ local[r].approval # None =>
           ckpt.approval # None \/ (Running(r)' /\ local'[r].approval # None),
         calls'[r] # <<>> =>
           \/ Acting(r)' \/ ckpt.result \in Outcomes
           \/ Running(r)' /\ local'[r].result \in Outcomes
  PROVE  Calm'
<1>1. ASSUME NEW q \in Requests, q # r
      PROVE  Running(q)' = Running(q) /\ Acting(q)' = Acting(q)
  BY <1>1 DEF Running, Acting
<1>2. ASSUME NEW q \in Requests
      PROVE  /\ ~gone'[q] /\ Told(local'[q], audit')
             /\ calls'[q] # <<>> =>
                  \/ Acting(q)' \/ ckpt'.result \in Outcomes
                  \/ Running(q)' /\ local'[q].result \in Outcomes
  <2>1. CASE q = r
    BY <2>1
  <2>2. CASE q # r
    BY <1>1, <2>2, ToldMore DEF Calm
  <2> QED BY <2>1, <2>2
<1>3. Told(ckpt', audit')
  BY ToldMore DEF Calm
<1>4. Spoken' => \/ ckpt'.approval # None
                 \/ \E q \in Requests : Running(q)' /\ local'[q].approval # None
  <2>1. ASSUME Spoken, NEW q \in Requests, Running(q), local[q].approval # None
        PROVE  \/ ckpt.approval # None
               \/ \E p \in Requests : Running(p)' /\ local'[p].approval # None
    <3>1. CASE q = r
      BY <2>1, <3>1
    <3>2. CASE q # r
      BY <1>1, <2>1, <3>2
    <3> QED BY <3>1, <3>2
  <2>2. Spoken => ckpt.approval # None \/ \E q \in Requests : Running(q) /\ local[q].approval # None
    BY DEF Calm
  <2> QED BY <2>1, <2>2
<1>5. Faults = {}
  BY DEF Calm
<1> QED BY <1>2, <1>3, <1>4, <1>5 DEF Calm, Told

\* A run ends with what is saved.
LEMMA EndCalm ==
  ASSUME SInv, Calm, NEW r \in Requests, Live(r), ~Acting(r), End(r), ~dirty[r],
         UNCHANGED <<ckpt, calls>>, audit \subseteq audit', Spoken' => Spoken
  PROVE  Calm'
<1> USE DEF SInv, IInv, TypeOK
<1>1. /\ local'[r] = NoThread /\ ~gone'[r]
      /\ \A q \in Requests : q # r =>
           pc'[q] = pc[q] /\ local'[q] = local[q] /\ gone'[q] = gone[q]
  BY DEF End
<1>2. Running(r) => local[r] = ckpt
  BY DEF Turns, Calm
<1>3. calls[r] # <<>> => Running(r)
  BY DEF Work, Unspent, Live, Running
<1>4. Told(local'[r], audit')
  BY <1>1, NoThreadSound DEF Told
<1>5. calls'[r] # <<>> => ckpt.result \in Outcomes
  BY <1>2, <1>3 DEF Calm
<1> QED BY <1>1, <1>2, <1>4, <1>5, OneCalm

\* A node returns what it takes along.
LEMMA ReturnCalm ==
  ASSUME SInv, Calm, NEW r \in Requests, Running(r), ~dirty[r], NEW st \in Threads, Return(r, st),
         calls' = calls, audit \subseteq audit', Follows(local[r], st),
         Told(st, audit'), Spoken' => Spoken \/ st.approval # None,
         Acting(r) => st.result \in Outcomes
  PROVE  Calm'
<1> USE DEF SInv, IInv, TypeOK
<1>1. /\ pc'[r] = "running" /\ local'[r] = st /\ ~gone'[r]
      /\ \A q \in Requests : q # r =>
           pc'[q] = pc[q] /\ local'[q] = local[q] /\ gone'[q] = gone[q]
      /\ ckpt' = ckpt
  BY DEF Return, Calm
<1>2. Running(r)' /\ local[r] = ckpt
  BY <1>1 DEF Running, Turns, Calm
<1>3. calls[r] # <<>> => st.result \in Outcomes \/ ckpt.result \in Outcomes
  BY <1>2 DEF Calm
<1> QED BY <1>1, <1>2, <1>3, OneCalm

LEMMA AskCalm == ASSUME SInv, Calm, NEW r \in Requests, Ask(r) PROVE Calm'
<1> USE DEF SInv, IInv, TypeOK
<1>1. PICK kind \in Kinds, u \in Users \union {None}, payload \in Payloads \union {None} :
        Accept(r, kind, u, payload) /\ pc[r] = "idle"
  BY DEF Ask, Start, SubmitRetry, SubmitDecision, Kinds
<1>2. /\ UNCHANGED <<ckpt, audit, local, gone, calls>>
      /\ pc' = [pc EXCEPT ![r] = "accepted"]
  BY <1>1 DEF Accept
<1>3. calls[r] = <<>> /\ ~Running(r) /\ ~gone[r] /\ Told(local[r], audit)
  BY <1>1 DEF Work, Unspent, Running, Calm
<1>4. Spoken' = Spoken
  BY <1>2 DEF Spoken
<1> QED BY <1>2, <1>3, <1>4, OneCalm

LEMMA BeginCalm == ASSUME SInv, Calm, NEW r \in Requests, Begin(r) PROVE Calm'
<1> USE DEF SInv, IInv, TypeOK
<1>1. /\ pc[r] = "accepted" /\ Live(r) /\ ~dirty[r] /\ ~gone[r] /\ calls[r] = <<>>
      /\ ~Acting(r) /\ ~Running(r) /\ UNCHANGED <<ckpt, audit, calls>>
  BY DEF Begin, Live, Chain, OneRun, Running, Work, Unspent, Calm, Acting
<1>2. Spoken' = Spoken
  BY <1>1 DEF Spoken
<1>3. CASE End(r)
  BY <1>1, <1>2, <1>3, EndCalm
<1>4. CASE /\ pc' = [pc EXCEPT ![r] = "running"] /\ gone' = gone
           /\ \E st \in {ckpt, Restarted(ckpt)} : local' = [local EXCEPT ![r] = st]
  <2>1. local'[r].approval = ckpt.approval
    BY <1>4 DEF Restarted, Threads
  <2>2. Told(local'[r], audit')
    BY <1>1, <2>1 DEF Told, Calm
  <2> QED BY <1>1, <1>2, <1>4, <2>2, OneCalm
<1> QED BY <1>3, <1>4 DEF Begin

LEMMA SaveCalm == ASSUME SInv, Calm, NEW r \in Requests, Save(r) PROVE Calm'
<1> USE DEF SInv, IInv, TypeOK, Save
<1>1. Running(r) /\ ~gone[r] /\ dirty[r] /\ Active(r)
  BY DEF Chain, OneRun, Turns, Running, Active, Live
<1>2. Follows(ckpt, local[r])
  BY <1>1 DEF Turns
<1>3. ASSUME NEW q \in Requests
      PROVE  /\ Running(q)' = Running(q) /\ Acting(q)' = Acting(q)
             /\ Running(q) => q = r
  <2>1. Running(q) => Active(q)
    BY DEF Running, Active, Live, Calm
  <2> QED BY <1>1, <2>1 DEF Running, Acting, Turns
<1>4. Told(ckpt', audit') /\ \A q \in Requests : Told(local'[q], audit') /\ ~gone'[q]
  BY DEF Calm
<1>5. Spoken' = Spoken
  BY DEF Spoken
<1>6. Spoken => ckpt'.approval # None
  BY <1>2, <1>3 DEF Calm, Follows
<1>7. ASSUME NEW q \in Requests, calls[q] # <<>>
      PROVE  Acting(q) \/ ckpt'.result \in Outcomes
  BY <1>2, <1>3, <1>7 DEF Calm, Follows
<1>8. Faults = {}
  BY DEF Calm
<1> QED BY <1>3, <1>4, <1>5, <1>6, <1>7, <1>8 DEF Calm, Told

LEMMA RaiseCalm ==
  ASSUME SInv, Calm, NEW r \in Requests, pc[r] = "running", Raise(r), ~dirty[r],
         calls' = calls, audit \subseteq audit', Spoken' => Spoken
  PROVE  Calm'
BY EndCalm DEF Raise, Live, Acting

\* A node that leaves the verdict and the result alone.
LEMMA NodeCalm ==
  ASSUME SInv, Calm, NEW r \in Requests, pc[r] = "running", ~dirty[r], local[r].next # "END",
         NEW st \in Threads, Return(r, st), calls' = calls, audit \subseteq audit',
         Spoken' => Spoken, st.approval = local[r].approval,
         local[r].result \in Outcomes => st.result = local[r].result /\ st.plan = local[r].plan
  PROVE  Calm'
<1>1. Running(r) /\ ~Acting(r) /\ Follows(local[r], st)
  BY DEF Running, Acting, Follows
<1>2. Told(local[r], audit')
  BY ToldMore DEF Calm
<1>3. Told(st, audit')
  BY <1>2 DEF Told
<1> QED BY <1>1, <1>3, ReturnCalm

LEMMA EvidenceCalm ==
  ASSUME SInv, Calm, NEW r \in Requests, Supervisor(r) \/ DiagnosisAgent(r) \/ ReportAgent(r)
  PROVE  Calm'
<1>1. /\ local[r] \in Threads /\ ThreadOK(local[r]) /\ pc[r] = "running" /\ ~dirty[r]
      /\ audit' = audit /\ calls' = calls /\ Sound(local[r])
  BY DEF SInv, IInv, TypeOK, Turns, Supervisor, DiagnosisAgent, ReportAgent, At
<1>2. audit \subseteq audit' /\ (Spoken' => Spoken)
  BY <1>1 DEF Spoken
<1>3. CASE Supervisor(r)
  <2>1. local[r].next = "Supervisor" /\ local[r].approval = None /\ local[r].result = "none"
    BY <1>1, <1>3 DEF Supervisor, At, Sound, Reporting
  <2>2. Initialized(local[r]).approval = None
    BY DEF Initialized, NoThread
  <2>3. Initialized(local[r]) \in Threads /\ Return(r, Initialized(local[r]))
    BY <1>3, InitializedOK DEF Supervisor
  <2> QED BY <1>1, <1>2, <2>1, <2>2, <2>3, NodeCalm DEF Outcomes
<1>4. CASE DiagnosisAgent(r)
  <2>1. PICK next \in AfterDiagnosis(local[r]) : Return(r, Diagnosed(local[r], next))
    BY <1>4 DEF DiagnosisAgent
  <2>2. local[r].next = "DiagnosisAgent"
    BY <1>4 DEF DiagnosisAgent, At
  <2>3. /\ Diagnosed(local[r], next).result = local[r].result
        /\ Diagnosed(local[r], next).plan = local[r].plan
        /\ Diagnosed(local[r], next).approval = local[r].approval
    BY <1>1 DEF Diagnosed, Threads
  <2>4. Diagnosed(local[r], next) \in Threads
    BY <1>1, <2>2, DiagnosedOK
  <2> QED BY <1>1, <1>2, <2>1, <2>2, <2>3, <2>4, NodeCalm
<1>5. CASE ReportAgent(r)
  <2>1. local[r].next = "ReportAgent" /\ Return(r, Reported(local[r]))
    BY <1>5 DEF ReportAgent, At
  <2>2. /\ Reported(local[r]) \in Threads
        /\ Reported(local[r]).result = local[r].result
        /\ Reported(local[r]).plan = local[r].plan
        /\ Reported(local[r]).approval = local[r].approval
    BY <1>1, ReportedOK DEF Reported, Threads
  <2> QED BY <1>1, <1>2, <2>1, <2>2, NodeCalm
<1> QED BY <1>3, <1>4, <1>5

LEMMA PlanningCalm ==
  ASSUME SInv, Calm, NEW r \in Requests, RepairAgent(r) \/ RiskCheck(r)
  PROVE  Calm'
<1>1. /\ local[r] \in Threads /\ ThreadOK(local[r]) /\ pc[r] = "running" /\ ~dirty[r]
      /\ audit \subseteq audit' /\ calls' = calls /\ now \in Times
  BY DEF SInv, IInv, TypeOK, RepairAgent, RiskCheck, At
<1>2. Spoken' => Spoken
  BY NotSpoken DEF RepairAgent, RiskCheck, Spoken
<1>3. CASE Raise(r)
  BY <1>1, <1>2, <1>3, RaiseCalm
<1>4. ASSUME NEW p \in Plans, Return(r, Planned(local[r], p)), local[r].next = "RepairAgent"
      PROVE  Calm'
  <2>1. local[r].result = "none"
    BY <1>4 DEF SInv, Turns, Sound, Reporting
  <2>2. Planned(local[r], p).approval = local[r].approval
    BY <1>1 DEF Planned, Threads
  <2> QED BY <1>1, <1>2, <1>4, <2>1, <2>2, PlannedOK, NodeCalm DEF Outcomes
<1>5. CASE Return(r, Assessed(local[r], now)) /\ local[r].next = "RiskCheck"
  <2>1. local[r].result = "none"
    BY <1>5 DEF SInv, Turns, Sound, Reporting
  <2>2. Assessed(local[r], now).approval = local[r].approval
    BY <1>1 DEF Assessed, Threads
  <2> QED BY <1>1, <1>2, <1>5, <2>1, <2>2, AssessedOK, NodeCalm DEF Outcomes
<1> QED BY <1>3, <1>4, <1>5 DEF RepairAgent, RiskCheck, At

\* The log holds no verdict before the first, so the first one is kept and followed.
LEMMA ApprovalCalm == ASSUME SInv, Calm, NEW r \in Requests, Approval(r) PROVE Calm'
<1> DEFINE payload == req[r].payload
           st == Decided(local[r], payload, now)
<1>1. /\ local[r] \in Threads /\ ThreadOK(local[r]) /\ pc[r] = "running" /\ ~dirty[r]
      /\ audit \subseteq audit' /\ calls' = calls /\ now \in Times
      /\ local[r].next = "Approval" /\ payload \in Payloads /\ Running(r) /\ ~Acting(r)
  BY DEF SInv, IInv, TypeOK, Approval, At, ReqType, Running, Acting
<1>2. CASE /\ audit' = audit \union AuthzAudit(r, "approval") /\ Raise(r)
  <2>1. Spoken' => Spoken
    BY <1>2, NotSpoken DEF Spoken
  <2> QED BY <1>1, <1>2, <2>1, RaiseCalm
<1>3. CASE /\ CanDecide(local[r], payload, now) /\ Return(r, st)
           /\ audit' = audit \union AuthzAudit(r, "approval") \union Keyed(Verdict(payload))
  <2>1. local[r].approval = None /\ local[r].result = "none"
    BY <1>1, <1>3 DEF CanDecide, SInv, Turns, Sound, Reporting
  <2>2. ~Spoken
    <3>1. local[r] = ckpt /\ Active(r)
      BY <1>1 DEF SInv, Turns, Calm, Active, Live, Running
    <3>2. \A q \in Requests : Running(q) => q = r
      BY <3>1 DEF SInv, Turns, Calm, Active, Live, Running
    <3> QED BY <2>1, <3>1, <3>2 DEF Calm
  <2>3. Keyed(Verdict(payload)) = {Verdict(payload)}
    BY <2>2 DEF Keyed, Verdict, Spoken
  <2>4. st.approval = [decision |-> payload.decision, actor |-> payload.actor,
                       digest |-> payload.digest, at |-> now]
    BY <1>1 DEF Decided, Threads
  <2>5. Told(st, audit')
    BY <1>3, <2>3, <2>4 DEF Told, Verdict
  <2>6. st.approval # None
    <3>1. st.approval \in Approvals
      BY <1>1, <2>4 DEF Approvals, Payloads
    <3> QED BY <3>1, NoneAssumption
  <2>7. st \in Threads
    BY <1>1, <1>3, DecidedOK
  <2>8. Follows(local[r], st)
    BY <1>1, <2>1 DEF Follows, Outcomes
  <2> HIDE DEF st
  <2> QED BY <1>1, <1>3, <2>5, <2>6, <2>7, <2>8, ReturnCalm
<1> QED BY <1>2, <1>3 DEF Approval, Calm

LEMMA ExecuteCalm == ASSUME SInv, Calm, NEW r \in Requests, Execute(r) PROVE Calm'
<1> DEFINE st == Executed(local[r], Refusal(local[r]))
<1>1. /\ local[r] \in Threads /\ ThreadOK(local[r]) /\ pc[r] = "running"
      /\ audit \subseteq audit' /\ calls' = calls /\ local[r].next = "Execute"
  BY DEF SInv, IInv, TypeOK, Execute
<1>2. Spoken' => Spoken
  BY NotSpoken DEF Execute, Spoken
<1>3. CASE ~dirty[r] /\ Raise(r)
  BY <1>1, <1>2, <1>3, RaiseCalm
<1>4. CASE ~dirty[r] /\ Return(r, st)
  <2>1. local[r].result = "none"
    BY <1>1 DEF SInv, Turns, Sound, Reporting
  <2>2. st.approval = local[r].approval /\ st \in Threads
    BY <1>1, RefusalType, ExecutedOK DEF Executed, Threads
  <2> HIDE DEF st
  <2> QED BY <1>1, <1>2, <1>4, <2>1, <2>2, NodeCalm DEF Outcomes
<1>5. CASE /\ pc' = [pc EXCEPT ![r] = "acting"]
           /\ UNCHANGED <<ckpt, now, rbac, req, local, dirty, gone>>
  <2>1. /\ pc'[r] = "acting" /\ Running(r)' /\ Acting(r)'
        /\ \A q \in Requests : q # r => pc'[q] = pc[q]
    BY <1>5 DEF SInv, IInv, TypeOK, Running, Acting
  <2>2. Told(local'[r], audit') /\ ~gone'[r]
    BY <1>1, <1>5, ToldMore DEF Calm
  <2> QED BY <1>1, <1>2, <1>5, <2>1, <2>2, OneCalm
<1> QED BY <1>3, <1>4, <1>5 DEF Execute

LEMMA CallCalm == ASSUME SInv, Calm, NEW r \in Requests, CallHandler(r) PROVE Calm'
<1>1. /\ pc[r] = "acting" /\ UNCHANGED <<ckpt, audit, pc, local, gone>>
      /\ \A q \in Requests : q # r => calls'[q] = calls[q]
  BY DEF CallHandler, SInv, IInv, TypeOK
<1>2. Running(r)' /\ Acting(r)' /\ Spoken' = Spoken
  BY <1>1 DEF Running, Acting, Spoken
<1>3. Told(local'[r], audit') /\ ~gone'[r]
  BY <1>1 DEF Calm
<1> QED BY <1>1, <1>2, <1>3, OneCalm

LEMMA FinishCalm == ASSUME SInv, Calm, NEW r \in Requests, FinishExecute(r) PROVE Calm'
<1>1. /\ local[r] \in Threads /\ ThreadOK(local[r]) /\ pc[r] = "acting" /\ ~dirty[r]
      /\ audit \subseteq audit' /\ calls' = calls /\ Acting(r) /\ Running(r)
      /\ local[r].next = "Execute"
  BY DEF SInv, IInv, TypeOK, FinishExecute, Acting, ActingOK, Running
<1>2. Spoken' => Spoken
  BY NotSpoken DEF FinishExecute, Spoken
<1>3. PICK result \in Outcomes : Return(r, Executed(local[r], result))
  BY DEF FinishExecute, Outcomes
<1> DEFINE st == Executed(local[r], result)
<1>4. /\ st \in Threads /\ st.result \in Outcomes /\ st.approval = local[r].approval
  <2>1. result \in Results
    BY <1>3 DEF Outcomes, Results
  <2>2. st \in Threads
    BY <1>1, <2>1, ExecutedOK
  <2>3. st.result = result /\ st.approval = local[r].approval
    BY <1>1 DEF Executed, Threads
  <2> QED BY <1>3, <2>2, <2>3
<1>5. local[r].result = "none"
  BY <1>1 DEF SInv, Turns, Sound, Reporting
<1>6. Follows(local[r], st)
  BY <1>1, <1>4, <1>5 DEF Follows, Outcomes
<1>7. Told(st, audit')
  BY <1>1, <1>4 DEF Told, Calm
<1>8. Return(r, st)
  BY <1>3
<1> HIDE DEF st
<1> QED BY <1>1, <1>2, <1>4, <1>6, <1>7, <1>8, ReturnCalm

LEMMA CloseCalm ==
  ASSUME SInv, Calm, NEW r \in Requests, Interrupt(r) \/ Complete(r)
  PROVE  Calm'
<1>1. /\ pc[r] = "running" /\ End(r) /\ ~dirty[r] /\ UNCHANGED <<ckpt, audit, calls>>
  BY DEF Interrupt, Complete, At
<1>2. Live(r) /\ ~Acting(r) /\ Spoken' = Spoken
  BY <1>1 DEF Live, Acting, Spoken
<1> QED BY <1>1, <1>2, EndCalm

LEMMA QuietCalm ==
  ASSUME Calm, UNCHANGED <<ckpt, audit, pc, local, gone, calls>> PROVE Calm'
BY DEF Calm, Told, Spoken, Running, Acting

LEMMA InitCalm == ASSUME Init, Faults = {} PROVE Calm
BY NoThreadSound DEF Init, Calm, Told, Spoken

LEMMA NextCalm == SInv /\ Calm /\ [Next]_vars => Calm'
<1> SUFFICES ASSUME SInv, Calm, [Next]_vars PROVE Calm'
  OBVIOUS
<1>1. ASSUME NEW r \in Requests, Ask(r) \/ Step(r) PROVE Calm'
  BY <1>1, AskCalm, BeginCalm, SaveCalm, EvidenceCalm, PlanningCalm, ApprovalCalm,
     ExecuteCalm, CallCalm, FinishCalm, CloseCalm DEF Step
<1>2. \A r \in Requests : ~Fault(r)
  BY DEF Calm, Fault, Fail, FailExecute, Disconnect
<1>3. ~Restart
  BY DEF Calm, Restart
<1>4. CASE Tick \/ UNCHANGED vars
  BY <1>4, QuietCalm DEF Tick, vars
<1> QED BY <1>1, <1>2, <1>3, <1>4 DEF Next

\* What holds besides without faults.
THEOREM CalmInductive == Serial /\ Faults = {} /\ Spec => [](SInv /\ Calm)
<1>1. Serial /\ Faults = {} /\ Init => SInv /\ Calm
  BY InitSerial, InitCalm
<1>2. SInv /\ Calm /\ [Next]_vars => (SInv /\ Calm)'
  BY NextSerial, NextCalm
<1> QED BY <1>1, <1>2, PTL DEF Spec

\* The verdict the workflow follows is in the audit log: with serial clients and no
\* fault no other verdict was audited first under the key of the plan.
THEOREM VerdictAudited == Serial /\ Faults = {} /\ Spec => []AuditedVerdict
<1>1. SInv /\ Calm => AuditedVerdict
  BY DEF Calm, Told, AuditedVerdict
<1> QED BY <1>1, CalmInductive, PTL

\* A finished incident that reports that nothing was executed called no handler.
THEOREM UnexecutedTrue == Serial /\ Faults = {} /\ Spec => []UnexecutedReportIsTrue
<1>1. ASSUME SInv, Calm, Finished(ckpt),
             Rejected(ckpt) \/ ckpt.result \in {"blocked", "not_executed"},
             NEW r \in Requests, calls[r] # <<>>
      PROVE  FALSE
  <2>1. ckpt.result \notin Outcomes
    BY <1>1 DEF SInv, Turns, Sound, Outcomes
  <2>2. Acting(r) \/ (Running(r) /\ local[r].result \in Outcomes)
    BY <1>1, <2>1 DEF Calm
  <2>3. Running(r) /\ ~gone[r]
    BY <1>1, <2>2 DEF Calm, Acting, Running
  <2>4. ~dirty[r] /\ local[r] = ckpt
    BY <1>1, <2>3 DEF SInv, Turns, Follows, Finished
  <2>5. Acting(r) => local[r].next = "Execute"
    BY <1>1 DEF SInv, IInv, ActingOK
  <2> QED BY <1>1, <2>1, <2>2, <2>4, <2>5 DEF Finished
<1>2. SInv /\ Calm => UnexecutedReportIsTrue
  BY <1>1 DEF UnexecutedReportIsTrue
<1> QED BY <1>2, CalmInductive, PTL
-----------------------------------------------------------------------------
(***************************************************************************)
(* The promised lifecycle.  Every node is one step of it or none (Leads),  *)
(* and what a run still has to save is one step ahead of the checkpoint.   *)
(***************************************************************************)

\* What a state tells of the way to its node.
Story(st) ==
  /\ st.next \in {"none", "Supervisor", "DiagnosisAgent", "RepairAgent"} =>
       st.plan = None /\ st.approval = None /\ st.result = "none"
  /\ st.next \in {"RiskCheck", "Approval", "Execute"} => st.plan # None /\ st.result = "none"
  /\ st.next = "Approval" => NeedsApproval(st.plan)
  /\ st.next = "Execute" => ~Rejected(st)
  /\ st.next \in Reporting => st.plan = None \/ Rejected(st) \/ st.result # "none"

Stage(st) == IF ~Exists(st) THEN "absent" ELSE IF Finished(st) THEN "reported" ELSE "open"

\* The state st is c, or one step of the lifecycle further.
Leads(c, st) ==
  \/ /\ st.plan = c.plan /\ st.approval = c.approval /\ st.result = c.result
     /\ \/ Stage(st) = Stage(c)
        \/ Stage(c) = "absent" /\ Stage(st) = "open"
        \/ /\ Stage(c) = "open" /\ Stage(st) = "reported"
           /\ c.plan = None \/ Rejected(c) \/ c.result # "none"
  \/ /\ Stage(c) = "open" /\ Stage(st) = "open"
     /\ \/ /\ c.plan = None /\ st.plan \in Plans
           /\ st.approval = c.approval /\ st.result = c.result
        \/ /\ c.plan \in Plans /\ NeedsApproval(c.plan) /\ c.approval = None /\ c.result = "none"
           /\ st.approval # None /\ st.plan = c.plan /\ st.result = c.result
        \/ /\ c.plan \in Plans /\ c.result = "none" /\ ~Rejected(c)
           /\ st.result \in Outcomes => (NeedsApproval(c.plan) => Approved(c))
           /\ st.result \in Outcomes \union {"blocked", "not_executed"}
           /\ st.plan = c.plan /\ st.approval = c.approval

Steps == /\ Story(ckpt)
         /\ \A r \in Requests : /\ Story(local[r])
                                /\ dirty[r] => Leads(ckpt, local[r])

LEMMA NoThreadStory == Story(NoThread)
BY DEF Story, NoThread, Reporting

\* A new input opens the incident, and the agents gather evidence.
LEMMA EvidenceLeads ==
  ASSUME NEW st \in Threads, Story(st)
  PROVE  /\ st = NoThread => Story(Restarted(st)) /\ Leads(st, Restarted(st))
         /\ st.next = "Supervisor" => Story(Initialized(st)) /\ Leads(st, Initialized(st))
         /\ \A next \in AfterDiagnosis(st) : st.next = "DiagnosisAgent" =>
              Story(Diagnosed(st, next)) /\ Leads(st, Diagnosed(st, next))
         /\ st.next = "ReportAgent" => Story(Reported(st)) /\ Leads(st, Reported(st))
<1>1. st = NoThread => Story(Restarted(st)) /\ Leads(st, Restarted(st))
  BY DEF Restarted, NoThread, Story, Leads, Stage, Exists, Finished, Reporting
<1>2. st.next = "Supervisor" => Story(Initialized(st)) /\ Leads(st, Initialized(st))
  BY DEF Initialized, NoThread, Story, Leads, Stage, Exists, Finished, Reporting
<1>3. \A next \in AfterDiagnosis(st) : st.next = "DiagnosisAgent" =>
        Story(Diagnosed(st, next)) /\ Leads(st, Diagnosed(st, next))
  BY DEF Diagnosed, AfterDiagnosis, Threads, Story, Leads, Stage, Exists, Finished, Reporting
<1>4. st.next = "ReportAgent" => Story(Reported(st)) /\ Leads(st, Reported(st))
  BY DEF Reported, Threads, Story, Leads, Stage, Exists, Finished, Reporting, Rejected
<1> QED BY <1>1, <1>2, <1>3, <1>4

\* A plan is proposed once, and assessed.
LEMMA PlanLeads ==
  ASSUME NEW st \in Threads, Story(st), ThreadOK(st)
  PROVE  /\ \A p \in Plans : st.next = "RepairAgent" =>
              Story(Planned(st, p)) /\ Leads(st, Planned(st, p))
         /\ \A t \in Times : st.next = "RiskCheck" =>
              Story(Assessed(st, t)) /\ Leads(st, Assessed(st, t))
<1>1. \A p \in Plans : st.next = "RepairAgent" =>
        Story(Planned(st, p)) /\ Leads(st, Planned(st, p))
  BY NoneAssumption
     DEF Planned, Threads, Story, Leads, Stage, Exists, Finished, Reporting, Rejected
<1>2. ASSUME NEW t \in Times, st.next = "RiskCheck"
      PROVE  Story(Assessed(st, t)) /\ Leads(st, Assessed(st, t))
  <2> DEFINE new == Assessed(st, t)
  <2>1. /\ new.plan = st.plan /\ new.approval = st.approval /\ new.result = st.result
        /\ new.next = IF ApprovalRequired(st.plan) THEN "Approval" ELSE "Execute"
    BY DEF Assessed, RiskDecision, Threads
  <2>2. ApprovalRequired(st.plan) => NeedsApproval(st.plan)
    BY DEF ApprovalRequired, HumanRequired, NeedsApproval
  <2>3. st.approval = None
    BY <1>2 DEF ThreadOK, BeforeVerdict
  <2>4. Story(new) /\ Leads(st, new)
    <3> HIDE DEF new
    <3> QED BY <1>2, <2>1, <2>2, <2>3
            DEF Story, Leads, Stage, Exists, Finished, Reporting, Rejected
  <2> QED BY <2>4
<1> QED BY <1>1, <1>2

\* One verdict, on a plan that needs it.
LEMMA VerdictLeads ==
  ASSUME NEW st \in Threads, Story(st), ThreadOK(st), st.next = "Approval",
         NEW payload \in Payloads, NEW t \in Times, CanDecide(st, payload, t)
  PROVE  Story(Decided(st, payload, t)) /\ Leads(st, Decided(st, payload, t))
<1> DEFINE new == Decided(st, payload, t)
<1>1. /\ new.plan = st.plan /\ new.result = st.result
      /\ new.approval \in Approvals /\ new.approval.decision = payload.decision
      /\ new.next = IF payload.decision = "approve" THEN "Execute" ELSE "ReportAgent"
  BY DEF Decided, Threads, Approvals, Payloads
<1>2. new.approval # None /\ st.plan \in Plans /\ st.approval = None
  BY <1>1, NoneAssumption DEF Story, Threads, CanDecide
<1>3. payload.decision \in {"approve", "reject"}
  BY DEF Payloads, Decisions
<1>4. Story(new) /\ Leads(st, new)
  <2> HIDE DEF new
  <2> QED BY <1>1, <1>2, <1>3
          DEF Story, Leads, Stage, Exists, Finished, Reporting, Rejected
<1> QED BY <1>4

\* One result, and none of an execution without the approval that the plan needs.
LEMMA ResultLeads ==
  ASSUME NEW st \in Threads, Story(st), ThreadOK(st), st.next = "Execute",
         NEW result \in Results \ {"none"},
         result \in Outcomes => Refusal(st) = "none"
  PROVE  Story(Executed(st, result)) /\ Leads(st, Executed(st, result))
<1> DEFINE new == Executed(st, result)
<1>1. /\ new.plan = st.plan /\ new.approval = st.approval /\ new.result = result
      /\ new.next = "ReportAgent"
  BY DEF Executed, Threads
<1>2. st.plan \in Plans /\ st.result = "none" /\ ~Rejected(st)
  BY DEF Story, Threads
<1>3. Refusal(st) = "none" /\ NeedsApproval(st.plan) => Approved(st)
  <2>1. st.risk.required = ApprovalRequired(st.plan)
    BY DEF ThreadOK
  <2>2. Effect[st.plan] \in Effects
    BY <1>2, PlanAssumption
  <2> QED BY <2>1, <2>2 DEF Refusal, NeedsApproval, ApprovalRequired, HumanRequired, Effects
<1>4. result \in Outcomes \union {"blocked", "not_executed"}
  BY DEF Results, Outcomes
<1>5. Story(new) /\ Leads(st, new)
  <2> HIDE DEF new
  <2> QED BY <1>1, <1>2, <1>3, <1>4
          DEF Story, Leads, Stage, Exists, Finished, Reporting, Rejected, Outcomes
<1> QED BY <1>5

\* What a step of one request has to establish.
LEMMA OneLeads ==
  ASSUME Steps, NEW r \in Requests, ckpt' = ckpt,
         \A q \in Requests : q # r => local'[q] = local[q] /\ dirty'[q] = dirty[q],
         Story(local'[r]), dirty'[r] => Leads(ckpt, local'[r])
  PROVE  Steps'
BY DEF Steps

LEMMA EndLeads ==
  ASSUME SInv, Steps, NEW r \in Requests, End(r), ckpt' = ckpt, ~dirty[r], dirty' = dirty
  PROVE  Steps'
<1>1. /\ local'[r] = NoThread /\ ~dirty'[r]
      /\ \A q \in Requests : q # r => local'[q] = local[q] /\ dirty'[q] = dirty[q]
  BY DEF SInv, IInv, TypeOK, End
<1> QED BY <1>1, NoThreadStory, OneLeads

\* A node returns: its run worked on what is saved, or its client is gone.
LEMMA ReturnLeads ==
  ASSUME SInv, Steps, NEW r \in Requests, Running(r), ~dirty[r], NEW st, Return(r, st),
         Story(st), Leads(local[r], st)
  PROVE  Steps'
<1>1. CASE gone[r]
  BY <1>1, EndLeads DEF Return
<1>2. CASE ~gone[r]
  <2>1. /\ local'[r] = st /\ ckpt' = ckpt
        /\ \A q \in Requests : q # r => local'[q] = local[q] /\ dirty'[q] = dirty[q]
    BY <1>2 DEF SInv, IInv, TypeOK, Return
  <2>2. local[r] = ckpt
    BY <1>2 DEF SInv, Turns
  <2> QED BY <2>1, <2>2, OneLeads
<1> QED BY <1>1, <1>2

LEMMA BeginLeads == ASSUME SInv, Steps, NEW r \in Requests, Begin(r) PROVE Steps'
<1>1. /\ pc[r] = "accepted" /\ ckpt' = ckpt /\ ckpt \in Threads /\ Story(ckpt)
      /\ ~dirty[r]
  BY DEF Begin, SInv, IInv, TypeOK, Chain, OneRun, Running, Steps
<1>2. CASE /\ req[r].kind = "start"
           /\ local' = [local EXCEPT ![r] = Restarted(ckpt)]
           /\ dirty' = [dirty EXCEPT ![r] = TRUE]
  <2>1. ckpt = NoThread
    BY <1>1, <1>2 DEF SInv, Turns
  <2>2. Story(Restarted(ckpt)) /\ Leads(ckpt, Restarted(ckpt))
    BY <1>1, <2>1, EvidenceLeads
  <2>3. /\ local'[r] = Restarted(ckpt)
        /\ \A q \in Requests : q # r => local'[q] = local[q] /\ dirty'[q] = dirty[q]
    BY <1>2 DEF SInv, IInv, TypeOK
  <2> QED BY <1>1, <2>2, <2>3, OneLeads
<1>3. CASE local' = [local EXCEPT ![r] = ckpt] /\ dirty' = dirty
  <2>1. /\ local'[r] = ckpt /\ ~dirty'[r]
        /\ \A q \in Requests : q # r => local'[q] = local[q] /\ dirty'[q] = dirty[q]
    BY <1>1, <1>3 DEF SInv, IInv, TypeOK
  <2> QED BY <1>1, <2>1, OneLeads
<1>4. CASE End(r) /\ dirty' = dirty
  BY <1>1, <1>4, EndLeads
<1> QED BY <1>2, <1>3, <1>4 DEF Begin

\* Nobody else has anything to save.
LEMMA SaveLeads ==
  ASSUME SInv, Steps, NEW r \in Requests, Save(r)
  PROVE  Steps' /\ Leads(ckpt, ckpt')
<1>1. \A q \in Requests : dirty[q] => q = r
  <2>1. \A q \in Requests : dirty[q] => Active(q)
    BY DEF SInv, IInv, TypeOK, Chain, OneRun, Turns, Active, Live, Running
  <2> QED BY <2>1 DEF SInv, Turns, Save
<1>2. /\ ckpt' = local[r] /\ local' = local
      /\ \A q \in Requests : ~dirty'[q]
  BY <1>1 DEF Save, SInv, IInv, TypeOK
<1>3. dirty[r]
  BY DEF Save
<1> QED BY <1>2, <1>3 DEF Steps

LEMMA EvidenceSteps ==
  ASSUME SInv, Steps, NEW r \in Requests, Supervisor(r) \/ DiagnosisAgent(r) \/ ReportAgent(r)
  PROVE  Steps'
<1>1. local[r] \in Threads /\ Story(local[r]) /\ Running(r) /\ ~dirty[r]
  BY DEF SInv, IInv, TypeOK, Steps, Supervisor, DiagnosisAgent, ReportAgent, At, Running
<1>2. CASE Supervisor(r)
  BY <1>1, <1>2, EvidenceLeads, ReturnLeads DEF Supervisor, At
<1>3. CASE DiagnosisAgent(r)
  BY <1>1, <1>3, EvidenceLeads, ReturnLeads DEF DiagnosisAgent, At
<1>4. CASE ReportAgent(r)
  BY <1>1, <1>4, EvidenceLeads, ReturnLeads DEF ReportAgent, At
<1> QED BY <1>2, <1>3, <1>4

LEMMA RaiseLeads == ASSUME SInv, Steps, NEW r \in Requests, Raise(r), ~dirty[r] PROVE Steps'
BY EndLeads DEF Raise

LEMMA PlanningSteps ==
  ASSUME SInv, Steps, NEW r \in Requests, RepairAgent(r) \/ RiskCheck(r) \/ Approval(r)
  PROVE  Steps'
<1>1. /\ local[r] \in Threads /\ Story(local[r]) /\ ThreadOK(local[r]) /\ Running(r) /\ ~dirty[r]
      /\ now \in Times
  BY DEF SInv, IInv, TypeOK, Steps, RepairAgent, RiskCheck, Approval, At, Running
<1>2. CASE Raise(r)
  BY <1>1, <1>2, RaiseLeads
<1>3. CASE local[r].next = "RepairAgent" /\ \E p \in Plans : Return(r, Planned(local[r], p))
  BY <1>1, <1>3, PlanLeads, ReturnLeads
<1>4. CASE local[r].next = "RiskCheck" /\ Return(r, Assessed(local[r], now))
  BY <1>1, <1>4, PlanLeads, ReturnLeads
<1>5. CASE /\ local[r].next = "Approval" /\ req[r].payload # None
           /\ CanDecide(local[r], req[r].payload, now)
           /\ Return(r, Decided(local[r], req[r].payload, now))
  <2>1. req[r].payload \in Payloads
    BY <1>5 DEF SInv, IInv, TypeOK, ReqType
  <2> QED BY <1>1, <1>5, <2>1, VerdictLeads, ReturnLeads
<1> QED BY <1>2, <1>3, <1>4, <1>5 DEF RepairAgent, RiskCheck, Approval, At

LEMMA ExecuteSteps ==
  ASSUME SInv, Steps, NEW r \in Requests, Execute(r) \/ FinishExecute(r)
  PROVE  Steps'
<1>1. /\ local[r] \in Threads /\ Story(local[r]) /\ ThreadOK(local[r]) /\ Running(r)
      /\ local[r].next = "Execute" /\ (Acting(r) => Refusal(local[r]) = "none")
  BY DEF SInv, IInv, TypeOK, Steps, Execute, FinishExecute, ActingOK, Acting, Running
<1>2. CASE Raise(r) /\ ~dirty[r]
  BY <1>2, RaiseLeads
<1>3. CASE /\ Refusal(local[r]) # "none" /\ ~dirty[r]
           /\ Return(r, Executed(local[r], Refusal(local[r])))
  <2>1. Refusal(local[r]) \in Results \ {"none"} /\ Refusal(local[r]) \notin Outcomes
    BY <1>3 DEF Refusal, Results, Outcomes
  <2> QED BY <1>1, <1>3, <2>1, ResultLeads, ReturnLeads
<1>4. CASE UNCHANGED <<ckpt, local, dirty>>
  BY <1>4 DEF Steps
<1>5. CASE FinishExecute(r)
  <2>1. PICK result \in Outcomes : Return(r, Executed(local[r], result))
    BY <1>5 DEF FinishExecute, Outcomes
  <2>2. result \in Results \ {"none"} /\ ~dirty[r] /\ Refusal(local[r]) = "none"
    BY <1>1, <1>5, <2>1 DEF Outcomes, Results, FinishExecute, Acting
  <2> QED BY <1>1, <2>1, <2>2, ResultLeads, ReturnLeads
<1> QED BY <1>2, <1>3, <1>4, <1>5 DEF Execute

\* The stream ends, or the client leaves.
LEMMA EndSteps ==
  ASSUME SInv, Steps, NEW r \in Requests,
         Interrupt(r) \/ Complete(r) \/ Fail(r) \/ FailExecute(r)
  PROVE  Steps'
BY EndLeads, RaiseLeads DEF Interrupt, Complete, Fail, FailExecute, At

LEMMA RestartLeads == ASSUME SInv, Steps, Restart PROVE Steps'
BY NoThreadStory DEF Restart, Steps

LEMMA QuietLeads == ASSUME Steps, UNCHANGED <<ckpt, local, dirty>> PROVE Steps'
BY DEF Steps

LEMMA InitSteps == Init => Steps
BY NoThreadStory DEF Init, Steps

\* What is saved only ever moves one step on.
LEMMA NextSteps == SInv /\ Steps /\ [Next]_vars => Steps' /\ (ckpt' = ckpt \/ Leads(ckpt, ckpt'))
<1> SUFFICES ASSUME SInv, Steps, [Next]_vars
             PROVE  Steps' /\ (ckpt' = ckpt \/ Leads(ckpt, ckpt'))
  OBVIOUS
<1>1. ASSUME NEW r \in Requests, Save(r)
      PROVE  Steps' /\ Leads(ckpt, ckpt')
  BY <1>1, SaveLeads
<1>2. ASSUME NEW r \in Requests, Ask(r) \/ CallHandler(r) \/ Disconnect(r)
      PROVE  Steps' /\ ckpt' = ckpt
  <2>1. UNCHANGED <<ckpt, local, dirty>>
    BY <1>2 DEF Ask, Start, SubmitRetry, SubmitDecision, Accept, CallHandler, Disconnect
  <2> QED BY <2>1, QuietLeads
<1>3. ASSUME NEW r \in Requests, Fault(r) \/ (Step(r) /\ ~Save(r)) PROVE ckpt' = ckpt
  BY <1>3 DEF Fault, Fail, FailExecute, Disconnect, Raise, Step, Begin, Supervisor,
              DiagnosisAgent, RepairAgent, RiskCheck, Interrupt, Approval, Execute,
              CallHandler, FinishExecute, ReportAgent, Complete, Return
<1>4. ASSUME NEW r \in Requests, Fault(r) \/ Step(r) PROVE Steps'
  BY <1>1, <1>2, <1>4, BeginLeads, EvidenceSteps, PlanningSteps, ExecuteSteps, EndSteps
     DEF Fault, Step
<1>5. CASE Restart
  BY <1>5, RestartLeads DEF Restart
<1>6. CASE Tick \/ UNCHANGED vars
  BY <1>6, QuietLeads DEF Tick, vars
<1> QED BY <1>1, <1>2, <1>3, <1>4, <1>5, <1>6 DEF Next

\* One step of the checkpoint is one step of the lifecycle.
LEMMA LeadsIsNext ==
  ASSUME SInv, SInv', Leads(ckpt, ckpt') PROVE [Lifecycle!Next]_(Lifecycle!vars)
<1> USE DEF Lifecycle!Unchanged, Lifecycle!Gave, Approved, Rejected
<1>1. ckpt \in Threads /\ ckpt' \in Threads
  BY DEF SInv, IInv, TypeOK
<1>2. CASE /\ ckpt'.plan = ckpt.plan /\ ckpt'.approval = ckpt.approval
           /\ ckpt'.result = ckpt.result
  <2>1. CASE Stage(ckpt') = Stage(ckpt)
    BY <1>2, <2>1 DEF Stage, Lifecycle!vars
  <2>2. CASE Stage(ckpt) = "absent" /\ Stage(ckpt') = "open"
    BY <1>2, <2>2 DEF Stage, Lifecycle!Open, Lifecycle!Next
  <2>3. CASE /\ Stage(ckpt) = "open" /\ Stage(ckpt') = "reported"
             /\ ckpt.plan = None \/ Rejected(ckpt) \/ ckpt.result # "none"
    BY <1>2, <2>3 DEF Stage, Lifecycle!Report, Lifecycle!Next
  <2> QED BY <1>2, <2>1, <2>2, <2>3 DEF Leads
<1>3. CASE /\ Stage(ckpt) = "open" /\ Stage(ckpt') = "open"
           /\ ckpt.plan = None /\ ckpt'.plan \in Plans
           /\ ckpt'.approval = ckpt.approval /\ ckpt'.result = ckpt.result
  BY <1>3 DEF Stage, Lifecycle!Propose, Lifecycle!Next
<1>4. CASE /\ Stage(ckpt) = "open" /\ Stage(ckpt') = "open"
           /\ ckpt.plan \in Plans /\ NeedsApproval(ckpt.plan)
           /\ ckpt.approval = None /\ ckpt.result = "none"
           /\ ckpt'.approval # None /\ ckpt'.plan = ckpt.plan /\ ckpt'.result = ckpt.result
  BY <1>4 DEF Stage, Lifecycle!Decide, Lifecycle!Next
<1>5. CASE /\ Stage(ckpt) = "open" /\ Stage(ckpt') = "open"
           /\ ckpt.plan \in Plans /\ ckpt.result = "none" /\ ~Rejected(ckpt)
           /\ ckpt'.result \in Outcomes => (NeedsApproval(ckpt.plan) => Approved(ckpt))
           /\ ckpt'.result \in Outcomes \union {"blocked", "not_executed"}
           /\ ckpt'.plan = ckpt.plan /\ ckpt'.approval = ckpt.approval
  <2>1. CASE ckpt'.result \in Outcomes
    BY <1>5, <2>1 DEF Stage, Outcomes, Lifecycle!Act, Lifecycle!Next
  <2>2. CASE ckpt'.result \in {"blocked", "not_executed"}
    BY <1>5, <2>2 DEF Stage, Lifecycle!Refuse, Lifecycle!Next
  <2> QED BY <1>5, <2>1, <2>2
<1> QED BY <1>2, <1>3, <1>4, <1>5 DEF Leads

\* When clients take turns an incident runs through its lifecycle: its plan, its verdict
\* and its result are given once and in order, whatever fails, disconnects or restarts.
THEOREM LifecycleKept == Serial /\ Spec => KeepsIncident
<1>1. Init => Lifecycle!Init
  BY DEF Init, Lifecycle!Init, NoThread, Exists
<1>2. ckpt' = ckpt => UNCHANGED Lifecycle!vars
  BY DEF Lifecycle!vars
<1>3. SInv /\ SInv' /\ Steps /\ [Next]_vars => Steps' /\ [Lifecycle!Next]_(Lifecycle!vars)
  BY <1>2, NextSteps, LeadsIsNext
<1> QED BY <1>1, <1>3, SerialInductive, InitSteps, PTL DEF Spec, KeepsIncident, Lifecycle!Spec
=============================================================================
