--------------------------- MODULE IncidentThread ---------------------------
(***************************************************************************)
(* The persisted state of one incident (the LangGraph thread whose id is   *)
(* the incident id) and what each node of the enterprise workflow makes of *)
(* it: the reducer-free part of agents/enterprise/workflow.py, approval.py *)
(* and execution.py.  A plan stands for the pair (repair_plan,             *)
(* proposed_actions); its digest is the one plan_digest computes from the  *)
(* actions alone, so two plans that differ only in risk share a digest.    *)
(***************************************************************************)
EXTENDS Integers, Sequences, FiniteSets

CONSTANTS
  Plans,       \* the repair plans the repair agent and plan_actions can return
  Actors,      \* the free-text actor labels of approval payloads
  Effect,      \* policy effect aggregated over the actions of each plan
  PolicyOn,    \* a PolicyEngine was injected in the workflow factory
  ExecutorOn,  \* an AllowlistedExecutor was injected
  Ttl,         \* approval_ttl_seconds, in clock ticks
  MaxQuality,  \* max_quality_iterations: visits of the diagnosis agent in one run
  MaxTime,     \* bound on the clock
  None         \* Python's None

RiskLevels == {"low", "medium", "high", "critical"}
Effects    == {"allow", "require_approval", "deny"}

ASSUME PlanAssumption ==
  /\ \A p \in Plans : /\ DOMAIN p = {"risk", "forced", "actions"}
                      /\ p.risk \in RiskLevels
                      /\ p.forced \in BOOLEAN
                      /\ Len(p.actions) \in Nat
  /\ Effect \in [Plans -> Effects]
ASSUME BoundAssumption == /\ PolicyOn \in BOOLEAN
                          /\ ExecutorOn \in BOOLEAN
                          /\ Ttl \in Nat \ {0}
                          /\ MaxQuality \in Nat \ {0}
                          /\ MaxTime \in Nat


Nodes == {"none", "Supervisor", "DiagnosisAgent", "RepairAgent", "RiskCheck",
          "Approval", "Execute", "ReportAgent", "END"}
Statuses == {"none", "running", "pending_approval", "approved", "rejected",
             "executed", "failed"}
Results == {"none", "succeeded", "failed", "blocked", "not_executed"}
Decisions == {"approve", "reject"}
Times == 0 .. MaxTime

Digest(p) == p.actions
Digests   == {Digest(p) : p \in Plans}

Payloads  == [decision : Decisions, actor : Actors, digest : Digests]
Risks     == [required : BOOLEAN, digest : Digests, expires : Nat]
Approvals == [decision : Decisions, actor : Actors, digest : Digests, at : Times]

ASSUME NoneAssumption == /\ None \notin Plans
                         /\ None \notin Payloads
                         /\ None \notin Risks
                         /\ None \notin Approvals

\* attempt is diagnosis_iteration, the visits of the diagnosis agent so far.
Threads == [next     : Nodes,
            status   : Statuses,
            attempt  : 0 .. MaxQuality,
            plan     : Plans \union {None},
            risk     : Risks \union {None},
            approval : Approvals \union {None},
            result   : Results]

NoThread == [next |-> "none", status |-> "none", attempt |-> 0, plan |-> None,
             risk |-> None, approval |-> None, result |-> "none"]

Exists(st)   == st.next # "none"
Finished(st) == st.next = "END"
Approved(st) == st.approval # None /\ st.approval.decision = "approve"
Rejected(st) == st.approval # None /\ st.approval.decision = "reject"

(***************************************************************************)
(* What each node writes.                                                  *)
(***************************************************************************)

\* A new run input on an existing thread drops its unfinished step.
Restarted(st) == [st EXCEPT !.next = "Supervisor"]

\* Supervisor resets every decision of an earlier run.
Initialized(st) == [NoThread EXCEPT !.next = "DiagnosisAgent", !.status = "running"]

\* _after_diagnosis.  Documents of low relevance send the agent back to itself with
\* a rewritten query while attempts are left; the graph has no other loop.  Whether
\* a repair is planned is the supervisor's choice of required agents.
AfterDiagnosis(st) ==
  {"RepairAgent", "ReportAgent"} \union
  (IF st.attempt + 1 < MaxQuality THEN {"DiagnosisAgent"} ELSE {})

\* Defect: the update of a retry leaves the attempt out.
Diagnosed_SameAttempt(st, next) ==
  [st EXCEPT !.next    = next,
             !.attempt = IF next = "DiagnosisAgent" THEN @ ELSE @ + 1]

Diagnosed(st, next) == [st EXCEPT !.next = next, !.attempt = @ + 1]

Planned(st, p) == [st EXCEPT !.next = "RiskCheck", !.plan = p]

HumanRequired(p) == p.risk \in {"high", "critical"} \/ p.forced

\* RiskCheck: a policy denial clears the approval requirement, so that Execute
\* reports the denial; a policy that requires approval sets it.
ApprovalRequired(p) ==
  IF ~PolicyOn \/ Effect[p] = "allow" THEN HumanRequired(p)
                                      ELSE Effect[p] = "require_approval"

RiskDecision(p, t) ==
  [required |-> ApprovalRequired(p), digest |-> Digest(p), expires |-> t + Ttl]

Assessed(st, t) ==
  LET risk == RiskDecision(st.plan, t)
  IN  [st EXCEPT !.risk   = risk,
                 !.status = IF risk.required THEN "pending_approval" ELSE "running",
                 !.next   = IF risk.required THEN "Approval" ELSE "Execute"]

\* validate_approval: a rejection is accepted after the expiry, an approval is not.
CanDecide(st, payload, t) ==
  /\ st.approval = None
  /\ st.risk # None
  /\ payload.digest = st.risk.digest
  /\ payload.decision = "approve" => t <= st.risk.expires

Decided(st, payload, t) ==
  [st EXCEPT !.approval = [decision |-> payload.decision, actor |-> payload.actor,
                           digest |-> payload.digest, at |-> t],
             !.status   = IF payload.decision = "approve" THEN "approved" ELSE "rejected",
             !.next     = IF payload.decision = "approve" THEN "Execute" ELSE "ReportAgent"]

\* Defect: Execute trusts the approval requirement RiskCheck computed.
Refusal_NoPolicy(st) ==
  IF Rejected(st) \/ (st.risk.required /\ ~Approved(st)) THEN "not_executed"
  ELSE IF ~ExecutorOn \/ Len(st.plan.actions) = 0 THEN "blocked"
  ELSE "none"

\* Why Execute runs no action at all, or "none" when it runs them.
Refusal(st) ==
  IF \/ PolicyOn /\ Effect[st.plan] = "deny"
     \/ PolicyOn /\ Effect[st.plan] = "require_approval" /\ ~Approved(st)
  THEN "blocked"
  ELSE IF Rejected(st) \/ (st.risk.required /\ ~Approved(st)) THEN "not_executed"
  ELSE IF ~ExecutorOn \/ Len(st.plan.actions) = 0 THEN "blocked"
  ELSE "none"

\* Defect: the executor's status is stored as the incident's.
Executed_RawStatus(st, result) ==
  [st EXCEPT !.result = result, !.status = result, !.next = "ReportAgent"]

Executed(st, result) ==
  [st EXCEPT !.result = result,
             !.status = IF result = "succeeded" THEN "executed" ELSE "failed",
             !.next   = "ReportAgent"]

Reported(st) == [st EXCEPT !.next = "END"]

\* _validate_execution_retry: the same decision by the same actor, still in time.
CanRetry(st, payload, t) ==
  /\ Approved(st) /\ st.risk # None
  /\ payload.decision = "approve"
  /\ payload.digest = st.approval.digest /\ payload.digest = st.risk.digest
  /\ payload.actor = st.approval.actor
  /\ t <= st.risk.expires
=============================================================================
