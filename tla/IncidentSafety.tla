--------------------------- MODULE IncidentSafety ---------------------------
(***************************************************************************)
(* What the incident service must do, stated over IncidentService.         *)
(***************************************************************************)
EXTENDS IncidentService

Acting(r) == pc[r] = "acting"

NeedsApproval(p) ==
  \/ p.forced \/ p.risk = "high" \/ p.risk = "critical"
  \/ PolicyOn /\ Effect[p] = "require_approval"

\* No handler of an action is called for a plan the policy denies, nor for one
\* that needs a human, unless the run holds an approval of exactly these actions
\* given before its expiry: whatever the requests, runs, restarts and races.
\* RiskCheck, Approval and Execute of workflow.py share this obligation.
ApprovedWhenActing ==
  \A r \in Requests : Acting(r) =>
    LET st == local[r] IN
    /\ PolicyOn => Effect[st.plan] # "deny"
    /\ NeedsApproval(st.plan) => /\ Approved(st)
                                 /\ st.approval.digest = Digest(st.plan)
                                 /\ st.approval.at <= st.risk.expires

\* An incident planned under authentication acts only with an authorised
\* execution and, if it needs one, an authorised approval, even when the process
\* was restarted without authentication in between (docs/architecture.md:152-154).
RbacChain ==
  Authz("repair_plan", "allowed") \in audit =>
    \A r \in Requests : Acting(r) =>
      /\ Authz("execution", "allowed") \in audit
      /\ NeedsApproval(local[r].plan) => Authz("approval", "allowed") \in audit

\* What the checkpoint tells of the incident.
Lifecycle == INSTANCE IncidentLifecycle WITH
  Guarded <- {p \in Plans : NeedsApproval(p)},
  phase   <- IF ~Exists(ckpt) THEN "absent" ELSE IF Finished(ckpt) THEN "reported" ELSE "open",
  plan    <- ckpt.plan,
  verdict <- ckpt.approval,
  outcome <- ckpt.result

\* The checkpoint an incident is read from runs through the promised lifecycle: no
\* late request, retry or restart replaces its plan, its verdict or its result, and
\* each is there before what follows from it.
KeepsIncident == Lifecycle!Spec

\* The result in the checkpoint is what one run did to the network: the handlers
\* were called in plan order for this plan, up to the first failure, and every
\* outcome was audited before the result was stored.
ResultIsBacked ==
  ckpt.result \in Outcomes =>
    \E r \in Requests :
      /\ calls[r] # <<>>
      /\ \A i \in DOMAIN calls[r] : calls[r][i].plan = ckpt.plan
      /\ ToolAudit(r) \subseteq audit
      /\ \A i \in DOMAIN calls[r] :
           calls[r][i].outcome = "failed" <=>
             (ckpt.result = "failed" /\ i = Len(calls[r]))
      /\ ckpt.result = "succeeded" => Len(calls[r]) = Len(ckpt.plan.actions)

\* A finished incident that was rejected, blocked or not executed reports that
\* nothing changed, and no handler was called (README.md:790).
UnexecutedReportIsTrue ==
  /\ Finished(ckpt)
  /\ Rejected(ckpt) \/ ckpt.result \in {"blocked", "not_executed"}
  => \A r \in Requests : calls[r] = <<>>

\* The audit log's verdict on a plan is the one the workflow follows
\* (docs/demo-guide.md:79-80).
AuditedVerdict ==
  ckpt.approval # None =>
    [event |-> "decide", digest |-> ckpt.approval.digest,
     outcome |-> ckpt.approval.decision] \in audit

\* An incident that no run works on and that only a person can move: it waits in
\* Approval for a decision, or in Execute for a permitted user, because the one who
\* approved it was denied the execution.
AwaitsPerson ==
  /\ \A r \in Requests : ~Live(r)
  /\ \/ ckpt.next = "Approval" /\ ckpt.status = "pending_approval"
     \/ /\ ckpt.next = "Execute" /\ Approved(ckpt)
        /\ Authz("execution", "denied") \in audit

\* Without faults and with turns every started incident is reported, or comes to rest
\* where only a person can move it: the diagnosis agent does not send itself back for
\* ever and no run stops short of its end.  A retry the API accepted carries the
\* approved incident to its report.
Settles ==
  /\ Exists(ckpt) ~> (Finished(ckpt) \/ AwaitsPerson)
  /\ \A r \in Requests : (pc[r] = "accepted" /\ req[r].kind = "retry") ~> Finished(ckpt)

\* Without faults a decision the API accepted takes effect, or expires on the way.
DecisionTakesEffect ==
  \A r \in Requests :
    (pc[r] = "accepted" /\ req[r].kind = "resume")
      ~> (ckpt.approval # None \/ (ckpt.risk # None /\ now > ckpt.risk.expires))
=============================================================================
