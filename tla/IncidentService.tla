-------------------------- MODULE IncidentService --------------------------
(***************************************************************************)
(* The incident API over one incident: HTTP requests that start it, decide *)
(* its approval or retry its execution, the workflow runs they stream, the *)
(* checkpoint those runs share, the audit log, client disconnects, process *)
(* restarts and the passing of time.                                       *)
(*                                                                         *)
(* A request reads the checkpoint once to validate (Start, Submit); its    *)
(* run loads the checkpoint again later (Begin) and from then on works on  *)
(* a state of its own, which every finished node saves (Save).  Nothing    *)
(* serialises two requests on one incident.                                *)
(***************************************************************************)
EXTENDS IncidentThread

CONSTANTS
  Requests,    \* slots for HTTP requests: each is used once
  Users,
  Roles,       \* the roles of each user
  Deployments, \* whether a process may run with authentication (TRUE) or without
  Serial,      \* clients wait for the end of one stream before the next request
  Faults       \* the kinds of fault that may happen

RoleNames   == {"operator", "engineer", "embedded_engineer", "admin"}
Permissions == {"create_repair_plan", "execute_repair", "approve_repair"}

ASSUME RoleAssumption == Roles \in [Users -> SUBSET RoleNames]
ASSUME DeploymentAssumption == Deployments \subseteq BOOLEAN /\ Serial \in BOOLEAN
ASSUME FaultAssumption == Faults \subseteq {"raise", "disconnect", "restart"}
ASSUME NoUserAssumption == None \notin Users

VARIABLES
  ckpt,   \* the latest checkpoint of the incident's thread
  now,    \* enterprise_clock
  rbac,   \* this process was configured with an authentication provider
  audit,  \* the audit events of the incident
  pc,     \* where each request is
  req,    \* what each request asked, and with which identity
  local,  \* the state each run carries
  dirty,  \* the run finished a node whose checkpoint is not saved yet
  gone,   \* the client of the run disconnected; its node still runs in a thread
  calls   \* the handler calls each run made (history)

vars == <<ckpt, now, rbac, audit, pc, req, local, dirty, gone, calls>>

RolePermissions(role) ==
  CASE role = "engineer" -> {"create_repair_plan", "execute_repair"}
    [] role = "admin"    -> {"approve_repair"}
    [] OTHER             -> {}

HasPermission(u, permission) ==
  \E role \in Roles[u] : permission \in RolePermissions(role)

Kinds    == {"none", "start", "resume", "retry"}
NoReq    == [kind |-> "none", user |-> None, payload |-> None]
ReqType  == [kind : Kinds, user : Users \union {None},
             payload : Payloads \union {None}]
Phases   == {"idle", "accepted", "running", "acting", "closed"}
Outcomes == {"succeeded", "failed"}
Calls    == [plan : Plans, outcome : Outcomes]

\* The audit events that record a decision; those that only narrate a node
\* (plan_incident, evaluate_risk, the pending request) are left out.
Stages       == {"repair_plan", "approval", "execution"}
AuthzEvents  == [event : {"authorize"}, stage : Stages, outcome : {"allowed", "denied"}]
PolicyEvents == [event : {"policy"}, digest : Digests, outcome : Effects]
DecideEvents == [event : {"decide"}, digest : Digests, outcome : Decisions]
ToolEvents   == [event : {"tool_call"}, run : Requests, outcome : Outcomes]

Authz(stage, outcome) == [event |-> "authorize", stage |-> stage, outcome |-> outcome]
\* An idempotency key names an event and a digest: the first event of a key stays.
Keyed(event)  == LET same == {e \in audit : e.event = event.event /\ e.digest = event.digest}
                 IN  IF same = {} THEN {event} ELSE {}
Verdict(payload) ==
  [event |-> "decide", digest |-> payload.digest, outcome |-> payload.decision]
PolicyVerdict(p) == [event |-> "policy", digest |-> Digest(p), outcome |-> Effect[p]]

TypeOK ==
  /\ ckpt \in Threads
  /\ now \in Times
  /\ rbac \in BOOLEAN
  /\ audit \subseteq AuthzEvents \union PolicyEvents \union DecideEvents \union ToolEvents
  /\ pc \in [Requests -> Phases]
  /\ req \in [Requests -> ReqType]
  /\ local \in [Requests -> Threads]
  /\ dirty \in [Requests -> BOOLEAN]
  /\ gone \in [Requests -> BOOLEAN]
  /\ calls \in [Requests -> Seq(Calls)]

Init ==
  /\ ckpt = NoThread
  /\ now = 0
  /\ rbac \in Deployments
  /\ audit = {}
  /\ pc = [r \in Requests |-> "idle"]
  /\ req = [r \in Requests |-> NoReq]
  /\ local = [r \in Requests |-> NoThread]
  /\ dirty = [r \in Requests |-> FALSE]
  /\ gone = [r \in Requests |-> FALSE]
  /\ calls = [r \in Requests |-> <<>>]

(***************************************************************************)
(* Authorization inside the graph.                                         *)
(***************************************************************************)

\* Defect: only an authorised execution marks the incident.
UsesRbac_ExecutionOnly == \E e \in audit : e.event = "authorize" /\ e.stage = "execution"

\* The incident once authorised a stage: it can no longer run in legacy mode.
UsesRbac == \E e \in audit : e.event = "authorize"

\* The rbac_contexts each kind of request passes to its run.
ContextsOf(kind) ==
  CASE kind = "start"  -> {"repair_plan", "execution"}
    [] kind = "resume" -> {"approval", "execution"}
    [] kind = "retry"  -> {"execution"}
    [] OTHER           -> {}

PermissionOf(stage) ==
  CASE stage = "repair_plan" -> "create_repair_plan"
    [] stage = "approval"    -> "approve_repair"
    [] stage = "execution"   -> "execute_repair"

Authorized(r, stage) ==
  IF req[r].user = None
  THEN ~UsesRbac
  ELSE /\ stage \in ContextsOf(req[r].kind)
       /\ HasPermission(req[r].user, PermissionOf(stage))

\* The audit events of one _authorize call.
AuthzAudit(r, stage) ==
  IF req[r].user = None /\ ~UsesRbac THEN {}
  ELSE {Authz(stage, IF Authorized(r, stage) THEN "allowed" ELSE "denied")}

\* _policy_execution_context: the engine needs an executing user.
PolicyContext(r) ==
  PolicyOn => /\ req[r].user # None
              /\ "execution" \in ContextsOf(req[r].kind)
              /\ HasPermission(req[r].user, "execute_repair")

\* _audit_policy_evaluations, aggregated over the actions of the plan.
PolicyAudit(r) == IF PolicyOn THEN Keyed(PolicyVerdict(local[r].plan)) ELSE {}

(***************************************************************************)
(* Requests.                                                               *)
(***************************************************************************)
Live(r)  == pc[r] \in {"accepted", "running", "acting"}
MayAsk(r) == Serial => \A q \in Requests \ {r} : ~Live(q) \/ gone[q]

\* The identity of a request and the permission the endpoint requires of it.
Admitted(u, permission) ==
  IF rbac THEN u # None /\ HasPermission(u, permission) ELSE u = None

Accept(r, kind, u, payload) ==
  /\ pc' = [pc EXCEPT ![r] = "accepted"]
  /\ req' = [req EXCEPT ![r] = [kind |-> kind, user |-> u, payload |-> payload]]
  /\ UNCHANGED <<ckpt, now, rbac, audit, local, dirty, gone, calls>>

\* Defect: an existing incident id is not refused.
Start_NoConflict(r, u) ==
  /\ pc[r] = "idle" /\ MayAsk(r)
  /\ Admitted(u, "create_repair_plan")
  /\ Accept(r, "start", u, None)

\* A refused request (403, 404, 409) changes nothing.
Start(r, u) ==
  /\ pc[r] = "idle" /\ MayAsk(r)
  /\ Admitted(u, "create_repair_plan")
  /\ ~Exists(ckpt)
  /\ Accept(r, "start", u, None)

\* decide_approval on an approved incident whose execution has no result.
SubmitRetry(r, u, payload) ==
  /\ pc[r] = "idle" /\ MayAsk(r)
  /\ ckpt.status = "approved" /\ ckpt.result = "none"
  /\ Admitted(u, "execute_repair")
  /\ CanRetry(ckpt, payload, now)
  /\ Accept(r, "retry", u, None)

\* decide_approval on a pending incident.
SubmitDecision(r, u, payload) ==
  /\ pc[r] = "idle" /\ MayAsk(r)
  /\ ckpt.status = "pending_approval"
  /\ Admitted(u, "approve_repair")
  /\ CanDecide(ckpt, payload, now)
  /\ Accept(r, "resume", u, payload)

(***************************************************************************)
(* Runs.                                                                   *)
(***************************************************************************)

\* The run and its stream end; the slot keeps no state.
End(r) ==
  /\ pc' = [pc EXCEPT ![r] = "closed"]
  /\ req' = [req EXCEPT ![r] = NoReq]
  /\ local' = [local EXCEPT ![r] = NoThread]
  /\ gone' = [gone EXCEPT ![r] = FALSE]

\* A node returns its update: the run moves on and its checkpoint is due, unless
\* the client is gone, when the update is dropped with the cancelled run.
Return(r, st) ==
  /\ IF gone[r]
     THEN End(r) /\ UNCHANGED dirty
     ELSE /\ local' = [local EXCEPT ![r] = st]
          /\ dirty' = [dirty EXCEPT ![r] = TRUE]
          /\ pc' = [pc EXCEPT ![r] = "running"]
          /\ UNCHANGED <<req, gone>>
  /\ UNCHANGED <<ckpt, now, rbac>>

\* A node raises: the stream reports an error, the checkpoint stays before the node.
Raise(r) == End(r) /\ UNCHANGED <<ckpt, now, rbac, dirty>>

At(r, node) == pc[r] = "running" /\ ~dirty[r] /\ local[r].next = node

\* Defect: the resume value is not handed to the interrupted node.
Begin_NoResume(r) ==
  /\ pc[r] = "accepted"
  /\ IF req[r].kind # "start" /\ Finished(ckpt)
     THEN End(r) /\ UNCHANGED dirty
     ELSE /\ pc' = [pc EXCEPT ![r] = "running"]
          /\ local' = [local EXCEPT ![r] =
                         IF req[r].kind = "start" THEN Restarted(ckpt) ELSE ckpt]
          /\ dirty' = [dirty EXCEPT ![r] = req[r].kind = "start"]
          /\ req' = [req EXCEPT ![r].payload = None]
          /\ UNCHANGED gone
  /\ UNCHANGED <<ckpt, now, rbac, audit, calls>>

\* astream loads the checkpoint.  A resume value is kept only when the first
\* node is the interrupted one.
Begin(r) ==
  /\ pc[r] = "accepted"
  /\ \/ /\ req[r].kind = "start"
        /\ pc' = [pc EXCEPT ![r] = "running"]
        /\ local' = [local EXCEPT ![r] = Restarted(ckpt)]
        /\ dirty' = [dirty EXCEPT ![r] = TRUE]
        /\ UNCHANGED <<req, gone>>
     \/ /\ req[r].kind # "start" /\ ~Finished(ckpt)
        /\ pc' = [pc EXCEPT ![r] = "running"]
        /\ local' = [local EXCEPT ![r] = ckpt]
        /\ req' = IF ckpt.next = "Approval" THEN req
                  ELSE [req EXCEPT ![r].payload = None]
        /\ UNCHANGED <<dirty, gone>>
     \/ /\ req[r].kind # "start" /\ Finished(ckpt)
        /\ End(r) /\ UNCHANGED dirty
  /\ UNCHANGED <<ckpt, now, rbac, audit, calls>>

Save(r) ==
  /\ dirty[r]
  /\ ckpt' = local[r]
  /\ dirty' = [dirty EXCEPT ![r] = FALSE]
  /\ UNCHANGED <<now, rbac, audit, pc, req, local, gone, calls>>

Supervisor(r) ==
  /\ At(r, "Supervisor")
  /\ Return(r, Initialized(local[r]))
  /\ UNCHANGED <<audit, calls>>

\* One visit of the evidence agents; each visit of the diagnosis agent is a node run
\* with a checkpoint of its own.
DiagnosisAgent(r) ==
  /\ At(r, "DiagnosisAgent")
  /\ \E next \in AfterDiagnosis(local[r]) : Return(r, Diagnosed(local[r], next))
  /\ UNCHANGED <<audit, calls>>

RepairAgent(r) ==
  /\ At(r, "RepairAgent")
  /\ audit' = audit \union AuthzAudit(r, "repair_plan")
  /\ IF Authorized(r, "repair_plan")
     THEN \E p \in Plans : Return(r, Planned(local[r], p))
     ELSE Raise(r)
  /\ UNCHANGED calls

RiskCheck(r) ==
  /\ At(r, "RiskCheck")
  /\ IF PolicyContext(r)
     THEN /\ audit' = audit \union PolicyAudit(r)
          /\ Return(r, Assessed(local[r], now))
     ELSE UNCHANGED audit /\ Raise(r)
  /\ UNCHANGED calls

\* Without a resume value the node interrupts and the stream ends.
Interrupt(r) ==
  /\ At(r, "Approval") /\ req[r].payload = None
  /\ End(r)
  /\ UNCHANGED <<ckpt, now, rbac, audit, dirty, calls>>

\* Defect: the verdict is audited before it is validated.
Approval_AuditFirst(r) ==
  LET payload == req[r].payload IN
  /\ At(r, "Approval") /\ payload # None
  /\ audit' = audit \union AuthzAudit(r, "approval")
                    \union Keyed(Verdict(payload))
  /\ IF Authorized(r, "approval") /\ CanDecide(local[r], payload, now)
     THEN Return(r, Decided(local[r], payload, now))
     ELSE Raise(r)
  /\ UNCHANGED calls

\* With one it authorises, validates against the run's own state, and audits.
Approval(r) ==
  LET payload == req[r].payload IN
  /\ At(r, "Approval") /\ payload # None
  /\ \/ /\ ~(Authorized(r, "approval") /\ CanDecide(local[r], payload, now))
        /\ audit' = audit \union AuthzAudit(r, "approval")
        /\ Raise(r)
     \/ /\ Authorized(r, "approval") /\ CanDecide(local[r], payload, now)
        /\ audit' = audit \union AuthzAudit(r, "approval")
                          \union Keyed(Verdict(payload))
        /\ \/ Return(r, Decided(local[r], payload, now))
           \/ "raise" \in Faults /\ Raise(r)   \* the trace store failed after the audit
  /\ UNCHANGED calls

\* Execute authorises and evaluates the policy again before it acts.
Execute(r) ==
  /\ pc[r] = "running" /\ local[r].next = "Execute"
  /\ audit' = audit \union AuthzAudit(r, "execution")
                    \union (IF Authorized(r, "execution") /\ PolicyContext(r)
                            THEN PolicyAudit(r) ELSE {})
  /\ \/ /\ ~(Authorized(r, "execution") /\ PolicyContext(r))
        /\ ~dirty[r] /\ Raise(r)
     \/ /\ Authorized(r, "execution") /\ PolicyContext(r)
        /\ Refusal(local[r]) # "none"
        /\ ~dirty[r] /\ Return(r, Executed(local[r], Refusal(local[r])))
     \/ /\ Authorized(r, "execution") /\ PolicyContext(r)
        /\ Refusal(local[r]) = "none"
        /\ pc' = [pc EXCEPT ![r] = "acting"]
        /\ UNCHANGED <<ckpt, now, rbac, req, local, dirty, gone>>
  /\ UNCHANGED calls

\* Defect: the last action is never run.
ActionsDone_OneShort(r) ==
  \/ Len(calls[r]) + 1 >= Len(local[r].plan.actions)
  \/ \E i \in DOMAIN calls[r] : calls[r][i].outcome = "failed"

\* Whether the loop over the actions is over.
ActionsDone(r) ==
  \/ Len(calls[r]) = Len(local[r].plan.actions)
  \/ \E i \in DOMAIN calls[r] : calls[r][i].outcome = "failed"

\* One handler call; a handler that raises or is not allowlisted counts as failed.
CallHandler(r) ==
  /\ pc[r] = "acting" /\ ~ActionsDone(r)
  /\ \E o \in Outcomes :
       calls' = [calls EXCEPT ![r] = Append(@, [plan |-> local[r].plan, outcome |-> o])]
  /\ UNCHANGED <<ckpt, now, rbac, audit, pc, req, local, dirty, gone>>

ToolAudit(r) == {[event |-> "tool_call", run |-> r, outcome |-> calls[r][i].outcome] :
                   i \in DOMAIN calls[r]}

\* Defect: a partial failure is reported as not executed.
FinishExecute_Mislabel(r) ==
  /\ pc[r] = "acting" /\ ActionsDone(r) /\ ~dirty[r]
  /\ audit' = audit \union ToolAudit(r)
  /\ Return(r, Executed(local[r],
                 IF \E i \in DOMAIN calls[r] : calls[r][i].outcome = "failed"
                 THEN "not_executed" ELSE "succeeded"))
  /\ UNCHANGED calls

\* Every call is audited, then the node returns the result.
FinishExecute(r) ==
  /\ pc[r] = "acting" /\ ActionsDone(r) /\ ~dirty[r]
  /\ audit' = audit \union ToolAudit(r)
  /\ Return(r, Executed(local[r],
                 IF \E i \in DOMAIN calls[r] : calls[r][i].outcome = "failed"
                 THEN "failed" ELSE "succeeded"))
  /\ UNCHANGED calls

\* The audit or trace store fails after the actions: no result is kept.
FailExecute(r) ==
  /\ "raise" \in Faults
  /\ pc[r] = "acting" /\ ActionsDone(r) /\ ~dirty[r]
  /\ \E written \in SUBSET ToolAudit(r) : audit' = audit \union written
  /\ Raise(r)
  /\ UNCHANGED calls

ReportAgent(r) ==
  /\ At(r, "ReportAgent")
  /\ Return(r, Reported(local[r]))
  /\ UNCHANGED <<audit, calls>>

\* The last checkpoint is saved: the stream sends the answer and closes.
Complete(r) ==
  /\ At(r, "END")
  /\ End(r)
  /\ UNCHANGED <<ckpt, now, rbac, audit, dirty, calls>>

\* Any other node may raise (an agent, the audit or the trace store failed).
Fail(r) ==
  /\ "raise" \in Faults
  /\ pc[r] = "running" /\ ~dirty[r] /\ local[r].next # "END"
  /\ Raise(r)
  /\ UNCHANGED <<audit, calls>>

(***************************************************************************)
(* The environment.                                                        *)
(***************************************************************************)

\* The client leaves.  Cancelling the run waits for a save that is due, but the
\* thread of the current node runs to its end.
Disconnect(r) ==
  /\ "disconnect" \in Faults
  /\ pc[r] \in {"running", "acting"} /\ ~gone[r] /\ ~dirty[r]
  /\ gone' = [gone EXCEPT ![r] = TRUE]
  /\ UNCHANGED <<ckpt, now, rbac, audit, pc, req, local, dirty, calls>>

\* The process dies and another starts, with or without authentication.
Restart ==
  /\ "restart" \in Faults
  /\ \E r \in Requests : pc[r] # "idle"
  /\ rbac' \in Deployments
  /\ pc' = [r \in Requests |-> IF pc[r] = "idle" THEN "idle" ELSE "closed"]
  /\ req' = [r \in Requests |-> NoReq]
  /\ local' = [r \in Requests |-> NoThread]
  /\ dirty' = [r \in Requests |-> FALSE]
  /\ gone' = [r \in Requests |-> FALSE]
  /\ UNCHANGED <<ckpt, now, audit, calls>>

Tick == /\ now < MaxTime
        /\ now' = now + 1
        /\ UNCHANGED <<ckpt, rbac, audit, pc, req, local, dirty, gone, calls>>

Ask(r) == \E u \in Users \union {None} :
            \/ Start(r, u)
            \/ \E payload \in Payloads : SubmitRetry(r, u, payload) \/ SubmitDecision(r, u, payload)

Step(r) == \/ Begin(r) \/ Save(r) \/ Supervisor(r) \/ DiagnosisAgent(r)
           \/ RepairAgent(r) \/ RiskCheck(r) \/ Interrupt(r) \/ Approval(r)
           \/ Execute(r) \/ CallHandler(r) \/ FinishExecute(r)
           \/ ReportAgent(r) \/ Complete(r)

Fault(r) == Fail(r) \/ FailExecute(r) \/ Disconnect(r)

Next == \/ \E r \in Requests : Ask(r) \/ Step(r) \/ Fault(r)
        \/ Restart
        \/ Tick

Spec == Init /\ [][Next]_vars

\* Runs are driven by the server's event loop and its threads; nothing obliges
\* a client to ask.
FairSpec == Spec /\ \A r \in Requests : WF_vars(Step(r))
=============================================================================
