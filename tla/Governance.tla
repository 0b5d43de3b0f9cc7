------------------------------ MODULE Governance ------------------------------
(***************************************************************************)
(* The governance service over the audit log and the trace store, both of  *)
(* which others keep writing to: security events are synchronised, risks   *)
(* assessed and compliance reports generated side by side.                 *)
(* A caller reads the stores one query after the other.                    *)
(***************************************************************************)
EXTENDS Integers, FiniteSets, Sequences

CONSTANTS
    Callers,      \* threads with one request each, made again when a store raises
    Incidents,
    Facts,        \* what the workflow, the API and the identity service write
    Requests,     \* what each caller may ask of the service
    All,          \* the scope of a request that names no incident
    MaxFacts,     \* bound on the facts
    MaxRequests   \* bound on the requests

FailedAuthentication ==
    {"authenticate_failed", "api_key_authenticate_failed", "refresh_token_failed"}
Actions == {"authorize", "policy_violation", "policy_denied", "policy_approval_required",
            "evaluate_risk", "session_revoked", "repair", "Execute"} \cup FailedAuthentication
Levels == {"none", "low", "medium", "high", "critical"}
EventTypes == {"authentication_failed", "authorization_denied", "policy_violation",
               "approval_required", "high_risk_operation", "repair_failed", "session_revoked"}
Operations == {"view_device_status", "create_repair_plan", "restart_device",
               "batch_configuration_change"}

ASSUME FactsAssumption ==
    \A f \in Facts :
        /\ f.store \in {"audit", "trace"} /\ f.incident \in Incidents
        /\ f.action \in Actions /\ f.level \in Levels /\ f.key = <<>>
        /\ f.store = "trace" <=> f.action = "Execute"
ASSUME RequestsAssumption ==
    /\ \A c \in Callers : \A r \in Requests[c] :
         /\ r.kind \in {"sync", "risk", "report"}
         /\ r.incident \in Incidents \cup (IF r.kind = "sync" THEN {All} ELSE {})
         /\ r.operation \in Operations /\ r.devices \in Nat \ {0}
    /\ All \notin Incidents /\ MaxFacts \in Nat /\ MaxRequests \in Nat

VARIABLES
    history,   \* what was written to the two stores, a position is its time and identity
    facts,     \* how many facts were written
    requests,  \* how many requests were made
    op         \* what each caller is at

vars == <<history, facts, requests, op>>

(***************************************************************************)
(* Projections                                                             *)
(***************************************************************************)

\* project_governance_event: a recognised authorization, denied.
Denial(e) == e.store = "audit" /\ e.action = "authorize" /\ e.outcome = "denied"

HighRisk(e) == e.level \in {"high", "critical"}

\* _from_audit, one line per mapping.
MapsTo(e, type) ==
    \/ type = "authentication_failed" /\ e.action \in FailedAuthentication
                                      /\ e.outcome = "denied"
    \/ type = "authorization_denied" /\ Denial(e)
    \/ type = "policy_violation" /\ e.action = "policy_violation"
    \/ type = "policy_violation" /\ e.action = "policy_denied" /\ e.outcome = "denied"
    \/ type = "approval_required" /\ e.action \in {"policy_approval_required", "evaluate_risk"}
                                  /\ e.outcome = "approval_required"
    \/ type = "high_risk_operation" /\ e.action = "evaluate_risk"
                                    /\ e.outcome = "approval_required" /\ HighRisk(e)
    \/ type = "high_risk_operation" /\ e.action = "risk_assessment_created" /\ HighRisk(e)
    \/ type = "repair_failed" /\ e.action = "repair" /\ e.outcome = "failed"
    \/ type = "session_revoked" /\ e.action = "session_revoked"

Listed(store, scope, length) ==
    {n \in 1..length : history[n].store = store /\ scope \in {All, history[n].incident}}

FromAudit(scope, length) ==
    {x \in Listed("audit", scope, length) \X EventTypes : MapsTo(history[x[1]], x[2])}

\* _project: a failed execution span stands in for an incident whose audit has no failure.
Projected(scope, audit, spans) ==
    LET audited == FromAudit(scope, audit)
        repairs == {history[x[1]].incident : x \in {y \in audited : y[2] = "repair_failed"}}
    IN  audited \cup
        {<<n, "repair_failed">> :
            n \in {m \in Listed("trace", scope, spans) :
                      /\ history[m].incident \notin repairs
                      /\ history[m].action = "Execute" /\ history[m].outcome = "failed"}}

\* Defect: only the denials of the incident at hand.
Denials_OfIncident(request, length) ==
    {n \in Listed("audit", request.incident, length) :
        Denial(history[n]) /\ history[n].actor = request.actor}

\* GovernanceQuery.query: what the actor was denied, whatever the incident.
Denials(request, length) ==
    {n \in Listed("audit", All, length) : Denial(history[n]) /\ history[n].actor = request.actor}

Smaller(m, n) == IF m < n THEN m ELSE n

\* RiskScorer.assess.
Score(operation, devices, denied, failures) ==
    LET base == CASE operation = "view_device_status" -> 10
                  [] operation = "create_repair_plan" -> 35
                  [] operation = "restart_device" -> 60
                  [] OTHER -> 80
        scope == IF devices >= 6 THEN 20 ELSE IF devices >= 2 THEN 10 ELSE 0
    IN  Smaller(100, base + scope + Smaller(15, 5 * denied) + Smaller(15, 5 * failures))

Level(score) ==
    IF score >= 75 THEN "critical" ELSE IF score >= 50 THEN "high"
    ELSE IF score >= 25 THEN "medium" ELSE "low"

\* _risk_summary: the latest assessment, or else the latest risk check.
LatestLevel(evidence) ==
    LET of(action) == {n \in evidence : history[n].action = action}
        latest(set) == history[CHOOSE n \in set : \A m \in set : m <= n].level
    IN  IF of("risk_assessment_created") # {} THEN latest(of("risk_assessment_created"))
        ELSE IF of("evaluate_risk") # {} THEN latest(of("evaluate_risk"))
        ELSE "none"

(***************************************************************************)
(* Callers                                                                 *)
(***************************************************************************)

\* Defect: the security events of a report come before its evidence.
Steps_EventsFirst(kind) ==
    CASE kind = "sync"   -> <<"events_audit", "events_spans">>
      [] kind = "risk"   -> <<"denials", "events_audit", "events_spans">>
      [] OTHER           -> <<"events_audit", "events_spans", "evidence", "timeline_spans",
                              "timeline_audit">>

\* The queries each request makes, in order.
Steps(kind) ==
    CASE kind = "sync"   -> <<"events_audit", "events_spans">>
      [] kind = "risk"   -> <<"denials", "events_audit", "events_spans">>
      [] OTHER           -> <<"evidence", "timeline_spans", "timeline_audit", "events_audit",
                              "events_spans">>

Resting == [pc |-> "idle"]

Init ==
    /\ history = <<>> /\ facts = 0 /\ requests = 0
    /\ op = [c \in Callers |-> Resting]

Write ==
    /\ facts < MaxFacts
    /\ facts' = facts + 1
    /\ \E f \in Facts : history' = Append(history, f)
    /\ UNCHANGED <<requests, op>>

Begin(c) ==
    /\ requests < MaxRequests
    /\ op[c].pc = "idle"
    /\ \E r \in Requests[c] :
         op' = [op EXCEPT ![c] = [pc |-> "reading", request |-> r, begun |-> Len(history),
                                  seen |-> <<>>]]
    /\ requests' = requests + 1
    /\ UNCHANGED <<history, facts>>

\* What a query saw, by its name.
SeenAt(it, name) ==
    it.seen[CHOOSE i \in DOMAIN Steps(it.request.kind) : Steps(it.request.kind)[i] = name]
EventsSeen(it) ==
    Projected(it.request.incident, SeenAt(it, "events_audit"), SeenAt(it, "events_spans"))
FailuresSeen(it) == {x \in EventsSeen(it) : x[2] = "repair_failed"}
EvidenceSeen(it) == Listed("audit", it.request.incident, SeenAt(it, "evidence"))

\* The next query of a request; a sync then holds the events it has to record.
Read(c) ==
    /\ op[c].pc = "reading"
    /\ LET read == [op[c] EXCEPT !.seen = Append(@, Len(history))]
       IN  op' = [op EXCEPT ![c] =
             IF Len(read.seen) < Len(Steps(read.request.kind)) THEN read
             ELSE IF read.request.kind = "sync"
             THEN [pc |-> "recording", request |-> read.request, begun |-> read.begun,
                   pending |-> EventsSeen(read)]
             ELSE [read EXCEPT !.pc = "recording"]]
    /\ UNCHANGED <<history, facts, requests>>

\* Defect: one key for all the types an event is projected to.
IdempotencyKey_BySource(x) == <<history[x[1]].store, x[1]>>

IdempotencyKey(x) == <<history[x[1]].store, x[1], x[2]>>

Recorded(incident, key) ==
    \E n \in 1..Len(history) : history[n].incident = incident /\ history[n].key = key

Entry(action, level, key, incident) ==
    [store |-> "audit", incident |-> incident, actor |-> "GovernanceService", action |-> action,
     outcome |-> "created", level |-> level, key |-> key]

\* sync: the events in the order of their time, each once whoever records it.
RecordEvent(c) ==
    /\ op[c].pc = "recording" /\ op[c].request.kind = "sync"
    /\ IF op[c].pending = {}
       THEN /\ op' = [op EXCEPT ![c] = [pc |-> "done", request |-> op[c].request,
                                        begun |-> op[c].begun]]
            /\ UNCHANGED history
       ELSE \E x \in op[c].pending :
              LET key == IdempotencyKey(x)
                  incident == history[x[1]].incident
              IN  /\ \A y \in op[c].pending : x[1] <= y[1]
                  /\ op' = [op EXCEPT ![c].pending = @ \ {x}]
                  /\ history' = IF Recorded(incident, key) THEN history
                                ELSE Append(history, Entry("security_event_created", "none",
                                                           key, incident))
    /\ UNCHANGED <<facts, requests>>

RiskLevel(it) ==
    Level(Score(it.request.operation, it.request.devices,
                Cardinality(Denials(it.request, SeenAt(it, "denials"))), Cardinality(FailuresSeen(it))))

\* calculate_risk and generate_report end with a record of what came out.
RecordResult(c) ==
    /\ op[c].pc = "recording" /\ op[c].request.kind # "sync"
    /\ LET it == op[c]
           risk == it.request.kind = "risk"
       IN  /\ history' = Append(history,
                Entry(IF risk THEN "risk_assessment_created" ELSE "compliance_report_generated",
                  IF risk THEN RiskLevel(it) ELSE LatestLevel(EvidenceSeen(it)),
                  <<>>, it.request.incident))
           /\ op' = [op EXCEPT ![c] = [pc |-> "done", request |-> it.request,
                                       seen |-> IF risk THEN <<>> ELSE it.seen]]
    /\ UNCHANGED <<facts, requests>>

\* A store raises, and the exception is the caller's.
Raise(c) ==
    /\ op[c].pc \in {"reading", "recording"}
    /\ op' = [op EXCEPT ![c] = Resting]
    /\ UNCHANGED <<history, facts, requests>>

Next ==
    \/ Write
    \/ \E c \in Callers : Begin(c) \/ Read(c) \/ RecordEvent(c) \/ RecordResult(c) \/ Raise(c)

Spec == Init /\ [][Next]_vars

--------------------------------------------------------------------------------
(***************************************************************************)
(* Properties                                                              *)
(***************************************************************************)

Records(incident, x) ==
    {n \in 1..Len(history) : history[n].incident = incident
                             /\ history[n].action = "security_event_created"
                             /\ history[n].key = <<history[x[1]].store, x[1], x[2]>>}

Done(kind) == {c \in Callers : op[c].pc = "done" /\ op[c].request.kind = kind}

\* Whoever synchronises, once or again after a failure, no event is recorded twice; and when
\* a sync ends every fact of its scope that was there when it began is on record under each
\* of its types, a failed execution under its own or its incident's audited failure
\* (SecurityEventCenter.sync, PostgreSQLAuditStore.record).
SyncIsComplete ==
    /\ \A m, n \in 1..Len(history) :
         /\ history[m].action = "security_event_created"
         /\ history[m].incident = history[n].incident /\ history[m].key = history[n].key
         => m = n
    /\ \A c \in Done("sync") :
         LET begun == op[c].begun
             scope == op[c].request.incident
             failed(n) == history[n].action = "Execute" /\ history[n].outcome = "failed"
         IN  /\ \A x \in FromAudit(scope, begun) : Records(history[x[1]].incident, x) # {}
             /\ \A n \in {m \in Listed("trace", scope, begun) : failed(m)} :
                  \E k \in 1..Len(history) :
                      /\ history[k].incident = history[n].incident
                      /\ k = n \/ MapsTo(history[k], "repair_failed")
                      /\ Records(history[k].incident, <<k, "repair_failed">>) # {}

\* Everything a compliance report lists as evidence is in its timeline, and every denial,
\* violation, approval, high risk and failure among it is one of its security events, as is
\* every failed execution of its timeline unless the audit tells of a failure
\* (ComplianceReportService.build, which asks the stores five times).
ReportCoversItsEvidence ==
    \A c \in Done("report") :
        LET it == op[c]
            incident == it.request.incident
        IN  /\ EvidenceSeen(it) \subseteq Listed("audit", incident, SeenAt(it, "timeline_audit"))
            /\ \A n \in EvidenceSeen(it), type \in EventTypes :
                 MapsTo(history[n], type) => <<n, type>> \in EventsSeen(it)
            /\ (\E n \in Listed("trace", incident, SeenAt(it, "timeline_spans")) :
                   history[n].action = "Execute" /\ history[n].outcome = "failed")
               => FailuresSeen(it) # {}

\* An assessment on record is at least as high as the actor's denials, of any incident, and
\* a failure of this one warrant when it was asked for (GovernanceService.calculate_risk).
RiskSeesHistory ==
    \A c \in Callers :
        op[c].pc = "recording" /\ op[c].request.kind = "risk" =>
            LET request == op[c].request
                denied == {n \in 1..op[c].begun :
                              Denial(history[n]) /\ history[n].actor = request.actor}
                failed == \E n \in 1..op[c].begun :
                              /\ history[n].incident = request.incident
                              /\ history[n].action \in {"repair", "Execute"}
                              /\ history[n].outcome = "failed"
                least == Level(Score(request.operation, request.devices, Cardinality(denied),
                                     IF failed THEN 1 ELSE 0))
                order == [low |-> 1, medium |-> 2, high |-> 3, critical |-> 4]
            IN  order[RiskLevel(op[c])] >= order[least]

================================================================================
