---------------------------- MODULE IncidentTrace ----------------------------
(***************************************************************************)
(* What the incident API records of its own runs: a workflow span for each *)
(* request, a span for each node and tool call in the trace store, and the *)
(* lifecycle events of the trace collector in the audit log.  Both stores  *)
(* may fail at every write, a client may go away while a node still runs   *)
(* in its thread, and the process may restart.                             *)
(*                                                                         *)
(* What the nodes decide is left to IncidentService: here only the path of *)
(* a run matters.  DiagnosisAgent stands for the agents that call a tool,  *)
(* RiskCheck for RepairAgent and RiskCheck.                                *)
(***************************************************************************)
EXTENDS Integers, Sequences, FiniteSets

CONSTANTS
  Requests,     \* slots for HTTP requests, each used once; its run gets a fresh run id
  None,
  MaxAttempts,  \* bound on the visits of one node in one run
  MaxDisturbed, \* bound on the requests with faults, errors or repeated visits of their own
  Serial,       \* clients wait for the end of one stream before the next request
  Faults        \* the kinds of fault that may happen

ASSUME AttemptAssumption == MaxAttempts \in Nat \ {0}
ASSUME DisturbedAssumption == MaxDisturbed \in Nat
ASSUME SerialAssumption == Serial \in BOOLEAN
ASSUME TraceFaultAssumption == Faults \subseteq {"trace", "audit", "disconnect", "restart"}
ASSUME NoRequestAssumption == None \notin Requests

VARIABLES
  thread,  \* what the checkpoint of the incident says is next
  opened,  \* the requests whose workflow spans exist, in the order of the spans
  spans,   \* the spans of each run by name; the place of a span is its attempt
  events,  \* the trace events in the audit log
  run,     \* where each request is
  acted,   \* the runs whose Execute called the action handlers (history)
  kept     \* the visits of nodes whose updates were saved (history)

vars == <<thread, opened, spans, events, run, acted, kept>>

Nodes    == {"Supervisor", "DiagnosisAgent", "RiskCheck", "Approval", "Execute", "ReportAgent"}
Names    == Nodes \union {"workflow", "tool"}
Agents   == {"Supervisor", "DiagnosisAgent", "RiskCheck", "ReportAgent"}  \* agent and decision spans
Statuses == {"running", "succeeded", "failed", "interrupted"}
Types    == {"agent_enter", "agent_exit", "tool_call", "approval_pause", "resume", "repair_execute"}
Events   == [run : Requests, node : Names, type : Types, attempt : 1 .. MaxAttempts,
             status : Statuses \union {"resumed"}]

\* "approved" is a checkpoint whose next node is Execute after an approval,
\* "waiting" one that is interrupted inside Approval.
Threads == Nodes \union {"none", "waiting", "approved", "end"}
NodeOf(t) == CASE t = "waiting" -> "Approval" [] t = "approved" -> "Execute" [] OTHER -> t

Kinds  == {"none", "start", "decision", "retry"}
Phases == {"idle", "read", "open", "resume", "load", "enter", "span", "agent",
           "call", "record", "toolend", "finish", "exit", "return", "snapshot",
           "close", "over"}
Runs == [pc     : Phases,
         kind   : Kinds,
         trace  : Requests \union {None},    \* the trace id, named by the run that made it
         at     : Nodes \union {"none", "end"},
         answer : BOOLEAN,                   \* Approval, the first node, has the client's decision
         result : Statuses \union {"retry"}, \* what the node, and at last the workflow, ends with
         gone   : BOOLEAN,                   \* the client disconnected
         hit    : BOOLEAN]                   \* a fault disturbed this run (history)
Idle == [pc |-> "idle", kind |-> "none", trace |-> None, at |-> "none", answer |-> FALSE,
         result |-> "running", gone |-> FALSE, hit |-> FALSE]

TypeOK ==
  /\ thread \in Threads
  /\ opened \in Seq(Requests)
  /\ spans \in [Requests -> [Names -> Seq(Statuses)]]
  /\ events \subseteq Events
  /\ run \in [Requests -> Runs]
  /\ acted \subseteq Requests
  /\ kept \subseteq Requests \X Nodes \X (1 .. MaxAttempts)
  /\ \A r \in Requests, n \in Names : Len(spans[r][n]) <= MaxAttempts

Init ==
  /\ thread = "none"
  /\ opened = <<>>
  /\ spans = [r \in Requests |-> [n \in Names |-> <<>>]]
  /\ events = {}
  /\ run = [r \in Requests |-> Idle]
  /\ acted = {}
  /\ kept = {}

InFlight(r) == run[r].pc \notin {"idle", "over"}

(***************************************************************************)
(* The stores.                                                             *)
(***************************************************************************)

\* Defect: every visit of a node has the same number.
Attempt_One(r, n) == 1

Attempt(r, n) == Len(spans[r][n])

\* start_span: the count of the spans of that name, and one more, is the attempt.
StartSpan(r, n) == spans' = [spans EXCEPT ![r][n] = Append(@, "running")]

\* Defect: the status is written over whatever the span ended with.
FinishSpan_Last(r, n, status) ==
  spans' = [spans EXCEPT ![r][n] = [i \in DOMAIN @ |-> IF i = Len(@) THEN status ELSE @[i]]]

\* finish_span: a span that ended keeps how it ended.
FinishSpan(r, n, status) ==
  spans' = [spans EXCEPT ![r][n] =
              [i \in DOMAIN @ |-> IF i = Len(@) /\ @[i] = "running" THEN status ELSE @[i]]]

\* The event under the idempotency key trace:run:node:type:attempt; the first one stays.
Record(r, n, type, attempt, status) ==
  IF \E e \in events : e.run = r /\ e.node = n /\ e.type = type /\ e.attempt = attempt
  THEN events' = events
  ELSE events' = events \union
         {[run |-> r, node |-> n, type |-> type, attempt |-> attempt, status |-> status]}

\* What is left of a request that is over.
Over(it) == [it EXCEPT !.pc = "over", !.at = "none", !.result = "running",
                       !.answer = FALSE, !.gone = FALSE]

At(it, pc)  == IF pc = "over" THEN Over(it) ELSE [it EXCEPT !.pc = pc]
Goto(r, pc) == run' = [run EXCEPT ![r] = At(@, pc)]
\* A job of a cancelled stream runs to its end in its thread and nobody goes on from there.
Continue(r, pc) == Goto(r, IF run[r].gone THEN "over" ELSE pc)
\* The bounds on what makes runs differ: faults, errors and nodes that are visited again.
Disturbed(r)  == \/ run[r].hit
                 \/ Attempt(r, "DiagnosisAgent") > 1
                 \/ \E n \in Names : \E i \in DOMAIN spans[r][n] : spans[r][n][i] = "failed"
MayDisturbAll(set) == Cardinality({q \in Requests : Disturbed(q)} \union set) <= MaxDisturbed
MayDisturb(r) == MayDisturbAll({r})
MayRevisit(r) == Attempt(r, run[r].at) < MaxAttempts /\ MayDisturb(r)

\* A store raised: the step ends with result and the run goes on at pc.
Broken(r, kind, pc, result) ==
  /\ kind \in Faults /\ MayDisturb(r)
  /\ run' = [run EXCEPT ![r] = At([@ EXCEPT !.result = result, !.hit = TRUE], pc)]
  /\ UNCHANGED <<thread, opened, spans, events, acted, kept>>

(***************************************************************************)
(* The API: accept a request, find its trace, open its workflow span.      *)
(***************************************************************************)

Acceptable(kind) ==
  CASE kind = "start"    -> thread = "none"
    [] kind = "decision" -> thread \in {"Approval", "waiting"}
    [] kind = "retry"    -> thread = "approved"
    [] OTHER             -> FALSE

Accept(r) ==
  /\ run[r].pc = "idle"
  /\ Serial => \A other \in Requests : ~InFlight(other)
  /\ \E kind \in Kinds :
       /\ Acceptable(kind)
       /\ run' = [run EXCEPT ![r].pc = "read", ![r].kind = kind]
  /\ UNCHANGED <<thread, opened, spans, events, acted, kept>>

\* Defect: every request begins a trace of its own.
TraceOfIncident_Fresh(r) == r

\* trace_id_for_incident, or a fresh id.
TraceOfIncident(r) == IF opened = <<>> THEN r ELSE run[opened[1]].trace

ReadTrace(r) ==
  /\ run[r].pc = "read"
  /\ \/ /\ run' = [run EXCEPT ![r].pc = "open", ![r].trace = TraceOfIncident(r)]
        /\ UNCHANGED <<thread, opened, spans, events, acted, kept>>
     \/ Broken(r, "trace", "over", "running")

OpenWorkflow(r) ==
  /\ run[r].pc = "open"
  /\ \/ /\ StartSpan(r, "workflow")
        /\ opened' = Append(opened, r)
        /\ Continue(r, IF run[r].kind = "start" THEN "load" ELSE "resume")
        /\ UNCHANGED <<thread, events, acted, kept>>
     \/ Broken(r, "trace", "over", "running")

Resume(r) ==
  /\ run[r].pc = "resume"
  /\ \/ /\ Record(r, "Approval", "resume", 1, "resumed")
        /\ Continue(r, "load")
        /\ UNCHANGED <<thread, opened, spans, acted, kept>>
     \/ Broken(r, "audit", IF run[r].gone THEN "over" ELSE "close", "failed")

\* astream: a new input starts the thread over, the others go on from its checkpoint.
Load(r) ==
  /\ run[r].pc = "load"
  /\ LET from == IF run[r].kind = "start" THEN "Supervisor" ELSE thread
     IN  /\ thread' = from
         /\ run' = [run EXCEPT ![r].pc = IF from = "end" THEN "snapshot" ELSE "enter",
                               ![r].at = NodeOf(from),
                               ![r].answer = run[r].kind = "decision" /\ NodeOf(from) = "Approval"]
  /\ UNCHANGED <<opened, spans, events, acted, kept>>

(***************************************************************************)
(* A node in its thread: announced, traced, called.                        *)
(***************************************************************************)

\* A node may be stopped before any trace: the authorisation raises in RepairAgent and in
\* Execute, and the policy leaves the action of Execute out.
Blocked(r) ==
  /\ run[r].pc = "enter" /\ run[r].at \in {"RiskCheck", "Execute"}
  /\ \E result \in {"failed"} \union (IF run[r].at = "Execute" THEN {"succeeded"} ELSE {}) :
       run' = [run EXCEPT ![r].pc = "return", ![r].result = result]
  /\ UNCHANGED <<thread, opened, spans, events, acted, kept>>

\* A run that resumes does not announce the approval again.
Announced(r) == run[r].at = "Execute" \/ (run[r].at = "Approval" /\ run[r].kind = "start")

\* Defect: a failing audit log does not stop the node.
Announce_Ignored(r) ==
  /\ run[r].pc = "enter" /\ Announced(r)
  /\ \/ /\ IF run[r].at = "Execute" THEN Record(r, "Execute", "repair_execute", 1, "running")
                                     ELSE Record(r, "Approval", "approval_pause", 1, "interrupted")
        /\ Goto(r, "span")
        /\ UNCHANGED <<thread, opened, spans, acted, kept>>
     \/ Broken(r, "audit", "span", run[r].result)

Announce(r) ==
  /\ run[r].pc = "enter" /\ Announced(r)
  /\ \/ /\ IF run[r].at = "Execute" THEN Record(r, "Execute", "repair_execute", 1, "running")
                                     ELSE Record(r, "Approval", "approval_pause", 1, "interrupted")
        /\ Goto(r, "span")
        /\ UNCHANGED <<thread, opened, spans, acted, kept>>
     \/ Broken(r, "audit", "return", "failed")

OpenNode(r) ==
  /\ run[r].pc = (IF Announced(r) THEN "span" ELSE "enter")
  /\ \/ /\ StartSpan(r, run[r].at)
        /\ Goto(r, IF run[r].at \in Agents THEN "agent" ELSE "call")
        /\ UNCHANGED <<thread, opened, events, acted, kept>>
     \/ Broken(r, "trace", "return", "failed")

\* agent_enter is outside the try block: when it raises the span stays as it is.
AgentEnter(r) ==
  /\ run[r].pc = "agent"
  /\ \/ /\ Record(r, run[r].at, "agent_enter", Attempt(r, run[r].at), "running")
        /\ Goto(r, "call")
        /\ UNCHANGED <<thread, opened, spans, acted, kept>>
     \/ Broken(r, "audit", "return", "failed")

\* What the node makes of its call: any node may raise, Approval without an answer interrupts.
Outcomes(r) ==
  {IF run[r].at = "Approval" /\ ~run[r].answer THEN "interrupted" ELSE "succeeded"} \union
  (IF MayDisturb(r) THEN {"failed"} ELSE {})

Call(r) ==
  /\ run[r].pc = "call" /\ run[r].at # "DiagnosisAgent"
  /\ \E result \in Outcomes(r) :
       run' = [run EXCEPT ![r].pc = "finish", ![r].result = result, ![r].answer = FALSE]
  /\ acted' = IF run[r].at = "Execute" THEN acted \union {r} ELSE acted
  /\ UNCHANGED <<thread, opened, spans, events, kept>>

ToolStart(r) ==
  /\ run[r].pc = "call" /\ run[r].at = "DiagnosisAgent"
  /\ \/ /\ StartSpan(r, "tool")
        /\ Goto(r, "record")
        /\ UNCHANGED <<thread, opened, events, acted, kept>>
     \/ Broken(r, "trace", "finish", "failed")

\* record_call: the tool answers, raises a connection error (retry) or another error.
ToolRecord(r) ==
  /\ run[r].pc = "record"
  /\ \/ \E result \in Outcomes(r) \union (IF MayRevisit(r) THEN {"retry"} ELSE {}) :
          /\ Record(r, "tool", "tool_call", Attempt(r, "tool"),
                    IF result = "succeeded" THEN "succeeded" ELSE "failed")
          /\ run' = [run EXCEPT ![r].pc = "toolend", ![r].result = result]
          /\ UNCHANGED <<thread, opened, spans, acted, kept>>
     \/ Broken(r, "audit", "toolend", "failed")

\* The audit event of the tool call comes first: when it raises the span stays as it is.
ToolEnd(r) ==
  /\ run[r].pc = "toolend"
  /\ \/ /\ FinishSpan(r, "tool", IF run[r].result = "succeeded" THEN "succeeded" ELSE "failed")
        /\ Goto(r, "finish")
        /\ UNCHANGED <<thread, opened, events, acted, kept>>
     \/ \E kind \in {"audit", "trace"} : Broken(r, kind, "finish", "failed")

\* Whatever a node raises, a retried error too, ends its span as failed.
NodeStatus(r) == IF run[r].result = "retry" THEN "failed" ELSE run[r].result

\* Defect: a span whose node interrupts is left open for the run that resumes it.
NodeEnd_LeftOpen(r) ==
  /\ run[r].pc = "finish"
  /\ IF run[r].result = "interrupted" THEN UNCHANGED spans
                                      ELSE FinishSpan(r, run[r].at, NodeStatus(r))
  /\ Goto(r, IF run[r].at \in Agents THEN "exit" ELSE "return")
  /\ UNCHANGED <<thread, opened, events, acted, kept>>

NodeEnd(r) ==
  /\ run[r].pc = "finish"
  /\ \/ /\ FinishSpan(r, run[r].at, NodeStatus(r))
        /\ Goto(r, IF run[r].at \in Agents THEN "exit" ELSE "return")
        /\ UNCHANGED <<thread, opened, events, acted, kept>>
     \/ Broken(r, "trace", "return", "failed")

AgentExit(r) ==
  /\ run[r].pc = "exit"
  /\ \/ /\ Record(r, run[r].at, "agent_exit", Attempt(r, run[r].at), NodeStatus(r))
        /\ Goto(r, "return")
        /\ UNCHANGED <<thread, opened, spans, acted, kept>>
     \/ Broken(r, "audit", "return", "failed")

(***************************************************************************)
(* The graph: save the update of a node and go on, and the end of a run.   *)
(***************************************************************************)

\* The checkpoints that may follow a node.
After(r) ==
  CASE run[r].at = "Supervisor"     -> {"DiagnosisAgent"}
    [] run[r].at = "DiagnosisAgent" -> {"RiskCheck", "ReportAgent"} \union
         (IF MayRevisit(r) THEN {"DiagnosisAgent"} ELSE {})
    [] run[r].at = "RiskCheck"      -> {"Approval", "Execute"}
    [] run[r].at = "Approval"       -> {"approved", "ReportAgent"}
    [] run[r].at = "Execute"        -> {"ReportAgent"}
    [] OTHER                        -> {"end"}

Save(r) ==
  /\ run[r].result = "succeeded"
  /\ \E next \in After(r) :
       /\ thread' = next
       /\ run' = [run EXCEPT ![r].at = NodeOf(next),
                             ![r].pc = IF next = "end" THEN "snapshot" ELSE "enter"]
  /\ kept' = IF Attempt(r, run[r].at) = 0 THEN kept
             ELSE kept \union {<<r, run[r].at, Attempt(r, run[r].at)>>}
  /\ UNCHANGED <<opened, spans, events, acted>>

Interrupt(r) ==
  /\ run[r].result = "interrupted"
  /\ thread' = "waiting"
  /\ Goto(r, "snapshot")
  /\ UNCHANGED <<opened, spans, events, acted, kept>>

\* RetryPolicy: a node with a connection error is tried again.
Retry(r) ==
  /\ run[r].result = "retry"
  /\ Goto(r, "enter")
  /\ UNCHANGED <<thread, opened, spans, events, acted, kept>>

Raise(r) ==
  /\ run[r].result = "failed"
  /\ Goto(r, "close")
  /\ UNCHANGED <<thread, opened, spans, events, acted, kept>>

\* The update of a node whose stream was cancelled is dropped.
Drop(r) ==
  /\ Goto(r, "over")
  /\ UNCHANGED <<thread, opened, spans, events, acted, kept>>

Return(r) ==
  /\ run[r].pc = "return"
  /\ IF run[r].gone THEN Drop(r) ELSE Save(r) \/ Interrupt(r) \/ Retry(r) \/ Raise(r)

\* Defect: a stream that resumes asks before its run, when the incident still waits.
Snapshot_Early(r) ==
  /\ run[r].pc = "snapshot"
  /\ run' = [run EXCEPT ![r].pc = "close",
                        ![r].result = IF thread = "waiting" \/ run[r].kind = "decision"
                                      THEN "interrupted" ELSE "succeeded"]
  /\ UNCHANGED <<thread, opened, spans, events, acted, kept>>

\* The stream asks the checkpoint, not its run, how the run ended.
Snapshot(r) ==
  /\ run[r].pc = "snapshot"
  /\ run' = [run EXCEPT ![r].pc = "close",
                        ![r].result = IF thread = "waiting" THEN "interrupted" ELSE "succeeded"]
  /\ UNCHANGED <<thread, opened, spans, events, acted, kept>>

\* A failure to finish the span is an error of the stream, which finishes it as failed.
Close(r) ==
  /\ run[r].pc = "close"
  /\ \/ /\ FinishSpan(r, "workflow", run[r].result)
        /\ Goto(r, "over")
        /\ UNCHANGED <<thread, opened, events, acted, kept>>
     \/ Broken(r, "trace", IF run[r].result = "failed" \/ run[r].gone THEN "over" ELSE "close",
               "failed")

(***************************************************************************)
(* Clients that go away and processes that restart.                        *)
(***************************************************************************)

\* Where a stream waits for its loop, and where it waits for a job that may not have begun.
Awaiting == {"read", "load", "snapshot"}
Queued   == {"open", "resume", "enter", "close"}

\* A cancelled stream: inside its try block the handler finishes the span as interrupted,
\* unless the stream waits at a yield, where it is closed without the handler, or the
\* handler's own job is cancelled.  The job in its thread goes on to its end.
Disconnect(r) ==
  /\ "disconnect" \in Faults /\ MayDisturb(r)
  /\ InFlight(r) /\ ~run[r].gone
  /\ \/ run[r].pc \notin Awaiting /\ run' = [run EXCEPT ![r].gone = TRUE, ![r].hit = TRUE]
     \/ run[r].pc \in Awaiting \union Queued /\ run' = [run EXCEPT ![r] = Over([@ EXCEPT !.hit = TRUE])]
  /\ \/ /\ run[r].pc \notin {"read", "open"}
        /\ ~(run[r].pc = "close" /\ run[r].result = "failed")
        /\ FinishSpan(r, "workflow", "interrupted")
     \/ UNCHANGED spans
  /\ UNCHANGED <<thread, opened, events, acted, kept>>

Restart ==
  /\ "restart" \in Faults
  /\ \E r \in Requests : InFlight(r)
  /\ MayDisturbAll({r \in Requests : InFlight(r)})
  /\ run' = [r \in Requests |->
               IF InFlight(r) THEN Over([run[r] EXCEPT !.hit = TRUE])
               ELSE run[r]]
  /\ UNCHANGED <<thread, opened, spans, events, acted, kept>>

Step(r) ==
  \/ ReadTrace(r) \/ OpenWorkflow(r) \/ Resume(r) \/ Load(r)
  \/ Blocked(r) \/ Announce(r) \/ OpenNode(r) \/ AgentEnter(r) \/ Call(r)
  \/ ToolStart(r) \/ ToolRecord(r) \/ ToolEnd(r)
  \/ NodeEnd(r) \/ AgentExit(r) \/ Return(r) \/ Snapshot(r) \/ Close(r)

Next == \/ \E r \in Requests : Accept(r) \/ Step(r) \/ Disconnect(r)
        \/ Restart

Spec == Init /\ [][Next]_vars

(***************************************************************************)
(* Properties.                                                             *)
(***************************************************************************)

\* A span that ended keeps its status, and no span disappears, although the end of a run
\* and the handler of a cancelled stream may both finish the workflow span.
FinishedOnce ==
  [][\A r \in Requests, n \in Names : \A i \in DOMAIN spans[r][n] :
       /\ i \in DOMAIN spans'[r][n]
       /\ spans[r][n][i] # "running" => spans'[r][n][i] = spans[r][n][i]]_vars

\* A node's update is saved only when its span ended well and its lifecycle events are in the
\* audit log (TracePersistenceError), however often the node was visited or tried again.
SavedIsTraced ==
  \A visit \in kept :
    LET r == visit[1]  n == visit[2]  a == visit[3]
        Logged(type, status) == [run |-> r, node |-> n, type |-> type, attempt |-> a,
                                 status |-> status] \in events
    IN  /\ a <= Len(spans[r][n]) /\ spans[r][n][a] = "succeeded"
        /\ n \in Agents => Logged("agent_enter", "running") /\ Logged("agent_exit", "succeeded")

\* Action handlers are called only by a run whose repair_execute event was written before.
ActionsAreAnnounced ==
  \A r \in acted : \E e \in events : e.run = r /\ e.type = "repair_execute"

\* Every decision and execution retry records under the trace of the incident's first span.
ResumeSharesTrace ==
  \A i \in DOMAIN opened :
    run[opened[i]].kind # "start" => run[opened[i]].trace = run[opened[1]].trace

\* A run that is over left a span open only if a store failed it, its client went away or
\* the process restarted.
OpenSpanMeansFault ==
  \A r \in Requests : run[r].pc = "over" /\ ~run[r].hit =>
    \A n \in Names : \A i \in DOMAIN spans[r][n] : spans[r][n][i] # "running"
=============================================================================
