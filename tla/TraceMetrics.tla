---------------------------- MODULE TraceMetrics ----------------------------
(***************************************************************************)
(* What the metrics and the incident list say of the incident whose spans  *)
(* and events IncidentTrace records: they are computed from the two stores *)
(* alone, at any time, and never look at the checkpoint of the incident.   *)
(***************************************************************************)
EXTENDS IncidentTrace

\* The workflow span that was opened last speaks for the incident.
LatestWorkflow == opened[Len(opened)]

\* Defect: the first workflow span speaks for the incident.
IncidentStatus_First == IF opened = <<>> THEN "none" ELSE spans[opened[1]]["workflow"][1]

IncidentStatus == IF opened = <<>> THEN "none" ELSE spans[LatestWorkflow]["workflow"][1]

ActiveIncidents  == IF IncidentStatus = "running" THEN 1 ELSE 0
PendingApprovals == IF IncidentStatus = "interrupted" THEN 1 ELSE 0

SpansOf(names) ==
  {span \in Requests \X names \X (1 .. MaxAttempts) : span[3] <= Len(spans[span[1]][span[2]])}
SpanStatus(span) == spans[span[1]][span[2]][span[3]]
SpanCount(names, status) == Cardinality({span \in SpansOf(names) : SpanStatus(span) = status})

\* Spans that run are left out of the calls.
ToolCalls ==
  LET completed == {span \in SpansOf({"tool"}) : SpanStatus(span) # "running"}
  IN  [total     |-> Cardinality(completed),
       succeeded |-> SpanCount({"tool"}, "succeeded"),
       failed    |-> SpanCount({"tool"}, "failed")]

\* Pauses wait in line under their trace for a resume: one request announces the approval of
\* its trace, and the first resume ends the wait.
EventsOf(type) == {e \in events : e.type = type}
WaitedTraces ==
  {run[e.run].trace : e \in EventsOf("approval_pause")} \cap
  {run[e.run].trace : e \in EventsOf("resume")}

-----------------------------------------------------------------------------
AtRest == \A r \in Requests : ~InFlight(r)
Undisturbed == \A r \in Requests : ~run[r].hit
Decided == \E r \in Requests : run[r].kind = "decision"

\* Between requests the dashboard tells the truth about the incident although nothing ties the
\* stores to the checkpoint: an incident counted as finished is finished, one counted as pending
\* waits for its approval, a failed one is not finished, none is active - the last three unless a
\* fault hit its last request; and if none was hit at all, the tool calls are those of the audit
\* log and an approval has a waiting time once a decision came.
DashboardIsTrue ==
  AtRest /\ opened # <<>> =>
    /\ IncidentStatus = "succeeded" => thread = "end"
    /\ ~run[LatestWorkflow].hit =>
         /\ PendingApprovals = 1 => thread = "waiting"
         /\ IncidentStatus = "failed" => thread # "end"
         /\ ActiveIncidents = 0
    /\ Undisturbed =>
         /\ ToolCalls.total = Cardinality(EventsOf("tool_call"))
         /\ \A status \in {"succeeded", "failed"} :
              ToolCalls[status] = Cardinality({e \in EventsOf("tool_call") : e.status = status})
         /\ WaitedTraces # {} <=> Decided

=============================================================================
