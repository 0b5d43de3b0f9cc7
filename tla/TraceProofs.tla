----------------------------- MODULE TraceProofs -----------------------------
(***************************************************************************)
(* Theorems about IncidentTrace and TraceMetrics for every number of       *)
(* requests and bounds, with and without racing requests.                  *)
(*                                                                         *)
(* The properties are about spans and events that are written in steps of  *)
(* different runs.  The invariant says, phase by phase, which spans and    *)
(* which events of its own a run has already written: a node ahead of the  *)
(* run has none, the node it is at has an open last span and no agent_exit *)
(* yet, so that no write can hit a key or a span of an earlier visit.      *)
(***************************************************************************)
EXTENDS TraceMetrics, FunctionTheorems, FiniteSetTheorems, TLAPS

Before  == {"idle", "read", "open", "resume", "load"}
InNode  == {"enter", "span", "agent", "call", "record", "toolend", "finish", "exit", "return"}
Visited == {"agent", "call", "record", "toolend", "finish"}  \* the node's last span is open
Judged  == {"toolend", "finish", "exit", "return"}           \* the result is the node's

\* The nodes a run may still come to after n.
Ahead(n) ==
  CASE n = "Supervisor"     -> Nodes \ {"Supervisor"}
    [] n = "DiagnosisAgent" -> {"RiskCheck", "Approval", "Execute", "ReportAgent"}
    [] n = "RiskCheck"      -> {"Approval", "Execute", "ReportAgent"}
    [] n = "Approval"       -> {"Execute", "ReportAgent"}
    [] n = "Execute"        -> {"ReportAgent"}
    [] OTHER                -> {}

\* Where a run can be.
RunOK(r) ==
  LET it == run[r]
  IN  /\ it.pc \in InNode => it.at \in Nodes
      /\ it.pc \in {"record", "toolend"} => it.at = "DiagnosisAgent"
      /\ it.pc \in {"agent", "exit"} => it.at \in Agents
      /\ it.pc = "span" => it.at \in {"Approval", "Execute"}
      /\ it.pc = "close" => it.result \in {"succeeded", "failed", "interrupted"}
      /\ it.pc \in Judged => it.result # "running"
      /\ it.pc \in Judged /\ it.result = "retry" => it.at = "DiagnosisAgent"
      /\ it.gone => it.hit
      /\ it.pc = "idle" => it.kind = "none"
      /\ it.pc \notin {"idle", "over"} => it.kind # "none"

\* Which spans it has begun.
SpansOK(r) ==
  LET it == run[r]
  IN  /\ it.pc \in Before => \A n \in Names \ {"workflow"} : Len(spans[r][n]) = 0
      /\ it.pc \in {"idle", "read", "open"} => Len(spans[r]["workflow"]) = 0
      /\ it.pc \in InNode => \A n \in Ahead(it.at) : Len(spans[r][n]) = 0
      /\ it.pc \in {"enter", "span"} /\ it.at # "DiagnosisAgent" => Len(spans[r][it.at]) = 0
      /\ it.pc = "enter" => Len(spans[r][it.at]) < MaxAttempts
      /\ it.pc \in Judged /\ it.result = "retry" => Len(spans[r][it.at]) < MaxAttempts
      /\ Len(spans[r]["tool"]) <= Len(spans[r]["DiagnosisAgent"])
      /\ it.pc \in {"agent", "call"} /\ it.at = "DiagnosisAgent" =>
           Len(spans[r]["tool"]) < Len(spans[r]["DiagnosisAgent"])
      /\ it.pc \in Visited => /\ Len(spans[r][it.at]) > 0
                              /\ spans[r][it.at][Len(spans[r][it.at])] = "running"
      /\ it.pc \in {"record", "toolend"} => Len(spans[r]["tool"]) > 0
      /\ it.pc = "exit" => Len(spans[r][it.at]) > 0

Event(r, n, type, a, status) ==
  [run |-> r, node |-> n, type |-> type, attempt |-> a, status |-> status]
Logged(r, n, type, a, status) == Event(r, n, type, a, status) \in events

\* Which lifecycle events it has written.
EventsOK(r) ==
  LET it == run[r]
      last == Len(spans[r][it.at])
  IN  /\ \A e \in events : e.run = r /\ e.type \in {"agent_enter", "agent_exit"} =>
           e.attempt <= Len(spans[r][e.node])
      /\ it.pc = "agent" =>
           ~ \E e \in events : e.run = r /\ e.node = it.at /\ e.type = "agent_enter" /\ e.attempt = last
      /\ it.pc \in Visited \union {"exit"} =>
           ~ \E e \in events : e.run = r /\ e.node = it.at /\ e.type = "agent_exit" /\ e.attempt = last
      /\ it.pc \in (Visited \union {"exit"}) \ {"agent"} /\ it.at \in Agents =>
           Logged(r, it.at, "agent_enter", last, "running")
      /\ it.pc \in {"exit", "return"} /\ it.result = "succeeded" /\ last > 0 =>
           spans[r][it.at][last] = "succeeded"
      /\ it.pc = "return" /\ it.result = "succeeded" /\ last > 0 /\ it.at \in Agents =>
           /\ Logged(r, it.at, "agent_enter", last, "running")
           /\ Logged(r, it.at, "agent_exit", last, "succeeded")
      /\ it.pc \in {"span", "call"} /\ it.at = "Execute" =>
           \E e \in events : e.run = r /\ e.type = "repair_execute"

\* Which spans of a run without a fault are open.
OpenOK(r) ==
  LET it == run[r]
  IN  ~it.hit => \A n \in Names : \A i \in DOMAIN spans[r][n] :
        spans[r][n][i] = "running" =>
          /\ i = Len(spans[r][n])
          /\ \/ n = "workflow" /\ it.pc \in {"resume", "load", "snapshot", "close"} \union InNode
             \/ n = it.at /\ it.pc \in Visited
             \/ n = "tool" /\ it.pc \in {"record", "toolend"}

\* The first span of the incident gives every later request its trace.
TraceOK ==
  /\ thread # "none" => opened # <<>>
  /\ \A r \in Requests :
       /\ run[r].pc \notin {"idle", "read", "open", "over"} => opened # <<>>
       /\ run[r].kind \in {"decision", "retry"} => thread # "none"
       /\ /\ run[r].kind \in {"decision", "retry"}
          /\ run[r].pc \notin {"idle", "read", "over"}
          => run[r].trace = run[opened[1]].trace
  /\ \A i \in DOMAIN opened : run[opened[i]].pc \notin {"idle", "read", "open"}

\* What a run keeps about itself.
Local(r) == RunOK(r) /\ SpansOK(r) /\ EventsOK(r) /\ OpenOK(r)

IInv ==
  /\ TypeOK
  /\ \A r \in Requests : Local(r)
  /\ TraceOK
  /\ SavedIsTraced
  /\ ActionsAreAnnounced
  /\ ResumeSharesTrace

\* A step of r leaves the runs, the spans and the events of the others alone.
Framed(r) ==
  /\ \A q \in Requests \ {r} : run'[q] = run[q] /\ spans'[q] = spans[q]
  /\ events \subseteq events'
  /\ \A e \in events' \ events : e.run = r

\* FinishedOnce, of one step.
Lasting ==
  \A r \in Requests, n \in Names : \A i \in DOMAIN spans[r][n] :
    /\ i \in DOMAIN spans'[r][n]
    /\ spans[r][n][i] # "running" => spans'[r][n][i] = spans[r][n][i]

(***************************************************************************)
(* The stores.                                                             *)
(***************************************************************************)

\* A sequence of statuses stays one when its elements are replaced.
LEMMA MapStatuses ==
  ASSUME NEW s \in Seq(Statuses), NEW f, f = [i \in DOMAIN s |-> f[i]],
         \A i \in DOMAIN s : f[i] \in Statuses
  PROVE  f \in Seq(Statuses) /\ Len(f) = Len(s) /\ DOMAIN f = DOMAIN s
<1>1. DOMAIN s = 1 .. Len(s) /\ Len(s) \in Nat
  OBVIOUS
<1>2. f \in [1 .. Len(s) -> Statuses]
  BY <1>1
<1> QED
  BY <1>1, <1>2

\* start_span adds one running span.
LEMMA StartSpanOK ==
  ASSUME TypeOK, NEW r \in Requests, NEW n \in Names, StartSpan(r, n)
  PROVE  /\ spans' \in [Requests -> [Names -> Seq(Statuses)]]
         /\ \A q \in Requests : q # r => spans'[q] = spans[q]
         /\ \A m \in Names : m # n => spans'[r][m] = spans[r][m]
         /\ Len(spans'[r][n]) = Len(spans[r][n]) + 1
         /\ spans'[r][n][Len(spans[r][n]) + 1] = "running"
         /\ \A i \in DOMAIN spans[r][n] : spans'[r][n][i] = spans[r][n][i]
         /\ Lasting
<1> DEFINE s == spans[r][n]
           t == Append(s, "running")
<1>1. s \in Seq(Statuses) /\ "running" \in Statuses
  BY DEF TypeOK, Statuses
<1>2. /\ t \in Seq(Statuses)
      /\ Len(t) = Len(s) + 1
      /\ t[Len(s) + 1] = "running"
      /\ DOMAIN s = 1 .. Len(s) /\ DOMAIN t = 1 .. (Len(s) + 1) /\ Len(s) \in Nat
      /\ \A i \in DOMAIN s : t[i] = s[i]
  BY <1>1
<1>3. spans' = [spans EXCEPT ![r] = [spans[r] EXCEPT ![n] = t]]
  BY DEF StartSpan
<1>4. spans'[r][n] = t
  BY <1>3 DEF TypeOK
<1>5. \A q \in Requests : q # r => spans'[q] = spans[q]
  BY <1>3 DEF TypeOK
<1>6. \A m \in Names : m # n => spans'[r][m] = spans[r][m]
  BY <1>3 DEF TypeOK
<1>7. spans' \in [Requests -> [Names -> Seq(Statuses)]]
  BY <1>2, <1>3 DEF TypeOK
<1>8. Lasting
  <2> SUFFICES ASSUME NEW q \in Requests, NEW m \in Names, NEW i \in DOMAIN spans[q][m]
               PROVE  i \in DOMAIN spans'[q][m] /\ spans'[q][m][i] = spans[q][m][i]
    BY DEF Lasting
  <2>1. CASE q = r /\ m = n
    BY <2>1, <1>2, <1>4
  <2>2. CASE ~(q = r /\ m = n)
    BY <2>2, <1>5, <1>6
  <2> QED
    BY <2>1, <2>2
<1> QED
  BY <1>2, <1>4, <1>5, <1>6, <1>7, <1>8

\* finish_span ends the last span of a name if it still runs.
LEMMA FinishSpanOK ==
  ASSUME TypeOK, NEW r \in Requests, NEW n \in Names, NEW status \in Statuses,
         FinishSpan(r, n, status)
  PROVE  /\ spans' \in [Requests -> [Names -> Seq(Statuses)]]
         /\ \A q \in Requests : q # r => spans'[q] = spans[q]
         /\ \A m \in Names : m # n => spans'[r][m] = spans[r][m]
         /\ Len(spans'[r][n]) = Len(spans[r][n])
         /\ DOMAIN spans'[r][n] = DOMAIN spans[r][n]
         /\ \A i \in DOMAIN spans[r][n] :
              spans'[r][n][i] = IF i = Len(spans[r][n]) /\ spans[r][n][i] = "running"
                                THEN status ELSE spans[r][n][i]
         /\ Lasting
<1> DEFINE s == spans[r][n]
           t == [i \in DOMAIN s |-> IF i = Len(s) /\ s[i] = "running" THEN status ELSE s[i]]
<1>1. s \in Seq(Statuses)
  BY DEF TypeOK
<1>2. \A i \in DOMAIN s : t[i] \in Statuses
  BY <1>1
<1>3. t \in Seq(Statuses) /\ Len(t) = Len(s) /\ DOMAIN t = DOMAIN s
  <2> HIDE DEF s
  <2>1. t = [i \in DOMAIN s |-> t[i]]
    OBVIOUS
  <2> HIDE DEF t
  <2> QED
    BY <1>1, <1>2, <2>1, MapStatuses
<1>4. spans' = [spans EXCEPT ![r] = [spans[r] EXCEPT ![n] = t]]
  BY DEF FinishSpan
<1>5. spans'[r][n] = t
  BY <1>4 DEF TypeOK
<1>6. \A q \in Requests : q # r => spans'[q] = spans[q]
  BY <1>4 DEF TypeOK
<1>7. \A m \in Names : m # n => spans'[r][m] = spans[r][m]
  BY <1>4 DEF TypeOK
<1>8. spans' \in [Requests -> [Names -> Seq(Statuses)]]
  BY <1>3, <1>4 DEF TypeOK
<1>9. Lasting
  <2> SUFFICES ASSUME NEW q \in Requests, NEW m \in Names, NEW i \in DOMAIN spans[q][m]
               PROVE  /\ i \in DOMAIN spans'[q][m]
                      /\ spans[q][m][i] # "running" => spans'[q][m][i] = spans[q][m][i]
    BY DEF Lasting
  <2>1. CASE q = r /\ m = n
    BY <2>1, <1>3, <1>5
  <2>2. CASE ~(q = r /\ m = n)
    BY <2>2, <1>6, <1>7
  <2> QED
    BY <2>1, <2>2
<1> QED
  BY <1>3, <1>5, <1>6, <1>7, <1>8, <1>9

\* record keeps every event and leaves one under the key.
LEMMA RecordOK ==
  ASSUME TypeOK, NEW r \in Requests, NEW n \in Names, NEW type \in Types,
         NEW a \in 1 .. MaxAttempts, NEW status \in Statuses \union {"resumed"},
         Record(r, n, type, a, status)
  PROVE  /\ events' \subseteq Events
         /\ events \subseteq events'
         /\ \A e \in events' \ events : /\ e.run = r /\ e.node = n /\ e.type = type
                                       /\ e.attempt = a /\ e.status = status
         /\ \E e \in events' : e.run = r /\ e.type = type
         /\ (~ \E e \in events : e.run = r /\ e.node = n /\ e.type = type /\ e.attempt = a) =>
              Event(r, n, type, a, status) \in events'
<1> DEFINE new == [run |-> r, node |-> n, type |-> type, attempt |-> a, status |-> status]
<1>1. new \in Events
  BY DEF Events
<1>2. CASE \E e \in events : e.run = r /\ e.node = n /\ e.type = type /\ e.attempt = a
  BY <1>2 DEF Record, TypeOK
<1>3. CASE ~ \E e \in events : e.run = r /\ e.node = n /\ e.type = type /\ e.attempt = a
  <2>1. events' = events \union {new}
    BY <1>3 DEF Record
  <2>2. new \in events' /\ new.run = r /\ new.type = type
    BY <2>1
  <2>3. Event(r, n, type, a, status) \in events'
    BY <2>2 DEF Event
  <2>4. events' \subseteq Events
    BY <1>1, <2>1 DEF TypeOK
  <2>5. \A e \in events' \ events : /\ e.run = r /\ e.node = n /\ e.type = type
                                   /\ e.attempt = a /\ e.status = status
    BY <2>1
  <2>6. \E e \in events' : e.run = r /\ e.type = type
    BY <2>2
  <2>7. events \subseteq events'
    BY <2>1
  <2> HIDE DEF new
  <2> QED
    BY <2>3, <2>4, <2>5, <2>6, <2>7
<1> QED
  BY <1>2, <1>3

\* What the others keep about themselves survives a step of r.
LEMMA FrameOK ==
  ASSUME TypeOK, NEW r \in Requests, NEW q \in Requests, q # r, Framed(r), Local(q)
  PROVE  Local(q)'
<1>1. run'[q] = run[q] /\ spans'[q] = spans[q]
  BY DEF Framed
<1>2. events \subseteq events' /\ \A e \in events' : e.run = q => e \in events
  BY DEF Framed
<1>3. RunOK(q)'
  BY <1>1 DEF Local, RunOK
<1>4. SpansOK(q)'
  BY <1>1 DEF Local, SpansOK
<1>5. EventsOK(q)'
  BY <1>1, <1>2 DEF Local, EventsOK, Logged
<1>6. OpenOK(q)'
  BY <1>1 DEF Local, OpenOK
<1> QED
  BY <1>3, <1>4, <1>5, <1>6 DEF Local

(***************************************************************************)
(* Steps that write no span and no event.                                  *)
(***************************************************************************)

\* Such a step of r frames the others and keeps every span.
LEMMA QuietOK ==
  ASSUME TypeOK, NEW r \in Requests, NEW it \in Runs,
         run' = [run EXCEPT ![r] = it], UNCHANGED <<spans, events>>
  PROVE  run' \in [Requests -> Runs] /\ run'[r] = it /\ Framed(r) /\ Lasting
BY DEF TypeOK, Framed, Lasting

\* A run that is over owes nothing but closed spans, if no fault hit it.
LEMMA OverOK ==
  ASSUME NEW r \in Requests,
         run'[r].pc = "over", ~run'[r].gone,
         Len(spans'[r]["tool"]) <= Len(spans'[r]["DiagnosisAgent"]),
         \A e \in events' : e.run = r /\ e.type \in {"agent_enter", "agent_exit"} =>
            e.attempt <= Len(spans'[r][e.node]),
         run'[r].hit \/ \A n \in Names : \A i \in DOMAIN spans'[r][n] : spans'[r][n][i] # "running"
  PROVE  Local(r)'
<1>1. RunOK(r)'
  BY DEF RunOK, InNode, Judged
<1>2. SpansOK(r)'
  BY DEF SpansOK, Before, InNode, Judged, Visited
<1>3. EventsOK(r)'
  BY DEF EventsOK, Visited
<1>4. OpenOK(r)'
  BY DEF OpenOK
<1> QED
  BY <1>1, <1>2, <1>3, <1>4 DEF Local

\* What Over leaves of a run.
LEMMA OverRun ==
  ASSUME NEW it \in Runs
  PROVE  /\ Over(it) \in Runs
         /\ Over(it).pc = "over" /\ ~Over(it).gone
         /\ Over(it).hit = it.hit /\ Over(it).kind = it.kind /\ Over(it).trace = it.trace
BY DEF Over, Runs, Phases, Statuses

\* A store that fails sends a run where its spans and events allow it to be.
LEMMA BrokenOK ==
  ASSUME IInv, NEW r \in Requests, NEW kind, NEW pc \in Phases, NEW result \in Statuses,
         Broken(r, kind, pc, result),
         \/ pc = "over"
         \/ pc = "close" /\ result = "failed" /\ run[r].pc \in {"resume", "close"}
         \/ pc = "return" /\ result = "failed" /\ run[r].pc \in InNode
         \/ pc = "finish" /\ result = "failed" /\ run[r].pc \in {"call", "toolend"}
         \/ pc = "toolend" /\ result = "failed" /\ run[r].pc = "record"
  PROVE  TypeOK' /\ Local(r)' /\ Framed(r) /\ Lasting
<1> DEFINE it == At([run[r] EXCEPT !.result = result, !.hit = TRUE], pc)
<1>0. TypeOK /\ run[r] \in Runs /\ Local(r)
  BY DEF IInv, TypeOK
<1>1. [run[r] EXCEPT !.result = result, !.hit = TRUE] \in Runs
  BY <1>0 DEF Runs
<1>2. it \in Runs /\ it.pc = pc /\ it.hit /\ it.kind = run[r].kind /\ it.trace = run[r].trace
  BY <1>1, OverRun DEF At, Runs
<1>3. run' = [run EXCEPT ![r] = it] /\ UNCHANGED <<thread, opened, spans, events, acted, kept>>
  BY DEF Broken
<1>4. run' \in [Requests -> Runs] /\ run'[r] = it /\ Framed(r) /\ Lasting
  BY <1>0, <1>2, <1>3, QuietOK
<1>5. TypeOK'
  BY <1>0, <1>3, <1>4 DEF TypeOK
<1>6. CASE pc = "over"
  <2>1. ~it.gone
    BY <1>1, <1>6, OverRun DEF At
  <2> QED
    BY <1>0, <1>2, <1>3, <1>4, <1>5, <1>6, <2>1, OverOK DEF Local, SpansOK, EventsOK
<1>7. CASE pc # "over"
  <2>1. /\ it.pc = pc /\ it.at = run[r].at /\ it.result = result
        /\ it.gone = run[r].gone /\ it.answer = run[r].answer
    BY <1>0, <1>7 DEF At, Runs
  <2>2. RunOK(r)'
    BY <1>0, <1>2, <1>4, <1>7, <2>1 DEF Local, RunOK, InNode, Judged
  <2>3. SpansOK(r)'
    BY <1>0, <1>2, <1>3, <1>4, <1>7, <2>1 DEF Local, SpansOK, InNode, Judged, Before, Visited
  <2>4. EventsOK(r)'
    BY <1>0, <1>2, <1>3, <1>4, <1>7, <2>1 DEF Local, EventsOK, Logged, Visited
  <2>5. OpenOK(r)'
    BY <1>2, <1>4 DEF OpenOK
  <2> QED
    BY <1>4, <1>5, <2>2, <2>3, <2>4, <2>5 DEF Local
<1> QED
  BY <1>6, <1>7

\* Accept: a run that has written nothing.
LEMMA AcceptOK ==
  ASSUME IInv, NEW r \in Requests, Accept(r)
  PROVE  TypeOK' /\ Local(r)' /\ Framed(r) /\ Lasting
<1>0. TypeOK /\ run[r] \in Runs /\ Local(r)
  BY DEF IInv, TypeOK
<1>1. PICK kind \in Kinds \ {"none"} :
        /\ run[r].pc = "idle"
        /\ run' = [run EXCEPT ![r].pc = "read", ![r].kind = kind]
  BY DEF Accept, Acceptable, Kinds
<1> DEFINE it == [run[r] EXCEPT !.pc = "read", !.kind = kind]
<1>2. it \in Runs
  BY <1>0, <1>1 DEF Runs, Phases, Kinds
<1>3. run' = [run EXCEPT ![r] = it] /\ UNCHANGED <<spans, events>>
  BY <1>0, <1>1 DEF Accept
<1>4. run' \in [Requests -> Runs] /\ run'[r] = it /\ Framed(r) /\ Lasting
  BY <1>0, <1>2, <1>3, QuietOK
<1>5. TypeOK'
  BY <1>0, <1>1, <1>3, <1>4 DEF TypeOK, Accept
<1>6. RunOK(r)'
  BY <1>0, <1>1, <1>4 DEF Local, RunOK, Before, InNode, Judged, Visited, Runs
<1>7. SpansOK(r)'
  BY <1>0, <1>1, <1>3, <1>4 DEF Local, SpansOK, RunOK, Before, InNode, Judged, Visited, Runs
<1>8. EventsOK(r)'
  BY <1>0, <1>1, <1>3, <1>4 DEF Local, EventsOK, Logged, RunOK, Visited, Runs
<1>9. OpenOK(r)'
  BY <1>0, <1>1, <1>3, <1>4 DEF Local, OpenOK, RunOK, SpansOK, Before, InNode, Visited, Runs
<1> QED
  BY <1>4, <1>5, <1>6, <1>7, <1>8, <1>9 DEF Local

\* Blocked: a node has no new span when it is stopped.
LEMMA BlockedOK ==
  ASSUME IInv, NEW r \in Requests, Blocked(r)
  PROVE  TypeOK' /\ Local(r)' /\ Framed(r) /\ Lasting
<1>0. TypeOK /\ run[r] \in Runs /\ Local(r)
  BY DEF IInv, TypeOK
<1>1. PICK result \in {"succeeded", "failed"} :
        /\ run[r].pc = "enter" /\ run[r].at \in {"RiskCheck", "Execute"}
        /\ result = "succeeded" => run[r].at = "Execute"
        /\ run' = [run EXCEPT ![r].pc = "return", ![r].result = result]
  BY DEF Blocked
<1> DEFINE it == [run[r] EXCEPT !.pc = "return", !.result = result]
<1>2. it \in Runs
  BY <1>0, <1>1 DEF Runs, Phases, Statuses
<1>3. run' = [run EXCEPT ![r] = it] /\ UNCHANGED <<spans, events>>
  BY <1>0, <1>1 DEF Blocked
<1>4. run' \in [Requests -> Runs] /\ run'[r] = it /\ Framed(r) /\ Lasting
  BY <1>0, <1>2, <1>3, QuietOK
<1>5. TypeOK'
  BY <1>0, <1>1, <1>3, <1>4 DEF TypeOK, Blocked
<1>6. RunOK(r)'
  BY <1>0, <1>1, <1>4 DEF Local, RunOK, Before, InNode, Judged, Visited, Runs
<1>7. SpansOK(r)'
  BY <1>0, <1>1, <1>3, <1>4 DEF Local, SpansOK, RunOK, Before, InNode, Judged, Visited, Runs
<1>8. EventsOK(r)'
  BY <1>0, <1>1, <1>3, <1>4 DEF Local, EventsOK, Logged, RunOK, Visited, Runs, SpansOK
<1>9. OpenOK(r)'
  BY <1>0, <1>1, <1>3, <1>4 DEF Local, OpenOK, RunOK, SpansOK, Before, InNode, Visited, Runs
<1> QED
  BY <1>4, <1>5, <1>6, <1>7, <1>8, <1>9 DEF Local

\* Call: the node's span stays open until NodeEnd.
LEMMA CallOK ==
  ASSUME IInv, NEW r \in Requests, Call(r)
  PROVE  TypeOK' /\ Local(r)' /\ Framed(r) /\ Lasting
<1>0. TypeOK /\ run[r] \in Runs /\ Local(r)
  BY DEF IInv, TypeOK
<1>1. PICK result \in Outcomes(r) :
        /\ run[r].pc = "call" /\ run[r].at # "DiagnosisAgent"
        /\ run' = [run EXCEPT ![r].pc = "finish", ![r].result = result, ![r].answer = FALSE]
  BY DEF Call
<1> DEFINE it == [run[r] EXCEPT !.pc = "finish", !.result = result, !.answer = FALSE]
<1>2. it \in Runs
  BY <1>0, <1>1 DEF Runs, Phases, Statuses, Outcomes
<1>3. run' = [run EXCEPT ![r] = it] /\ UNCHANGED <<spans, events>>
  BY <1>0, <1>1 DEF Call
<1>4. run' \in [Requests -> Runs] /\ run'[r] = it /\ Framed(r) /\ Lasting
  BY <1>0, <1>2, <1>3, QuietOK
<1>5. TypeOK'
  BY <1>0, <1>1, <1>3, <1>4 DEF TypeOK, Call
<1>6. RunOK(r)'
  BY <1>0, <1>1, <1>4 DEF Local, RunOK, Before, InNode, Judged, Visited, Runs, Outcomes
<1>7. SpansOK(r)'
  BY <1>0, <1>1, <1>3, <1>4 DEF Local, SpansOK, RunOK, Before, InNode, Judged, Visited, Runs, Outcomes
<1>8. EventsOK(r)'
  BY <1>0, <1>1, <1>3, <1>4 DEF Local, EventsOK, Logged, RunOK, Visited, Runs, Outcomes
<1>9. OpenOK(r)'
  BY <1>0, <1>1, <1>3, <1>4 DEF Local, OpenOK, RunOK, SpansOK, Before, InNode, Visited, Runs
<1> QED
  BY <1>4, <1>5, <1>6, <1>7, <1>8, <1>9 DEF Local

\* Snapshot: the nodes are over.
LEMMA SnapshotOK ==
  ASSUME IInv, NEW r \in Requests, Snapshot(r)
  PROVE  TypeOK' /\ Local(r)' /\ Framed(r) /\ Lasting
<1>0. TypeOK /\ run[r] \in Runs /\ Local(r)
  BY DEF IInv, TypeOK
<1> DEFINE it == [run[r] EXCEPT !.pc = "close",
                              !.result = IF thread = "waiting" THEN "interrupted" ELSE "succeeded"]
<1>2. it \in Runs
  BY <1>0 DEF Runs, Phases, Statuses
<1>3. run' = [run EXCEPT ![r] = it] /\ UNCHANGED <<spans, events>>
  BY <1>0 DEF Snapshot
<1>4. run' \in [Requests -> Runs] /\ run'[r] = it /\ Framed(r) /\ Lasting
  BY <1>0, <1>2, <1>3, QuietOK
<1>5. TypeOK'
  BY <1>0, <1>3, <1>4 DEF TypeOK, Snapshot
<1>6. RunOK(r)'
  BY <1>0, <1>4 DEF Local, RunOK, Before, InNode, Judged, Visited, Runs, Snapshot
<1>7. SpansOK(r)'
  BY <1>0, <1>3, <1>4 DEF Local, SpansOK, RunOK, Before, InNode, Judged, Visited, Runs, Snapshot
<1>8. EventsOK(r)'
  BY <1>0, <1>3, <1>4 DEF Local, EventsOK, Logged, RunOK, Visited, Runs, Snapshot
<1>9. OpenOK(r)'
  BY <1>0, <1>3, <1>4 DEF Local, OpenOK, RunOK, SpansOK, Before, InNode, Visited, Runs, Snapshot
<1> QED
  BY <1>4, <1>5, <1>6, <1>7, <1>8, <1>9 DEF Local

\* ReadTrace: the trace of an incident is a trace id.
LEMMA ReadTraceOK ==
  ASSUME IInv, NEW r \in Requests, ReadTrace(r)
  PROVE  TypeOK' /\ Local(r)' /\ Framed(r) /\ Lasting
<1>0. TypeOK /\ run[r] \in Runs /\ Local(r) /\ run[r].pc = "read"
  BY DEF IInv, TypeOK, ReadTrace
<1>a. CASE Broken(r, "trace", "over", "running")
  BY <1>a, BrokenOK DEF Phases, Statuses
<1>b. CASE ~Broken(r, "trace", "over", "running")
  <2> DEFINE it == [run[r] EXCEPT !.pc = "open", !.trace = TraceOfIncident(r)]
  <2>1. opened # <<>> => opened[1] \in Requests
    BY <1>0 DEF TypeOK
  <2>2. TraceOfIncident(r) \in Requests \union {None}
    BY <1>0, <2>1 DEF TraceOfIncident, TypeOK, Runs
  <2>3. it \in Runs
    BY <1>0, <2>2 DEF Runs, Phases
  <2>4. /\ run' = [run EXCEPT ![r] = it]
        /\ UNCHANGED <<thread, opened, spans, events, acted, kept>>
    BY <1>0, <1>b DEF ReadTrace
  <2>5. run' \in [Requests -> Runs] /\ run'[r] = it /\ Framed(r) /\ Lasting
    BY <1>0, <2>3, <2>4, QuietOK
  <2>6. TypeOK'
    BY <1>0, <2>4, <2>5 DEF TypeOK
  <2>7. RunOK(r)'
    BY <1>0, <2>5 DEF Local, RunOK, InNode, Judged, Runs
  <2>8. SpansOK(r)'
    BY <1>0, <2>4, <2>5 DEF Local, SpansOK, Before, InNode, Judged, Visited, Runs
  <2>9. EventsOK(r)'
    BY <1>0, <2>4, <2>5 DEF Local, EventsOK, Visited, Runs
  <2>10. OpenOK(r)'
    BY <1>0, <2>4, <2>5 DEF Local, OpenOK, InNode, Visited, Runs
  <2> QED
    BY <2>5, <2>6, <2>7, <2>8, <2>9, <2>10 DEF Local
<1> QED
  BY <1>a, <1>b

\* Load: no node of this run has a span yet, wherever the thread is.
LEMMA LoadOK ==
  ASSUME IInv, NEW r \in Requests, Load(r)
  PROVE  TypeOK' /\ Local(r)' /\ Framed(r) /\ Lasting
<1>0. TypeOK /\ run[r] \in Runs /\ Local(r) /\ run[r].pc = "load"
  BY DEF IInv, TypeOK, Load
<1> DEFINE from   == IF run[r].kind = "start" THEN "Supervisor" ELSE thread
           node   == NodeOf(from)
           answer == run[r].kind = "decision" /\ node = "Approval"
           it     == [run[r] EXCEPT !.pc = IF from = "end" THEN "snapshot" ELSE "enter",
                                    !.at = node, !.answer = answer]
<1>1. from \in Threads /\ from # "none"
  <2>1. run[r].kind \in Kinds /\ run[r].kind # "none"
    BY <1>0 DEF Local, RunOK, Runs
  <2>2. run[r].kind \in {"decision", "retry"} => thread # "none"
    BY DEF IInv, TraceOK
  <2> QED
    BY <1>0, <2>1, <2>2 DEF TypeOK, Kinds, Threads, Nodes
<1>2. node \in Nodes \union {"end"} /\ (from # "end" => node \in Nodes)
  BY <1>1 DEF NodeOf, Threads, Nodes
<1>3. thread' = from /\ run' = [run EXCEPT ![r] = it] /\ UNCHANGED <<opened, spans, events, acted, kept>>
  BY <1>0 DEF Load
<1>4. answer \in BOOLEAN
  OBVIOUS
<1> HIDE DEF node, answer, from
<1>5. it \in Runs
  BY <1>0, <1>2, <1>4 DEF Runs, Phases
<1>6. run' \in [Requests -> Runs] /\ run'[r] = it /\ Framed(r) /\ Lasting
  BY <1>0, <1>3, <1>5, QuietOK
<1>7. TypeOK'
  BY <1>0, <1>1, <1>3, <1>6 DEF TypeOK
<1>8. /\ it.pc = (IF from = "end" THEN "snapshot" ELSE "enter") /\ it.at = node
      /\ it.gone = run[r].gone /\ it.hit = run[r].hit /\ it.kind = run[r].kind
  BY <1>0 DEF Runs
<1> HIDE DEF it
<1>9. RunOK(r)'
  BY <1>0, <1>2, <1>6, <1>8 DEF Local, RunOK, InNode, Judged
<1>10. \A n \in Nodes \union {"tool"} : Len(spans'[r][n]) = 0
  BY <1>0, <1>3 DEF Local, SpansOK, Before, Nodes, Names
<1>11. SpansOK(r)'
  <2>1. Ahead(node) \subseteq Nodes
    BY DEF Ahead, Nodes
  <2> QED
    BY <1>2, <1>6, <1>8, <1>10, <2>1, AttemptAssumption
       DEF SpansOK, Before, InNode, Judged, Visited, Nodes
<1>12. EventsOK(r)'
  BY <1>0, <1>3, <1>6, <1>8 DEF Local, EventsOK, Visited
<1>13. OpenOK(r)'
  BY <1>0, <1>3, <1>6, <1>8 DEF Local, OpenOK, InNode, Visited
<1> QED
  BY <1>6, <1>7, <1>9, <1>11, <1>12, <1>13 DEF Local

\* Save: the next node is one the run has not visited, or the one it may revisit.
LEMMA SaveOK ==
  ASSUME IInv, NEW r \in Requests, run[r].pc = "return", Save(r)
  PROVE  TypeOK' /\ Local(r)' /\ Framed(r) /\ Lasting
<1>0. TypeOK /\ run[r] \in Runs /\ Local(r) /\ run[r].at \in Nodes
  BY DEF IInv, TypeOK, Local, RunOK, InNode
<1>1. PICK next \in After(r) :
        /\ thread' = next
        /\ run' = [run EXCEPT ![r].at = NodeOf(next),
                              ![r].pc = IF next = "end" THEN "snapshot" ELSE "enter"]
  BY DEF Save
<1> DEFINE node == NodeOf(next)
           it   == [run[r] EXCEPT !.at = node, !.pc = IF next = "end" THEN "snapshot" ELSE "enter"]
<1>2. /\ next \in Threads \ {"none"}
      /\ node \in Nodes \union {"end"}
      /\ next # "end" => /\ node \in Ahead(run[r].at) \union {"DiagnosisAgent"}
                         /\ Ahead(node) \subseteq Ahead(run[r].at)
                         /\ node = run[r].at => node = "DiagnosisAgent" /\ MayRevisit(r)
  <2>1. CASE run[r].at = "Supervisor"
    BY <1>1, <2>1 DEF After, NodeOf, Threads, Ahead, Nodes
  <2>2. CASE run[r].at = "DiagnosisAgent"
    BY <1>1, <2>2 DEF After, NodeOf, Threads, Ahead, Nodes
  <2>3. CASE run[r].at = "RiskCheck"
    BY <1>1, <2>3 DEF After, NodeOf, Threads, Ahead, Nodes
  <2>4. CASE run[r].at = "Approval"
    BY <1>1, <2>4 DEF After, NodeOf, Threads, Ahead, Nodes
  <2>5. CASE run[r].at = "Execute"
    BY <1>1, <2>5 DEF After, NodeOf, Threads, Ahead, Nodes
  <2>6. CASE run[r].at = "ReportAgent"
    BY <1>1, <2>6 DEF After, NodeOf, Threads, Ahead, Nodes
  <2> QED
    BY <1>0, <2>1, <2>2, <2>3, <2>4, <2>5, <2>6 DEF Nodes
<1>4. run' = [run EXCEPT ![r] = it] /\ UNCHANGED <<opened, spans, events, acted>>
  BY <1>0, <1>1 DEF Save
<1> HIDE DEF node
<1>5. it \in Runs
  BY <1>0, <1>2 DEF Runs, Phases
<1>6. run' \in [Requests -> Runs] /\ run'[r] = it /\ Framed(r) /\ Lasting
  BY <1>0, <1>4, <1>5, QuietOK
<1>7. kept' \subseteq Requests \X Nodes \X (1 .. MaxAttempts)
  <2>1. Attempt(r, run[r].at) \in Nat /\ Attempt(r, run[r].at) <= MaxAttempts
    BY <1>0 DEF TypeOK, Attempt, Names
  <2> QED
    BY <1>0, <2>1, AttemptAssumption DEF Save, TypeOK
<1>8. TypeOK'
  BY <1>0, <1>1, <1>2, <1>4, <1>6, <1>7 DEF TypeOK
<1>9. /\ it.pc = (IF next = "end" THEN "snapshot" ELSE "enter") /\ it.at = node
      /\ it.gone = run[r].gone /\ it.hit = run[r].hit /\ it.kind = run[r].kind
  BY <1>0 DEF Runs
<1> HIDE DEF it
<1>10. RunOK(r)'
  <2>1. next # "end" => node \in Nodes
    BY <1>2 DEF Ahead, Nodes
  <2> QED
    BY <1>0, <1>6, <1>9, <2>1 DEF Local, RunOK, InNode, Judged
<1>11. SpansOK(r)'
  <2>1. \A n \in Ahead(run[r].at) : Len(spans[r][n]) = 0
    BY <1>0 DEF Local, SpansOK, InNode
  <2>2. next # "end" /\ node # "DiagnosisAgent" => Len(spans[r][node]) = 0
    BY <1>2, <2>1
  <2>3. next # "end" => Len(spans[r][node]) < MaxAttempts
    <3>1. CASE node = run[r].at
      BY <1>2, <3>1 DEF MayRevisit, Attempt
    <3>2. CASE node # run[r].at /\ node \in Ahead(run[r].at)
      BY <2>1, <3>2, AttemptAssumption
    <3>3. CASE next # "end" /\ node = "DiagnosisAgent" /\ node # run[r].at
      <4>1. run[r].at = "Supervisor"
        BY <1>0, <1>1, <3>3 DEF After, NodeOf, Nodes, node
      <4> QED
        BY <2>1, <3>3, <4>1, AttemptAssumption DEF Ahead, Nodes
    <3> QED
      BY <1>2, <3>1, <3>2, <3>3
  <2> QED
    BY <1>0, <1>2, <1>4, <1>6, <1>9, <2>1, <2>2, <2>3
       DEF Local, SpansOK, Before, InNode, Judged, Visited
<1>12. EventsOK(r)'
  BY <1>0, <1>4, <1>6, <1>9 DEF Local, EventsOK, Visited
<1>13. OpenOK(r)'
  BY <1>0, <1>4, <1>6, <1>9 DEF Local, OpenOK, InNode, Visited
<1> QED
  BY <1>6, <1>8, <1>10, <1>11, <1>12, <1>13 DEF Local

\* Return: the update of a node is saved, waits, is tried again, fails or is dropped.
LEMMA ReturnOK ==
  ASSUME IInv, NEW r \in Requests, Return(r)
  PROVE  TypeOK' /\ Local(r)' /\ Framed(r) /\ Lasting
<1>0. TypeOK /\ run[r] \in Runs /\ Local(r) /\ run[r].pc = "return"
  BY DEF IInv, TypeOK, Return
<1>a. CASE Save(r) /\ ~run[r].gone
  BY <1>0, <1>a, SaveOK
<1>b. CASE Drop(r) /\ run[r].gone
  <2> DEFINE it == Over(run[r])
  <2>1. it \in Runs /\ it.pc = "over" /\ ~it.gone /\ it.hit
    BY <1>0, <1>b, OverRun DEF Local, RunOK
  <2>2. run' = [run EXCEPT ![r] = it] /\ UNCHANGED <<thread, opened, spans, events, acted, kept>>
    BY <1>b DEF Drop, Goto, At
  <2> HIDE DEF it
  <2>3. run' \in [Requests -> Runs] /\ run'[r] = it /\ Framed(r) /\ Lasting
    BY <1>0, <2>1, <2>2, QuietOK
  <2>4. TypeOK'
    BY <1>0, <2>2, <2>3 DEF TypeOK
  <2>5. Local(r)'
    BY <1>0, <2>1, <2>2, <2>3, OverOK DEF Local, SpansOK, EventsOK
  <2> QED
    BY <2>3, <2>4, <2>5
<1>c. CASE (Interrupt(r) \/ Retry(r) \/ Raise(r)) /\ ~run[r].gone
  <2>1. PICK pc \in {"snapshot", "enter", "close"} :
          /\ run' = [run EXCEPT ![r] = [run[r] EXCEPT !.pc = pc]]
          /\ pc = "enter" => run[r].result = "retry"
          /\ pc = "close" => run[r].result = "failed"
    BY <1>c DEF Interrupt, Retry, Raise, Goto, At
  <2>2. thread' \in {thread, "waiting"} /\ UNCHANGED <<opened, spans, events, acted, kept>>
    BY <1>c DEF Interrupt, Retry, Raise
  <2> DEFINE it == [run[r] EXCEPT !.pc = pc]
  <2>3. it \in Runs
    BY <1>0 DEF Runs, Phases
  <2>4. run' \in [Requests -> Runs] /\ run'[r] = it /\ Framed(r) /\ Lasting
    BY <1>0, <2>1, <2>2, <2>3, QuietOK
  <2>5. TypeOK'
    BY <1>0, <2>2, <2>4 DEF TypeOK, Threads
  <2>6. RunOK(r)'
    BY <1>0, <2>1, <2>4 DEF Local, RunOK, InNode, Judged, Runs
  <2>7. SpansOK(r)'
    BY <1>0, <2>1, <2>2, <2>4 DEF Local, SpansOK, RunOK, Before, InNode, Judged, Visited, Runs
  <2>8. EventsOK(r)'
    BY <1>0, <2>1, <2>2, <2>4 DEF Local, EventsOK, Visited, Runs
  <2>9. OpenOK(r)'
    BY <1>0, <2>1, <2>2, <2>4 DEF Local, OpenOK, InNode, Visited, Runs
  <2> QED
    BY <2>4, <2>5, <2>6, <2>7, <2>8, <2>9 DEF Local
<1> QED
  BY <1>0, <1>a, <1>b, <1>c DEF Return

\* Disconnect: only the workflow span may end, and the run is hit from now on.
LEMMA DisconnectOK ==
  ASSUME IInv, NEW r \in Requests, Disconnect(r)
  PROVE  TypeOK' /\ Local(r)' /\ Framed(r) /\ Lasting
<1>0. TypeOK /\ run[r] \in Runs /\ Local(r) /\ run[r].pc \notin {"idle", "over"}
  BY DEF IInv, TypeOK, Disconnect, InFlight
<1>1. UNCHANGED <<thread, opened, events, acted, kept>>
  BY DEF Disconnect
<1>2. /\ spans' \in [Requests -> [Names -> Seq(Statuses)]]
      /\ \A q \in Requests : q # r => spans'[q] = spans[q]
      /\ \A n \in Names : n # "workflow" => spans'[r][n] = spans[r][n]
      /\ Len(spans'[r]["workflow"]) = Len(spans[r]["workflow"])
      /\ Lasting
  <2>1. CASE UNCHANGED spans
    BY <1>0, <2>1 DEF TypeOK, Lasting
  <2>2. CASE FinishSpan(r, "workflow", "interrupted")
    <3>1. "workflow" \in Names /\ "interrupted" \in Statuses
      BY DEF Names, Statuses
    <3> QED
      BY <1>0, <2>2, <3>1, FinishSpanOK
  <2> QED
    BY <2>1, <2>2 DEF Disconnect
<1>3. PICK it \in Runs :
        /\ run' = [run EXCEPT ![r] = it]
        /\ it.hit /\ it.kind = run[r].kind /\ it.trace = run[r].trace
        /\ \/ /\ it.pc = run[r].pc /\ it.at = run[r].at /\ it.result = run[r].result /\ it.gone
           \/ it.pc = "over" /\ ~it.gone
  <2>1. CASE run' = [run EXCEPT ![r].gone = TRUE, ![r].hit = TRUE]
    <3> DEFINE it == [run[r] EXCEPT !.gone = TRUE, !.hit = TRUE]
    <3>1. it \in Runs /\ run' = [run EXCEPT ![r] = it]
      BY <1>0, <2>1 DEF Runs
    <3>2. /\ it.hit /\ it.gone /\ it.pc = run[r].pc /\ it.at = run[r].at /\ it.result = run[r].result
          /\ it.kind = run[r].kind /\ it.trace = run[r].trace
      BY <1>0 DEF Runs
    <3> HIDE DEF it
    <3> QED
      BY <3>1, <3>2
  <2>2. CASE run' = [run EXCEPT ![r] = Over([@ EXCEPT !.hit = TRUE])]
    <3> DEFINE hit == [run[r] EXCEPT !.hit = TRUE]
    <3>1. hit \in Runs /\ hit.hit /\ hit.kind = run[r].kind /\ hit.trace = run[r].trace
      BY <1>0 DEF Runs
    <3>2. run' = [run EXCEPT ![r] = Over(hit)]
      BY <2>2
    <3> HIDE DEF hit
    <3> QED
      BY <3>1, <3>2, OverRun
  <2> QED
    BY <2>1, <2>2 DEF Disconnect
<1>4. run' \in [Requests -> Runs] /\ run'[r] = it /\ \A q \in Requests : q # r => run'[q] = run[q]
  BY <1>0, <1>3 DEF TypeOK
<1>5. \A q \in Requests, n \in Names : Len(spans'[q][n]) = Len(spans[q][n])
  BY <1>2
<1>6. TypeOK'
  BY <1>0, <1>1, <1>2, <1>4, <1>5 DEF TypeOK
<1>7. Framed(r)
  BY <1>1, <1>2, <1>4 DEF Framed
<1>8. CASE it.pc = "over"
  <2>1. \A e \in events : e.node \in Names
    BY <1>0 DEF TypeOK, Events
  <2>2. \A e \in events' : e.run = r /\ e.type \in {"agent_enter", "agent_exit"} =>
          e.attempt <= Len(spans'[r][e.node])
    BY <1>0, <1>1, <1>5, <2>1 DEF Local, EventsOK
  <2>3. Len(spans'[r]["tool"]) <= Len(spans'[r]["DiagnosisAgent"])
    BY <1>0, <1>5 DEF Local, SpansOK, Names, Nodes
  <2>4. run'[r].pc = "over" /\ ~run'[r].gone /\ run'[r].hit
    BY <1>3, <1>4, <1>8, <1>0 DEF InFlight
  <2> QED
    BY <1>2, <1>6, <1>7, <2>2, <2>3, <2>4, OverOK
<1>9. CASE it.pc # "over"
  <2>0. it.pc = run[r].pc /\ it.at = run[r].at /\ it.result = run[r].result
    BY <1>3, <1>9
  <2>1. RunOK(r)'
    BY <1>0, <1>3, <1>4, <1>9 DEF Local, RunOK
  <2>2. it.at \in Nodes => it.at \in Names /\ it.at # "workflow" /\ Ahead(it.at) \subseteq Names
    BY DEF Names, Nodes, Ahead
  <2>3. SpansOK(r)'
    <3>1. it.pc \in InNode => it.at \in Nodes
      BY <1>0, <2>0 DEF Local, RunOK
    <3>2. it.pc \in InNode => spans'[r][it.at] = spans[r][it.at]
      BY <1>2, <2>2, <3>1
    <3>3. {"workflow", "tool", "DiagnosisAgent"} \subseteq Names
      BY DEF Names, Nodes
    <3>4. Visited \subseteq InNode /\ {"enter", "span", "exit", "record", "toolend"} \subseteq InNode
          /\ Judged \subseteq InNode
      BY DEF Visited, InNode, Judged
    <3> QED
      BY <1>0, <1>4, <1>5, <2>0, <2>2, <3>1, <3>2, <3>3, <3>4 DEF Local, SpansOK
  <2>4. EventsOK(r)'
    <3>1. it.pc \in InNode => it.at \in Nodes
      BY <1>0, <2>0 DEF Local, RunOK
    <3>2. \A e \in events : e.node \in Names
      BY <1>0 DEF TypeOK, Events
    <3> QED
      BY <1>0, <1>1, <1>2, <1>4, <1>5, <2>0, <2>2, <3>1, <3>2
         DEF Local, EventsOK, InNode, Visited, Logged
  <2>5. OpenOK(r)'
    BY <1>3, <1>4 DEF OpenOK
  <2> QED
    BY <1>2, <1>6, <1>7, <2>1, <2>3, <2>4, <2>5 DEF Local
<1> QED
  BY <1>8, <1>9

\* Restart: runs that were in flight are hit and over.
LEMMA RestartOK ==
  ASSUME IInv, Restart
  PROVE  TypeOK' /\ (\A r \in Requests : Local(r)') /\ Lasting
<1>0. TypeOK /\ UNCHANGED <<thread, opened, spans, events, acted, kept>>
  BY DEF IInv, Restart
<1>1. ASSUME NEW r \in Requests
      PROVE  run'[r] \in Runs /\ Local(r)'
  <2>0. run[r] \in Runs /\ Local(r)
    BY DEF IInv, TypeOK
  <2>1. CASE InFlight(r)
    <3> DEFINE it == [run[r] EXCEPT !.hit = TRUE]
    <3>1. it \in Runs /\ it.hit
      BY <2>0 DEF Runs
    <3>2. run'[r] = Over(it)
      BY <2>1 DEF Restart
    <3> HIDE DEF it
    <3>3. run'[r] \in Runs /\ run'[r].pc = "over" /\ ~run'[r].gone /\ run'[r].hit
      BY <3>1, <3>2, OverRun
    <3> QED
      BY <1>0, <2>0, <3>3, OverOK DEF Local, SpansOK, EventsOK
  <2>2. CASE ~InFlight(r)
    <3>1. run'[r] = run[r]
      BY <2>2 DEF Restart
    <3> QED
      BY <1>0, <2>0, <3>1 DEF Local, RunOK, SpansOK, EventsOK, OpenOK, Logged
  <2> QED
    BY <2>1, <2>2
<1>2. run' \in [Requests -> Runs]
  BY <1>1 DEF Restart
<1> QED
  BY <1>0, <1>1, <1>2 DEF TypeOK, Lasting

(***************************************************************************)
(* Steps that write to a store.                                            *)
(***************************************************************************)

\* Goto changes nothing but the phase, unless the run is over.
LEMMA GotoOK ==
  ASSUME TypeOK, NEW r \in Requests, NEW pc \in Phases, Goto(r, pc)
  PROVE  /\ run' \in [Requests -> Runs]
         /\ \A q \in Requests : q # r => run'[q] = run[q]
         /\ run'[r].pc = pc
         /\ run'[r].hit = run[r].hit /\ run'[r].kind = run[r].kind /\ run'[r].trace = run[r].trace
         /\ pc = "over" => ~run'[r].gone
         /\ pc # "over" => /\ run'[r].at = run[r].at /\ run'[r].result = run[r].result
                           /\ run'[r].gone = run[r].gone
<1>1. run[r] \in Runs
  BY DEF TypeOK
<1>2. CASE pc = "over"
  <2>1. run' = [run EXCEPT ![r] = Over(run[r])]
    BY <1>2 DEF Goto, At
  <2> QED
    BY <1>1, <1>2, <2>1, OverRun DEF TypeOK
<1>3. CASE pc # "over"
  <2>1. run' = [run EXCEPT ![r] = [run[r] EXCEPT !.pc = pc]]
    BY <1>3 DEF Goto, At
  <2>2. [run[r] EXCEPT !.pc = pc] \in Runs
    BY <1>1 DEF Runs
  <2> QED
    BY <1>1, <1>3, <2>1, <2>2 DEF TypeOK, Runs
<1> QED
  BY <1>2, <1>3

\* Names that lemmas about the stores ask for.
LEMMA NamesOK ==
  /\ Nodes \subseteq Names /\ {"workflow", "tool"} \subseteq Names /\ Agents \subseteq Nodes
  /\ "workflow" \notin Nodes /\ "tool" \notin Nodes
  /\ \A n : Ahead(n) \subseteq Nodes /\ n \notin Ahead(n)
BY DEF Names, Nodes, Agents, Ahead

\* OpenWorkflow: the first span of the run.
LEMMA OpenWorkflowOK ==
  ASSUME IInv, NEW r \in Requests, OpenWorkflow(r)
  PROVE  TypeOK' /\ Local(r)' /\ Framed(r) /\ Lasting
<1>0. TypeOK /\ run[r] \in Runs /\ Local(r) /\ run[r].pc = "open"
  BY DEF IInv, TypeOK, OpenWorkflow
<1>a. CASE Broken(r, "trace", "over", "running")
  BY <1>a, BrokenOK DEF Phases, Statuses
<1>b. CASE ~Broken(r, "trace", "over", "running")
  <2> DEFINE pc == IF run[r].gone THEN "over" ELSE IF run[r].kind = "start" THEN "load" ELSE "resume"
  <2>1. /\ StartSpan(r, "workflow")
        /\ opened' = Append(opened, r)
        /\ Goto(r, pc)
        /\ UNCHANGED <<thread, events, acted, kept>>
    BY <1>b DEF OpenWorkflow, Continue
  <2>2. pc \in Phases
    BY DEF Phases
  <2>3. /\ spans' \in [Requests -> [Names -> Seq(Statuses)]]
        /\ \A q \in Requests : q # r => spans'[q] = spans[q]
        /\ \A n \in Names : n # "workflow" => spans'[r][n] = spans[r][n]
        /\ Len(spans'[r]["workflow"]) = 1
        /\ Lasting
    <3>1. "workflow" \in Names /\ Len(spans[r]["workflow"]) = 0
      BY <1>0, NamesOK DEF Local, SpansOK
    <3>2. Len(spans'[r]["workflow"]) = Len(spans[r]["workflow"]) + 1
      BY <1>0, <2>1, <3>1, StartSpanOK
    <3>3. /\ spans' \in [Requests -> [Names -> Seq(Statuses)]]
          /\ \A q \in Requests : q # r => spans'[q] = spans[q]
          /\ \A n \in Names : n # "workflow" => spans'[r][n] = spans[r][n]
          /\ Lasting
      BY <1>0, <2>1, <3>1, StartSpanOK
    <3> QED
      BY <3>1, <3>2, <3>3
  <2>4. \A n \in Names : n # "workflow" => Len(spans'[r][n]) = 0
    BY <1>0, <2>3 DEF Local, SpansOK, Before
  <2>5. /\ run' \in [Requests -> Runs]
        /\ \A q \in Requests : q # r => run'[q] = run[q]
        /\ run'[r].pc = pc
        /\ run'[r].hit = run[r].hit /\ run'[r].kind = run[r].kind
        /\ pc = "over" => ~run'[r].gone
        /\ pc # "over" => run'[r].gone = run[r].gone
    BY <1>0, <2>1, <2>2, GotoOK
  <2>6. TypeOK'
    <3>1. \A q \in Requests, n \in Names : Len(spans[q][n]) <= MaxAttempts
      BY <1>0 DEF TypeOK
    <3>2. 0 <= MaxAttempts /\ 1 <= MaxAttempts
      BY AttemptAssumption
    <3>3. \A q \in Requests, n \in Names : Len(spans'[q][n]) <= MaxAttempts
      BY <2>3, <2>4, <3>1, <3>2
    <3> QED
      BY <1>0, <2>1, <2>3, <2>5, <3>3 DEF TypeOK
  <2>7. Framed(r)
    BY <2>1, <2>3, <2>5 DEF Framed
  <2>8. \A e \in events' : e.run = r /\ e.type \in {"agent_enter", "agent_exit"} =>
           e.attempt <= Len(spans'[r][e.node])
    <3> SUFFICES ASSUME NEW e \in events, e.run = r, e.type \in {"agent_enter", "agent_exit"}
                 PROVE  e.attempt <= Len(spans'[r][e.node])
      BY <2>1
    <3>1. e.attempt <= Len(spans[r][e.node]) /\ e.node \in Names /\ e.attempt \in 1 .. MaxAttempts
      BY <1>0 DEF Local, EventsOK, TypeOK, Events
    <3>2. Len(spans[r][e.node]) = 0
      BY <1>0, <3>1 DEF Local, SpansOK, Before
    <3> QED
      BY <3>1, <3>2
  <2>9. CASE run[r].gone
    <3>1. run'[r].hit
      BY <1>0, <2>5, <2>9 DEF Local, RunOK
    <3>2. Len(spans'[r]["tool"]) <= Len(spans'[r]["DiagnosisAgent"])
      BY <2>4 DEF Names, Nodes
    <3> HIDE DEF pc
    <3>3. pc = "over"
      BY <2>9 DEF pc
    <3> QED
      BY <2>3, <2>5, <2>6, <2>7, <2>8, <3>1, <3>2, <3>3, OverOK
  <2>10. CASE ~run[r].gone
    <3>1. pc \in {"load", "resume"}
      BY <2>10
    <3> HIDE DEF pc
    <3>2. RunOK(r)'
      BY <1>0, <2>5, <3>1 DEF Local, RunOK, InNode, Judged
    <3>3. SpansOK(r)'
      BY <2>4, <2>5, <3>1 DEF SpansOK, Before, InNode, Judged, Visited, Names, Nodes
    <3>4. EventsOK(r)'
      BY <2>5, <2>8, <3>1 DEF EventsOK, Visited
    <3>5. OpenOK(r)'
      <4>1. \A n \in Names : n # "workflow" => DOMAIN spans'[r][n] = {}
        BY <2>3, <2>4
      <4>2. DOMAIN spans'[r]["workflow"] = {1}
        BY <2>3, NamesOK
      <4> QED
        BY <2>3, <2>5, <3>1, <4>1, <4>2 DEF OpenOK
    <3> QED
      BY <2>3, <2>6, <2>7, <3>2, <3>3, <3>4, <3>5 DEF Local
  <2> QED
    BY <2>9, <2>10
<1> QED
  BY <1>a, <1>b

\* A step that records an event.
LEMMA RecordStepOK ==
  ASSUME TypeOK, NEW r \in Requests, NEW n \in Names, NEW type \in Types,
         NEW a \in 1 .. MaxAttempts, NEW status \in Statuses \union {"resumed"},
         Record(r, n, type, a, status),
         run' \in [Requests -> Runs], \A q \in Requests : q # r => run'[q] = run[q],
         UNCHANGED <<thread, opened, spans, acted, kept>>
  PROVE  TypeOK' /\ Framed(r) /\ Lasting
<1>1. /\ events' \subseteq Events /\ events \subseteq events'
      /\ \A e \in events' \ events : e.run = r
  BY RecordOK
<1>2. TypeOK'
  BY <1>1 DEF TypeOK
<1>3. Framed(r)
  BY <1>1 DEF Framed
<1>4. Lasting
  BY DEF Lasting
<1> QED
  BY <1>2, <1>3, <1>4

\* A step that starts a span.
LEMMA StartStepOK ==
  ASSUME TypeOK, NEW r \in Requests, NEW n \in Names, Len(spans[r][n]) < MaxAttempts,
         StartSpan(r, n),
         run' \in [Requests -> Runs], \A q \in Requests : q # r => run'[q] = run[q],
         UNCHANGED <<thread, opened, events, acted, kept>>
  PROVE  TypeOK' /\ Framed(r) /\ Lasting
<1>1. /\ spans' \in [Requests -> [Names -> Seq(Statuses)]]
      /\ \A q \in Requests : q # r => spans'[q] = spans[q]
      /\ \A m \in Names : m # n => spans'[r][m] = spans[r][m]
      /\ Len(spans'[r][n]) = Len(spans[r][n]) + 1
      /\ Lasting
  BY StartSpanOK
<1>2. \A q \in Requests, m \in Names : Len(spans[q][m]) <= MaxAttempts /\ Len(spans[q][m]) \in Nat
  BY DEF TypeOK
<1>3. \A q \in Requests, m \in Names : Len(spans'[q][m]) <= MaxAttempts
  <2> SUFFICES ASSUME NEW q \in Requests, NEW m \in Names
               PROVE  Len(spans'[q][m]) <= MaxAttempts
    OBVIOUS
  <2>1. CASE q = r /\ m = n
    BY <2>1, <1>1, <1>2, AttemptAssumption
  <2>2. CASE ~(q = r /\ m = n)
    BY <2>2, <1>1, <1>2
  <2> QED
    BY <2>1, <2>2
<1>4. TypeOK'
  BY <1>1, <1>3 DEF TypeOK
<1>5. Framed(r)
  BY <1>1 DEF Framed
<1> QED
  BY <1>1, <1>4, <1>5

\* A step that finishes a span.
LEMMA FinishStepOK ==
  ASSUME TypeOK, NEW r \in Requests, NEW n \in Names, NEW status \in Statuses,
         FinishSpan(r, n, status),
         run' \in [Requests -> Runs], \A q \in Requests : q # r => run'[q] = run[q],
         UNCHANGED <<thread, opened, events, acted, kept>>
  PROVE  /\ TypeOK' /\ Framed(r) /\ Lasting
         /\ \A m \in Names : Len(spans'[r][m]) = Len(spans[r][m])
<1>1. /\ spans' \in [Requests -> [Names -> Seq(Statuses)]]
      /\ \A q \in Requests : q # r => spans'[q] = spans[q]
      /\ \A m \in Names : m # n => spans'[r][m] = spans[r][m]
      /\ Len(spans'[r][n]) = Len(spans[r][n])
      /\ Lasting
  BY FinishSpanOK
<1>2. \A q \in Requests, m \in Names : Len(spans'[q][m]) = Len(spans[q][m])
  BY <1>1
<1>3. TypeOK'
  BY <1>1, <1>2 DEF TypeOK
<1>4. Framed(r)
  BY <1>1 DEF Framed
<1> QED
  BY <1>1, <1>2, <1>3, <1>4

\* Resume: an event of no node's own.
LEMMA ResumeOK ==
  ASSUME IInv, NEW r \in Requests, Resume(r)
  PROVE  TypeOK' /\ Local(r)' /\ Framed(r) /\ Lasting
<1>0. TypeOK /\ run[r] \in Runs /\ Local(r) /\ run[r].pc = "resume"
  BY DEF IInv, TypeOK, Resume
<1>a. CASE Broken(r, "audit", IF run[r].gone THEN "over" ELSE "close", "failed")
  <2>1. CASE run[r].gone
    BY <1>a, <2>1, BrokenOK DEF Phases, Statuses
  <2>2. CASE ~run[r].gone
    BY <1>0, <1>a, <2>2, BrokenOK DEF Phases, Statuses
  <2> QED
    BY <2>1, <2>2
<1>b. CASE /\ Record(r, "Approval", "resume", 1, "resumed")
           /\ Continue(r, "load")
           /\ UNCHANGED <<thread, opened, spans, acted, kept>>
  <2> DEFINE pc == IF run[r].gone THEN "over" ELSE "load"
  <2>0. pc \in Phases /\ Goto(r, pc)
    BY <1>b DEF Phases, Continue
  <2>1. /\ run' \in [Requests -> Runs]
        /\ \A q \in Requests : q # r => run'[q] = run[q]
        /\ run'[r].pc = pc
        /\ run'[r].hit = run[r].hit /\ run'[r].kind = run[r].kind
        /\ pc = "over" => ~run'[r].gone
        /\ pc # "over" => run'[r].gone = run[r].gone
    BY <1>0, <2>0, GotoOK
  <2>2. /\ "Approval" \in Names /\ "resume" \in Types /\ 1 \in 1 .. MaxAttempts
        /\ "resumed" \in Statuses \union {"resumed"}
    BY AttemptAssumption DEF Names, Nodes, Types
  <2>3. TypeOK' /\ Framed(r) /\ Lasting
    BY <1>0, <1>b, <2>1, <2>2, RecordStepOK
  <2>4. \A e \in events' \ events : e.type = "resume"
    BY <1>0, <1>b, <2>2, RecordOK
  <2>5. /\ \A e \in events' : e.run = r /\ e.type \in {"agent_enter", "agent_exit"} =>
              e.attempt <= Len(spans'[r][e.node])
        /\ Len(spans'[r]["tool"]) <= Len(spans'[r]["DiagnosisAgent"])
    BY <1>0, <1>b, <2>4 DEF Local, EventsOK, SpansOK
  <2>6. CASE run[r].gone
    <3>1. pc = "over" /\ run[r].hit
      BY <1>0, <2>6 DEF Local, RunOK
    <3> HIDE DEF pc
    <3> QED
      BY <2>1, <2>3, <2>5, <3>1, OverOK
  <2>7. CASE ~run[r].gone
    <3>1. pc = "load"
      BY <2>7
    <3> HIDE DEF pc
    <3>2. RunOK(r)'
      BY <1>0, <2>1, <3>1 DEF Local, RunOK, InNode, Judged
    <3>3. SpansOK(r)'
      BY <1>0, <1>b, <2>1, <3>1 DEF Local, SpansOK, Before, InNode, Judged, Visited
    <3>4. EventsOK(r)'
      BY <2>1, <2>5, <3>1 DEF EventsOK, Visited
    <3>5. OpenOK(r)'
      BY <1>0, <1>b, <2>1, <3>1 DEF Local, OpenOK, InNode, Visited
    <3> QED
      BY <2>3, <3>2, <3>3, <3>4, <3>5 DEF Local
  <2> QED
    BY <2>6, <2>7
<1> QED
  BY <1>a, <1>b DEF Resume

\* Close: the workflow span was the last one open.
LEMMA CloseOK ==
  ASSUME IInv, NEW r \in Requests, Close(r)
  PROVE  TypeOK' /\ Local(r)' /\ Framed(r) /\ Lasting
<1>0. TypeOK /\ run[r] \in Runs /\ Local(r) /\ run[r].pc = "close"
  BY DEF IInv, TypeOK, Close
<1>a. CASE Broken(r, "trace", IF run[r].result = "failed" \/ run[r].gone THEN "over" ELSE "close", "failed")
  <2>1. CASE run[r].result = "failed" \/ run[r].gone
    BY <1>a, <2>1, BrokenOK DEF Phases, Statuses
  <2>2. CASE ~(run[r].result = "failed" \/ run[r].gone)
    BY <1>0, <1>a, <2>2, BrokenOK DEF Phases, Statuses
  <2> QED
    BY <2>1, <2>2
<1>b. CASE /\ FinishSpan(r, "workflow", run[r].result)
           /\ Goto(r, "over")
           /\ UNCHANGED <<thread, opened, events, acted, kept>>
  <2>0. /\ "over" \in Phases /\ {"workflow", "tool", "DiagnosisAgent"} \subseteq Names
        /\ run[r].result \in Statuses \ {"running"}
    BY <1>0 DEF Local, RunOK, Phases, Statuses, Names, Nodes
  <2>1. /\ run' \in [Requests -> Runs]
        /\ \A q \in Requests : q # r => run'[q] = run[q]
        /\ run'[r].pc = "over" /\ ~run'[r].gone
        /\ run'[r].hit = run[r].hit
    BY <1>0, <1>b, <2>0, GotoOK
  <2>2. /\ TypeOK' /\ Framed(r) /\ Lasting
        /\ \A m \in Names : Len(spans'[r][m]) = Len(spans[r][m])
    BY <1>0, <1>b, <2>0, <2>1, FinishStepOK
  <2>3. /\ \A m \in Names : m # "workflow" => spans'[r][m] = spans[r][m]
        /\ DOMAIN spans'[r]["workflow"] = DOMAIN spans[r]["workflow"]
        /\ \A i \in DOMAIN spans[r]["workflow"] :
             spans'[r]["workflow"][i] = IF i = Len(spans[r]["workflow"]) /\ spans[r]["workflow"][i] = "running"
                                        THEN run[r].result ELSE spans[r]["workflow"][i]
    BY <1>0, <1>b, <2>0, FinishSpanOK
  <2>4. \A e \in events' : e.run = r /\ e.type \in {"agent_enter", "agent_exit"} =>
           e.attempt <= Len(spans'[r][e.node])
    BY <1>0, <1>b, <2>2 DEF Local, EventsOK, TypeOK, Events
  <2>5. Len(spans'[r]["tool"]) <= Len(spans'[r]["DiagnosisAgent"])
    BY <1>0, <2>0, <2>2 DEF Local, SpansOK
  <2>6. ~run[r].hit => \A n \in Names : \A i \in DOMAIN spans'[r][n] : spans'[r][n][i] # "running"
    BY <1>0, <2>0, <2>3 DEF Local, OpenOK, Visited
  <2> QED
    BY <2>1, <2>2, <2>4, <2>5, <2>6, OverOK
<1> QED
  BY <1>a, <1>b DEF Close

\* Announce: Execute and the first Approval of a start leave their event before the span.
LEMMA AnnounceOK ==
  ASSUME IInv, NEW r \in Requests, Announce(r)
  PROVE  TypeOK' /\ Local(r)' /\ Framed(r) /\ Lasting
<1>0. /\ TypeOK /\ run[r] \in Runs /\ Local(r)
      /\ run[r].pc = "enter" /\ run[r].at \in {"Approval", "Execute"}
  BY DEF IInv, TypeOK, Announce, Announced
<1>a. CASE Broken(r, "audit", "return", "failed")
  BY <1>0, <1>a, BrokenOK DEF Phases, Statuses, InNode
<1>b. CASE ~Broken(r, "audit", "return", "failed")
  <2> DEFINE n == IF run[r].at = "Execute" THEN "Execute" ELSE "Approval"
             type == IF run[r].at = "Execute" THEN "repair_execute" ELSE "approval_pause"
             status == IF run[r].at = "Execute" THEN "running" ELSE "interrupted"
  <2>1. /\ Record(r, n, type, 1, status) /\ Goto(r, "span")
        /\ UNCHANGED <<thread, opened, spans, acted, kept>>
    BY <1>b DEF Announce
  <2>2. /\ n \in Names /\ type \in Types /\ 1 \in 1 .. MaxAttempts
        /\ status \in Statuses \union {"resumed"} /\ type \notin {"agent_enter", "agent_exit"}
        /\ "span" \in Phases
    BY AttemptAssumption DEF Names, Nodes, Types, Statuses, Phases
  <2>3. run[r].at = "Execute" => type = "repair_execute"
    OBVIOUS
  <2> HIDE DEF n, type, status
  <2>4. /\ run' \in [Requests -> Runs]
        /\ \A q \in Requests : q # r => run'[q] = run[q]
        /\ run'[r].pc = "span"
        /\ run'[r].hit = run[r].hit /\ run'[r].kind = run[r].kind
        /\ run'[r].at = run[r].at /\ run'[r].gone = run[r].gone
    BY <1>0, <2>1, <2>2, GotoOK
  <2>5. TypeOK' /\ Framed(r) /\ Lasting
    BY <1>0, <2>1, <2>2, <2>4, RecordStepOK
  <2>6. /\ \A e \in events' \ events : e.type = type
        /\ \E e \in events' : e.run = r /\ e.type = type
    BY <1>0, <2>1, <2>2, RecordOK
  <2>7. RunOK(r)'
    BY <1>0, <2>4 DEF Local, RunOK, InNode, Judged, Nodes
  <2>8. SpansOK(r)'
    BY <1>0, <2>1, <2>4 DEF Local, SpansOK, InNode, Before, Judged, Visited
  <2>9. EventsOK(r)'
    BY <1>0, <2>1, <2>2, <2>3, <2>4, <2>6 DEF Local, EventsOK, Visited
  <2>10. OpenOK(r)'
    BY <1>0, <2>1, <2>4 DEF Local, OpenOK, InNode, Visited
  <2> QED
    BY <2>5, <2>7, <2>8, <2>9, <2>10 DEF Local
<1> QED
  BY <1>a, <1>b

\* OpenNode: the span of this visit, whose events cannot be there yet.
LEMMA OpenNodeOK ==
  ASSUME IInv, NEW r \in Requests, OpenNode(r)
  PROVE  TypeOK' /\ Local(r)' /\ Framed(r) /\ Lasting
<1>0. /\ TypeOK /\ run[r] \in Runs /\ Local(r)
      /\ run[r].pc \in {"enter", "span"} /\ run[r].at \in Nodes
      /\ run[r].at = "Execute" => run[r].pc = "span"
  BY DEF IInv, TypeOK, OpenNode, Announced, Local, RunOK, InNode
<1>a. CASE Broken(r, "trace", "return", "failed")
  BY <1>0, <1>a, BrokenOK DEF Phases, Statuses, InNode
<1>b. CASE ~Broken(r, "trace", "return", "failed")
  <2> DEFINE n == run[r].at
             pc == IF n \in Agents THEN "agent" ELSE "call"
  <2>1. /\ StartSpan(r, n) /\ Goto(r, pc)
        /\ UNCHANGED <<thread, opened, events, acted, kept>>
    BY <1>b DEF OpenNode
  <2>2. /\ n \in Nodes /\ n \in Names /\ pc \in Phases /\ pc # "over" /\ n \notin {"workflow", "tool"}
        /\ pc = "agent" => n \in Agents
        /\ pc # "agent" => pc = "call" /\ n \notin Agents /\ n # "DiagnosisAgent"
    BY <1>0, NamesOK DEF Phases, Agents
  <2>3. Len(spans[r][n]) < MaxAttempts /\ (n # "DiagnosisAgent" => Len(spans[r][n]) = 0)
    BY <1>0, AttemptAssumption DEF Local, SpansOK, RunOK
  <2>4. /\ run' \in [Requests -> Runs]
        /\ \A q \in Requests : q # r => run'[q] = run[q]
        /\ run'[r].pc = pc
        /\ run'[r].hit = run[r].hit /\ run'[r].kind = run[r].kind
        /\ run'[r].at = n /\ run'[r].gone = run[r].gone
    BY <1>0, <2>1, <2>2, GotoOK
  <2>5. TypeOK' /\ Framed(r) /\ Lasting
    BY <1>0, <2>1, <2>2, <2>3, <2>4, StartStepOK
  <2>6. /\ \A m \in Names : m # n => spans'[r][m] = spans[r][m]
        /\ Len(spans'[r][n]) = Len(spans[r][n]) + 1
        /\ spans'[r][n][Len(spans[r][n]) + 1] = "running"
        /\ \A i \in DOMAIN spans[r][n] : spans'[r][n][i] = spans[r][n][i]
    BY <1>0, <2>1, <2>2, StartSpanOK
  <2>7. \A m \in Names : /\ Len(spans[r][m]) \in Nat /\ DOMAIN spans[r][m] = 1 .. Len(spans[r][m])
                          /\ Len(spans'[r][m]) \in Nat /\ DOMAIN spans'[r][m] = 1 .. Len(spans'[r][m])
    BY <1>0, <2>5 DEF TypeOK
  <2>8. \A e \in events : e.node \in Names /\ e.attempt \in Nat
    BY <1>0 DEF TypeOK, Events
  <2> HIDE DEF pc, n
  <2>9. RunOK(r)'
    BY <1>0, <2>2, <2>4 DEF Local, RunOK, InNode, Judged, n
  <2>10. SpansOK(r)'
    <3>1. \A m \in Ahead(n) : Len(spans'[r][m]) = 0
      <4>1. \A m \in Ahead(n) : Len(spans[r][m]) = 0
        BY <1>0 DEF Local, SpansOK, InNode, n
      <4> QED
        BY <4>1, <2>6, NamesOK
    <3>2. /\ Len(spans[r]["tool"]) <= Len(spans[r]["DiagnosisAgent"])
          /\ spans'[r]["tool"] = spans[r]["tool"]
      BY <1>0, <2>2, <2>6, NamesOK DEF Local, SpansOK
    <3>3. /\ Len(spans'[r]["tool"]) <= Len(spans'[r]["DiagnosisAgent"])
          /\ n = "DiagnosisAgent" => Len(spans'[r]["tool"]) < Len(spans'[r]["DiagnosisAgent"])
      <4>1. {"tool", "DiagnosisAgent"} \subseteq Names
        BY DEF Names, Nodes
      <4>2. CASE n = "DiagnosisAgent"
        BY <2>6, <2>7, <3>2, <4>1, <4>2
      <4>3. CASE n # "DiagnosisAgent"
        BY <2>6, <3>2, <4>1, <4>3
      <4> QED
        BY <4>2, <4>3
    <3>4. Len(spans'[r][n]) > 0 /\ spans'[r][n][Len(spans'[r][n])] = "running"
      BY <2>2, <2>6, <2>7
    <3> QED
      BY <2>2, <2>4, <3>1, <3>3, <3>4 DEF SpansOK, Before, InNode, Judged, Visited
  <2>11. EventsOK(r)'
    <3>1. \A e \in events : e.run = r /\ e.type \in {"agent_enter", "agent_exit"} =>
             e.attempt <= Len(spans[r][e.node])
      BY <1>0 DEF Local, EventsOK
    <3>2. \A e \in events : e.run = r /\ e.type \in {"agent_enter", "agent_exit"} =>
             /\ e.attempt <= Len(spans'[r][e.node])
             /\ e.node = n => e.attempt < Len(spans'[r][n])
      <4> SUFFICES ASSUME NEW e \in events, e.run = r, e.type \in {"agent_enter", "agent_exit"}
                   PROVE  /\ e.attempt <= Len(spans'[r][e.node])
                          /\ e.node = n => e.attempt < Len(spans'[r][n])
        OBVIOUS
      <4>1. CASE e.node = n
        BY <2>2, <2>6, <2>7, <2>8, <3>1, <4>1
      <4>2. CASE e.node # n
        BY <2>6, <2>8, <3>1, <4>2
      <4> QED
        BY <4>1, <4>2
    <3>3. ~ \E e \in events : /\ e.run = r /\ e.node = n /\ e.type \in {"agent_enter", "agent_exit"}
                             /\ e.attempt = Len(spans'[r][n])
      <4> SUFFICES ASSUME NEW e \in events, e.run = r, e.node = n, e.type \in {"agent_enter", "agent_exit"},
                          e.attempt = Len(spans'[r][n])
                   PROVE  FALSE
        OBVIOUS
      <4> QED
        BY <2>2, <2>7, <3>2
    <3>4. n = "Execute" => \E e \in events : e.run = r /\ e.type = "repair_execute"
      BY <1>0 DEF Local, EventsOK, n
    <3> QED
      BY <2>1, <2>2, <2>4, <3>2, <3>3, <3>4 DEF EventsOK, Visited, Logged
  <2>12. OpenOK(r)'
    <3> SUFFICES ASSUME ~run'[r].hit, NEW m \in Names, NEW i \in DOMAIN spans'[r][m],
                        spans'[r][m][i] = "running"
                 PROVE  /\ i = Len(spans'[r][m])
                        /\ m \in {"workflow", n}
      BY <2>2, <2>4 DEF OpenOK, Visited, InNode
    <3>1. CASE m = n
      <4>1. n \in Names => \A j \in DOMAIN spans[r][n] : spans[r][n][j] # "running"
        BY <1>0, <2>2, <2>4 DEF Local, OpenOK, Visited
      <4> QED
        BY <2>2, <2>6, <2>7, <3>1, <4>1
    <3>2. CASE m # n
      BY <1>0, <2>4, <2>6, <3>2 DEF Local, OpenOK, Visited
    <3> QED
      BY <3>1, <3>2
  <2> QED
    BY <2>5, <2>9, <2>10, <2>11, <2>12 DEF Local
<1> QED
  BY <1>a, <1>b

\* AgentEnter: the event is new, so it says what was recorded.
LEMMA AgentEnterOK ==
  ASSUME IInv, NEW r \in Requests, AgentEnter(r)
  PROVE  TypeOK' /\ Local(r)' /\ Framed(r) /\ Lasting
<1> DEFINE n == run[r].at
           a == Len(spans[r][n])
<1>0. TypeOK /\ run[r] \in Runs /\ Local(r) /\ run[r].pc = "agent" /\ n \in Agents /\ n \in Names
  BY NamesOK DEF IInv, TypeOK, AgentEnter, Local, RunOK
<1>a. CASE Broken(r, "audit", "return", "failed")
  BY <1>0, <1>a, BrokenOK DEF Phases, Statuses, InNode
<1>b. CASE /\ Record(r, n, "agent_enter", a, "running") /\ Goto(r, "call")
           /\ UNCHANGED <<thread, opened, spans, acted, kept>>
  <2>1. a \in 1 .. MaxAttempts
    BY <1>0, AttemptAssumption DEF Local, SpansOK, Visited, TypeOK
  <2>2. "agent_enter" \in Types /\ "running" \in Statuses \union {"resumed"} /\ "call" \in Phases
    BY DEF Types, Statuses, Phases
  <2>3. /\ run' \in [Requests -> Runs]
        /\ \A q \in Requests : q # r => run'[q] = run[q]
        /\ run'[r].pc = "call"
        /\ run'[r].hit = run[r].hit /\ run'[r].kind = run[r].kind
        /\ run'[r].at = n /\ run'[r].gone = run[r].gone
    BY <1>0, <1>b, <2>2, GotoOK
  <2> HIDE DEF a
  <2>4. TypeOK' /\ Framed(r) /\ Lasting
    BY <1>0, <1>b, <2>1, <2>2, <2>3, RecordStepOK
  <2>5. /\ \A e \in events' \ events : e.run = r /\ e.node = n /\ e.type = "agent_enter" /\ e.attempt = a
        /\ (~ \E e \in events : e.run = r /\ e.node = n /\ e.type = "agent_enter" /\ e.attempt = a) =>
              Event(r, n, "agent_enter", a, "running") \in events'
    BY <1>0, <1>b, <2>1, <2>2, RecordOK
  <2>6. Event(r, n, "agent_enter", a, "running") \in events'
    BY <1>0, <2>5 DEF Local, EventsOK, a
  <2>7. RunOK(r)'
    BY <1>0, <2>3, NamesOK DEF Local, RunOK, InNode, Judged
  <2>8. SpansOK(r)'
    BY <1>0, <1>b, <2>3 DEF Local, SpansOK, InNode, Before, Judged, Visited
  <2>9. EventsOK(r)'
    <3>1. \A e \in events' : e.run = r /\ e.type \in {"agent_enter", "agent_exit"} =>
             e.attempt <= Len(spans'[r][e.node])
      <4>1. \A e \in events : e.run = r /\ e.type \in {"agent_enter", "agent_exit"} =>
               e.attempt <= Len(spans'[r][e.node])
        BY <1>0, <1>b DEF Local, EventsOK
      <4>2. \A e \in events' \ events : e.attempt <= Len(spans'[r][e.node])
        BY <1>b, <2>1, <2>5 DEF a
      <4> QED
        BY <4>1, <4>2
    <3>2. ~ \E e \in events' : e.run = r /\ e.node = n /\ e.type = "agent_exit" /\ e.attempt = a
      BY <1>0, <2>5 DEF Local, EventsOK, Visited, a
    <3>3. Len(spans'[r][n]) = a
      BY <1>b DEF a
    <3>4. n # "Execute"
      BY <1>0 DEF Agents
    <3> HIDE DEF n
    <3> QED
      BY <2>3, <2>6, <3>1, <3>2, <3>3, <3>4 DEF EventsOK, Visited, Logged
  <2>10. OpenOK(r)'
    BY <1>0, <1>b, <2>3 DEF Local, OpenOK, InNode, Visited
  <2> QED
    BY <2>4, <2>7, <2>8, <2>9, <2>10 DEF Local
<1> QED
  BY <1>a, <1>b DEF AgentEnter, Attempt

\* AgentExit: the event is new, and the span has ended as it says.
LEMMA AgentExitOK ==
  ASSUME IInv, NEW r \in Requests, AgentExit(r)
  PROVE  TypeOK' /\ Local(r)' /\ Framed(r) /\ Lasting
<1> DEFINE n == run[r].at
           a == Len(spans[r][n])
<1>0. TypeOK /\ run[r] \in Runs /\ Local(r) /\ run[r].pc = "exit" /\ n \in Agents /\ n \in Names
  BY NamesOK DEF IInv, TypeOK, AgentExit, Local, RunOK
<1>a. CASE Broken(r, "audit", "return", "failed")
  BY <1>0, <1>a, BrokenOK DEF Phases, Statuses, InNode
<1>b. CASE /\ Record(r, n, "agent_exit", a, NodeStatus(r)) /\ Goto(r, "return")
           /\ UNCHANGED <<thread, opened, spans, acted, kept>>
  <2>1. a \in 1 .. MaxAttempts
    BY <1>0, AttemptAssumption DEF Local, SpansOK, TypeOK
  <2>2. "agent_exit" \in Types /\ NodeStatus(r) \in Statuses \union {"resumed"} /\ "return" \in Phases
    BY <1>0 DEF Types, Statuses, Phases, NodeStatus, Runs
  <2>3. /\ run' \in [Requests -> Runs]
        /\ \A q \in Requests : q # r => run'[q] = run[q]
        /\ run'[r].pc = "return"
        /\ run'[r].hit = run[r].hit /\ run'[r].kind = run[r].kind
        /\ run'[r].at = n /\ run'[r].gone = run[r].gone /\ run'[r].result = run[r].result
    BY <1>0, <1>b, <2>2, GotoOK
  <2> HIDE DEF a
  <2>4. TypeOK' /\ Framed(r) /\ Lasting
    BY <1>0, <1>b, <2>1, <2>2, <2>3, RecordStepOK
  <2>5. /\ events \subseteq events'
        /\ \A e \in events' \ events : e.run = r /\ e.node = n /\ e.type = "agent_exit" /\ e.attempt = a
        /\ (~ \E e \in events : e.run = r /\ e.node = n /\ e.type = "agent_exit" /\ e.attempt = a) =>
              Event(r, n, "agent_exit", a, NodeStatus(r)) \in events'
    BY <1>0, <1>b, <2>1, <2>2, RecordOK
  <2>6. Event(r, n, "agent_exit", a, NodeStatus(r)) \in events'
    BY <1>0, <2>5 DEF Local, EventsOK, a
  <2>7. RunOK(r)'
    BY <1>0, <2>3, NamesOK DEF Local, RunOK, InNode, Judged
  <2>8. SpansOK(r)'
    BY <1>0, <1>b, <2>3 DEF Local, SpansOK, InNode, Before, Judged, Visited
  <2>9. EventsOK(r)'
    <3>1. \A e \in events' : e.run = r /\ e.type \in {"agent_enter", "agent_exit"} =>
             e.attempt <= Len(spans'[r][e.node])
      <4>1. \A e \in events : e.run = r /\ e.type \in {"agent_enter", "agent_exit"} =>
               e.attempt <= Len(spans'[r][e.node])
        BY <1>0, <1>b DEF Local, EventsOK
      <4>2. \A e \in events' \ events : e.attempt <= Len(spans'[r][e.node])
        BY <1>b, <2>1, <2>5 DEF a
      <4> QED
        BY <4>1, <4>2
    <3>2. Len(spans'[r][n]) = a /\ spans'[r][n] = spans[r][n]
      BY <1>b DEF a
    <3>3. run[r].result = "succeeded" => spans[r][n][a] = "succeeded"
      BY <1>0, <2>1 DEF Local, EventsOK, a
    <3>4. run[r].result = "succeeded" =>
            Event(r, n, "agent_enter", a, "running") \in events' /\ Event(r, n, "agent_exit", a, "succeeded") \in events'
      <4>1. Logged(r, n, "agent_enter", a, "running")
        BY <1>0 DEF Local, EventsOK, a
      <4>2. run[r].result = "succeeded" => NodeStatus(r) = "succeeded"
        BY DEF NodeStatus
      <4> QED
        BY <2>5, <2>6, <4>1, <4>2 DEF Logged
    <3> HIDE DEF n
    <3> QED
      BY <2>3, <3>1, <3>2, <3>3, <3>4 DEF EventsOK, Visited, Logged
  <2>10. OpenOK(r)'
    BY <1>0, <1>b, <2>3 DEF Local, OpenOK, InNode, Visited
  <2> QED
    BY <2>4, <2>7, <2>8, <2>9, <2>10 DEF Local
<1> QED
  BY <1>a, <1>b DEF AgentExit, Attempt

\* ToolStart: one tool span for each visit of the agent.
LEMMA ToolStartOK ==
  ASSUME IInv, NEW r \in Requests, ToolStart(r)
  PROVE  TypeOK' /\ Local(r)' /\ Framed(r) /\ Lasting
<1>0. /\ TypeOK /\ run[r] \in Runs /\ Local(r)
      /\ run[r].pc = "call" /\ run[r].at = "DiagnosisAgent"
  BY DEF IInv, TypeOK, ToolStart
<1>a. CASE Broken(r, "trace", "finish", "failed")
  BY <1>0, <1>a, BrokenOK DEF Phases, Statuses
<1>b. CASE /\ StartSpan(r, "tool") /\ Goto(r, "record")
           /\ UNCHANGED <<thread, opened, events, acted, kept>>
  <2>1. /\ {"tool", "DiagnosisAgent"} \subseteq Names /\ "record" \in Phases
        /\ "tool" \notin Nodes /\ "DiagnosisAgent" \in Nodes
    BY DEF Names, Nodes, Phases
  <2>2. \A m \in Names : /\ Len(spans[r][m]) \in Nat /\ Len(spans[r][m]) <= MaxAttempts
                          /\ DOMAIN spans[r][m] = 1 .. Len(spans[r][m])
    BY <1>0 DEF TypeOK
  <2>3. Len(spans[r]["tool"]) < Len(spans[r]["DiagnosisAgent"])
    BY <1>0 DEF Local, SpansOK
  <2>4. Len(spans[r]["tool"]) < MaxAttempts
    BY <2>1, <2>2, <2>3, AttemptAssumption
  <2>5. /\ run' \in [Requests -> Runs]
        /\ \A q \in Requests : q # r => run'[q] = run[q]
        /\ run'[r].pc = "record"
        /\ run'[r].hit = run[r].hit /\ run'[r].kind = run[r].kind
        /\ run'[r].at = "DiagnosisAgent" /\ run'[r].gone = run[r].gone
    BY <1>0, <1>b, <2>1, GotoOK
  <2>6. TypeOK' /\ Framed(r) /\ Lasting
    BY <1>0, <1>b, <2>1, <2>4, <2>5, StartStepOK
  <2>7. /\ \A m \in Names : m # "tool" => spans'[r][m] = spans[r][m]
        /\ Len(spans'[r]["tool"]) = Len(spans[r]["tool"]) + 1
        /\ \A i \in DOMAIN spans[r]["tool"] : spans'[r]["tool"][i] = spans[r]["tool"][i]
    BY <1>0, <1>b, <2>1, StartSpanOK
  <2>8. \A m \in Nodes : spans'[r][m] = spans[r][m]
    BY <2>1, <2>7, NamesOK
  <2>9. RunOK(r)'
    BY <1>0, <2>1, <2>5 DEF Local, RunOK, InNode, Judged
  <2>10. SpansOK(r)'
    <3>1. Len(spans'[r]["tool"]) <= Len(spans'[r]["DiagnosisAgent"]) /\ Len(spans'[r]["tool"]) > 0
      BY <2>1, <2>2, <2>3, <2>7, <2>8
    <3>2. \A m \in Ahead("DiagnosisAgent") : Len(spans'[r][m]) = 0
      BY <1>0, <2>8, NamesOK DEF Local, SpansOK, InNode
    <3>3. /\ Len(spans'[r]["DiagnosisAgent"]) > 0
          /\ spans'[r]["DiagnosisAgent"][Len(spans'[r]["DiagnosisAgent"])] = "running"
      BY <1>0, <2>1, <2>8 DEF Local, SpansOK, Visited
    <3> QED
      BY <2>5, <3>1, <3>2, <3>3 DEF SpansOK, Before, InNode, Judged, Visited
  <2>11. EventsOK(r)'
    <3>1. \A e \in events : e.run = r /\ e.type \in {"agent_enter", "agent_exit"} =>
             e.attempt <= Len(spans'[r][e.node])
      <4> SUFFICES ASSUME NEW e \in events, e.run = r, e.type \in {"agent_enter", "agent_exit"}
                   PROVE  e.attempt <= Len(spans'[r][e.node])
        OBVIOUS
      <4>1. /\ e.attempt <= Len(spans[r][e.node]) /\ e.node \in Names /\ e.attempt \in 1 .. MaxAttempts
        BY <1>0 DEF Local, EventsOK, TypeOK, Events
      <4>2. Len(spans[r][e.node]) <= Len(spans'[r][e.node]) /\ Len(spans'[r][e.node]) \in Nat
        BY <2>1, <2>2, <2>7, <4>1
      <4> QED
        BY <2>2, <4>1, <4>2
    <3> QED
      BY <1>0, <1>b, <2>1, <2>5, <2>8, <3>1 DEF Local, EventsOK, Logged, Visited
  <2>12. OpenOK(r)'
    <3> SUFFICES ASSUME ~run'[r].hit, NEW m \in Names, NEW i \in DOMAIN spans'[r][m],
                        spans'[r][m][i] = "running"
                 PROVE  /\ i = Len(spans'[r][m])
                        /\ m \in {"workflow", "DiagnosisAgent", "tool"}
      BY <2>5 DEF OpenOK, Visited, InNode
    <3>1. CASE m = "tool"
      <4>1. \A j \in DOMAIN spans[r]["tool"] : spans[r]["tool"][j] # "running"
        BY <1>0, <2>1, <2>5 DEF Local, OpenOK, Visited
      <4>2. DOMAIN spans'[r]["tool"] = 1 .. (Len(spans[r]["tool"]) + 1)
        BY <2>1, <2>6, <2>7 DEF TypeOK
      <4> QED
        BY <2>1, <2>2, <2>7, <3>1, <4>1, <4>2
    <3>2. CASE m # "tool"
      BY <1>0, <2>5, <2>7, <3>2 DEF Local, OpenOK, Visited
    <3> QED
      BY <3>1, <3>2
  <2> QED
    BY <2>6, <2>9, <2>10, <2>11, <2>12 DEF Local
<1> QED
  BY <1>a, <1>b DEF ToolStart

\* ToolRecord: an event of the tool, and what the agent ends with.
LEMMA ToolRecordOK ==
  ASSUME IInv, NEW r \in Requests, ToolRecord(r)
  PROVE  TypeOK' /\ Local(r)' /\ Framed(r) /\ Lasting
<1>0. /\ TypeOK /\ run[r] \in Runs /\ Local(r)
      /\ run[r].pc = "record" /\ run[r].at = "DiagnosisAgent"
  BY DEF IInv, TypeOK, ToolRecord, Local, RunOK
<1>a. CASE Broken(r, "audit", "toolend", "failed")
  BY <1>0, <1>a, BrokenOK DEF Phases, Statuses
<1>b. CASE ~Broken(r, "audit", "toolend", "failed")
  <2> DEFINE a == Len(spans[r]["tool"])
  <2>1. PICK result \in Outcomes(r) \union (IF MayRevisit(r) THEN {"retry"} ELSE {}) :
          /\ Record(r, "tool", "tool_call", a, IF result = "succeeded" THEN "succeeded" ELSE "failed")
          /\ run' = [run EXCEPT ![r].pc = "toolend", ![r].result = result]
          /\ UNCHANGED <<thread, opened, spans, acted, kept>>
    BY <1>b DEF ToolRecord, Attempt
  <2> DEFINE it == [run[r] EXCEPT !.pc = "toolend", !.result = result]
             status == IF result = "succeeded" THEN "succeeded" ELSE "failed"
  <2>2. /\ result \in {"succeeded", "failed", "interrupted", "retry"}
        /\ result = "retry" => Len(spans[r]["DiagnosisAgent"]) < MaxAttempts
    BY <1>0, <2>1 DEF Outcomes, MayRevisit, Attempt
  <2>3. it \in Runs /\ run' = [run EXCEPT ![r] = it]
    BY <1>0, <2>1, <2>2 DEF Runs, Phases, Statuses
  <2>4. /\ it.pc = "toolend" /\ it.result = result /\ it.at = "DiagnosisAgent"
        /\ it.hit = run[r].hit /\ it.gone = run[r].gone /\ it.kind = run[r].kind
    BY <1>0 DEF Runs
  <2>5. /\ run' \in [Requests -> Runs] /\ run'[r] = it
        /\ \A q \in Requests : q # r => run'[q] = run[q]
    BY <1>0, <2>3 DEF TypeOK
  <2> HIDE DEF it
  <2>6. /\ "tool" \in Names /\ "tool_call" \in Types /\ a \in 1 .. MaxAttempts
        /\ status \in Statuses \union {"resumed"}
    BY <1>0, AttemptAssumption DEF Names, Types, Statuses, TypeOK, Local, SpansOK
  <2>7. TypeOK' /\ Framed(r) /\ Lasting
    BY <1>0, <2>1, <2>5, <2>6, RecordStepOK
  <2>8. events \subseteq events' /\ \A e \in events' \ events : e.type = "tool_call"
    BY <1>0, <2>1, <2>6, RecordOK
  <2>9. RunOK(r)'
    BY <1>0, <2>2, <2>4, <2>5 DEF Local, RunOK, InNode, Judged, Nodes
  <2>10. SpansOK(r)'
    BY <1>0, <2>1, <2>2, <2>4, <2>5 DEF Local, SpansOK, InNode, Before, Judged, Visited
  <2>11. EventsOK(r)'
    BY <1>0, <2>1, <2>4, <2>5, <2>8 DEF Local, EventsOK, Logged, Visited
  <2>12. OpenOK(r)'
    BY <1>0, <2>1, <2>4, <2>5 DEF Local, OpenOK, InNode, Visited
  <2> QED
    BY <2>7, <2>9, <2>10, <2>11, <2>12 DEF Local
<1> QED
  BY <1>a, <1>b

\* ToolEnd: only the tool's span ends.
LEMMA ToolEndOK ==
  ASSUME IInv, NEW r \in Requests, ToolEnd(r)
  PROVE  TypeOK' /\ Local(r)' /\ Framed(r) /\ Lasting
<1>0. /\ TypeOK /\ run[r] \in Runs /\ Local(r)
      /\ run[r].pc = "toolend" /\ run[r].at = "DiagnosisAgent"
  BY DEF IInv, TypeOK, ToolEnd, Local, RunOK
<1>a. CASE \E kind \in {"audit", "trace"} : Broken(r, kind, "finish", "failed")
  BY <1>0, <1>a, BrokenOK DEF Phases, Statuses
<1>b. CASE ~ \E kind \in {"audit", "trace"} : Broken(r, kind, "finish", "failed")
  <2> DEFINE status == IF run[r].result = "succeeded" THEN "succeeded" ELSE "failed"
  <2>1. /\ FinishSpan(r, "tool", status) /\ Goto(r, "finish")
        /\ UNCHANGED <<thread, opened, events, acted, kept>>
    BY <1>b DEF ToolEnd
  <2>2. /\ "tool" \in Names /\ "tool" \notin Nodes /\ "DiagnosisAgent" \in Nodes
        /\ status \in Statuses \ {"running"} /\ "finish" \in Phases
    BY DEF Names, Nodes, Statuses, Phases
  <2> HIDE DEF status
  <2>3. /\ run' \in [Requests -> Runs]
        /\ \A q \in Requests : q # r => run'[q] = run[q]
        /\ run'[r].pc = "finish" /\ run'[r].result = run[r].result
        /\ run'[r].hit = run[r].hit /\ run'[r].kind = run[r].kind
        /\ run'[r].at = "DiagnosisAgent" /\ run'[r].gone = run[r].gone
    BY <1>0, <2>1, <2>2, GotoOK
  <2>4. /\ TypeOK' /\ Framed(r) /\ Lasting
        /\ \A m \in Names : Len(spans'[r][m]) = Len(spans[r][m])
    BY <1>0, <2>1, <2>2, <2>3, FinishStepOK
  <2>5. /\ \A m \in Names : m # "tool" => spans'[r][m] = spans[r][m]
        /\ DOMAIN spans'[r]["tool"] = DOMAIN spans[r]["tool"]
        /\ \A i \in DOMAIN spans[r]["tool"] :
             spans'[r]["tool"][i] = IF i = Len(spans[r]["tool"]) /\ spans[r]["tool"][i] = "running"
                                    THEN status ELSE spans[r]["tool"][i]
    BY <1>0, <2>1, <2>2, FinishSpanOK
  <2>6. \A m \in Nodes : spans'[r][m] = spans[r][m]
    BY <2>2, <2>5, NamesOK
  <2>7. RunOK(r)'
    BY <1>0, <2>2, <2>3 DEF Local, RunOK, InNode, Judged
  <2>8. SpansOK(r)'
    <3>1. Ahead("DiagnosisAgent") \subseteq Nodes
      BY NamesOK
    <3> QED
      BY <1>0, <2>2, <2>3, <2>4, <2>6, <3>1, NamesOK DEF Local, SpansOK, InNode, Before, Judged, Visited
  <2>9. EventsOK(r)'
    <3>1. \A e \in events : e.node \in Names
      BY <1>0 DEF TypeOK, Events
    <3> QED
      BY <1>0, <2>1, <2>2, <2>3, <2>4, <2>6, <3>1 DEF Local, EventsOK, Logged, Visited
  <2>10. OpenOK(r)'
    <3> SUFFICES ASSUME ~run'[r].hit, NEW m \in Names, NEW i \in DOMAIN spans'[r][m],
                        spans'[r][m][i] = "running"
                 PROVE  /\ i = Len(spans'[r][m])
                        /\ m \in {"workflow", "DiagnosisAgent"}
      BY <2>3 DEF OpenOK, Visited, InNode
    <3>1. m # "tool"
      BY <1>0, <2>2, <2>3, <2>5 DEF Local, OpenOK, Visited
    <3> QED
      BY <1>0, <2>3, <2>5, <3>1 DEF Local, OpenOK, Visited
  <2> QED
    BY <2>4, <2>7, <2>8, <2>9, <2>10 DEF Local
<1> QED
  BY <1>a, <1>b

\* NodeEnd: the last span of the node ends as the node did.
LEMMA NodeEndOK ==
  ASSUME IInv, NEW r \in Requests, NodeEnd(r)
  PROVE  TypeOK' /\ Local(r)' /\ Framed(r) /\ Lasting
<1> DEFINE n == run[r].at
<1>0. TypeOK /\ run[r] \in Runs /\ Local(r) /\ run[r].pc = "finish" /\ n \in Nodes
  BY DEF IInv, TypeOK, NodeEnd, Local, RunOK, InNode
<1>a. CASE Broken(r, "trace", "return", "failed")
  BY <1>0, <1>a, BrokenOK DEF Phases, Statuses, InNode
<1>b. CASE ~Broken(r, "trace", "return", "failed")
  <2> DEFINE pc == IF n \in Agents THEN "exit" ELSE "return"
             status == NodeStatus(r)
  <2>1. /\ FinishSpan(r, n, status) /\ Goto(r, pc)
        /\ UNCHANGED <<thread, opened, events, acted, kept>>
    BY <1>b DEF NodeEnd
  <2>2. /\ n \in Names /\ n \notin {"workflow", "tool"}
        /\ status \in Statuses \ {"running"} /\ pc \in Phases /\ pc # "over"
        /\ run[r].result = "succeeded" => status = "succeeded"
    BY <1>0, NamesOK DEF NodeStatus, Statuses, Phases, Runs, Local, RunOK, Judged
  <2>3. \/ pc = "exit" /\ n \in Agents
        \/ pc = "return" /\ n \notin Agents
    <3> HIDE DEF n
    <3> QED
      OBVIOUS
  <2> HIDE DEF status, pc
  <2>4. /\ run' \in [Requests -> Runs]
        /\ \A q \in Requests : q # r => run'[q] = run[q]
        /\ run'[r].pc = pc /\ run'[r].result = run[r].result
        /\ run'[r].hit = run[r].hit /\ run'[r].kind = run[r].kind
        /\ run'[r].at = n /\ run'[r].gone = run[r].gone
    BY <1>0, <2>1, <2>2, GotoOK
  <2>5. /\ TypeOK' /\ Framed(r) /\ Lasting
        /\ \A m \in Names : Len(spans'[r][m]) = Len(spans[r][m])
    BY <1>0, <2>1, <2>2, <2>4, FinishStepOK
  <2>6. /\ \A m \in Names : m # n => spans'[r][m] = spans[r][m]
        /\ DOMAIN spans'[r][n] = DOMAIN spans[r][n]
        /\ \A i \in DOMAIN spans[r][n] :
             spans'[r][n][i] = IF i = Len(spans[r][n]) /\ spans[r][n][i] = "running"
                               THEN status ELSE spans[r][n][i]
    BY <1>0, <2>1, <2>2, FinishSpanOK
  <2>7. /\ Len(spans[r][n]) > 0 /\ spans[r][n][Len(spans[r][n])] = "running"
        /\ Len(spans[r][n]) \in DOMAIN spans[r][n]
    BY <1>0, <2>2 DEF Local, SpansOK, Visited, TypeOK
  <2>8. spans'[r][n][Len(spans[r][n])] = status /\ Len(spans'[r][n]) = Len(spans[r][n])
    BY <2>2, <2>5, <2>6, <2>7
  <2>9. RunOK(r)'
    BY <1>0, <2>3, <2>4 DEF Local, RunOK, InNode, Judged
  <2>10. SpansOK(r)'
    <3>1. Ahead(n) \subseteq Names /\ "DiagnosisAgent" \in Names
      BY NamesOK DEF Nodes
    <3> QED
      BY <1>0, <2>2, <2>3, <2>4, <2>5, <2>7, <3>1, NamesOK
         DEF Local, SpansOK, InNode, Before, Judged, Visited
  <2>11. EventsOK(r)'
    <3>1. \A e \in events : e.run = r /\ e.type \in {"agent_enter", "agent_exit"} =>
             e.attempt <= Len(spans'[r][e.node])
      <4>1. \A e \in events : e.node \in Names
        BY <1>0 DEF TypeOK, Events
      <4> QED
        BY <1>0, <2>5, <4>1 DEF Local, EventsOK
    <3>2. /\ ~ \E e \in events : /\ e.run = r /\ e.node = n /\ e.type = "agent_exit"
                                /\ e.attempt = Len(spans[r][n])
          /\ n \in Agents => Event(r, n, "agent_enter", Len(spans[r][n]), "running") \in events
      BY <1>0 DEF Local, EventsOK, Visited, Logged
    <3> HIDE DEF n
    <3> QED
      BY <2>1, <2>2, <2>3, <2>4, <2>8, <3>1, <3>2 DEF EventsOK, Visited, Logged
  <2>12. OpenOK(r)'
    <3> SUFFICES ASSUME ~run'[r].hit, NEW m \in Names, NEW i \in DOMAIN spans'[r][m],
                        spans'[r][m][i] = "running"
                 PROVE  i = Len(spans'[r][m]) /\ m = "workflow"
      BY <2>3, <2>4 DEF OpenOK, Visited, InNode
    <3>1. m # n
      BY <1>0, <2>2, <2>4, <2>6 DEF Local, OpenOK
    <3> QED
      BY <1>0, <2>4, <2>6, <3>1 DEF Local, OpenOK
  <2> QED
    BY <2>5, <2>9, <2>10, <2>11, <2>12 DEF Local
<1> QED
  BY <1>a, <1>b

(***************************************************************************)
(* The trace of an incident.                                               *)
(***************************************************************************)

Early == {"idle", "read", "open"}

\* How a step of r moves r, its trace and the workflow spans of the incident.
Course(r) ==
  /\ run[r].pc # "over"
  /\ \/ /\ run[r].pc \notin Early /\ run'[r].pc \notin Early
        /\ run'[r].kind = run[r].kind /\ run'[r].trace = run[r].trace /\ opened' = opened
     \/ /\ run[r].pc = "idle" /\ run'[r].pc = "read" /\ opened' = opened
        /\ run'[r].kind \in {"decision", "retry"} => thread # "none"
     \/ /\ run[r].pc = "read" /\ run'[r].pc = "open" /\ opened' = opened
        /\ run'[r].kind = run[r].kind /\ run'[r].trace = TraceOfIncident(r)
     \/ /\ run[r].pc = "open" /\ run'[r].pc \notin Early /\ opened' = Append(opened, r)
        /\ run'[r].kind = run[r].kind /\ run'[r].trace = run[r].trace
     \/ /\ run[r].pc \in {"read", "open"} /\ run'[r].pc \in {run[r].pc, "over"} /\ opened' = opened
        /\ run'[r].kind = run[r].kind /\ run'[r].trace = run[r].trace
  /\ \/ thread' = thread
     \/ thread' # "none" /\ run[r].pc \in {"load", "return"}

\* A store that fails ends a run before its first span and moves it on after it.
LEMMA BrokenCourse ==
  ASSUME TypeOK, NEW r \in Requests, NEW kind, NEW pc \in Phases, NEW result \in Statuses,
         Broken(r, kind, pc, result), run[r].pc \notin {"idle", "over"}, pc \notin Early,
         run[r].pc \in {"read", "open"} => pc = "over"
  PROVE  Course(r)
<1> DEFINE hit == [run[r] EXCEPT !.result = result, !.hit = TRUE]
<1>0. run[r] \in Runs
  BY DEF TypeOK
<1>1. hit \in Runs /\ hit.kind = run[r].kind /\ hit.trace = run[r].trace
  <2>1. hit \in Runs
    BY <1>0 DEF Runs
  <2>2. hit.kind = run[r].kind /\ hit.trace = run[r].trace
    BY <1>0 DEF Runs
  <2> QED
    BY <2>1, <2>2
<1>2. /\ At(hit, pc).pc = pc /\ At(hit, pc).kind = run[r].kind /\ At(hit, pc).trace = run[r].trace
  <2> HIDE DEF hit
  <2>1. CASE pc = "over"
    BY <1>1, <2>1, OverRun DEF At
  <2>2. CASE pc # "over"
    BY <1>1, <2>2 DEF At, Runs
  <2> QED
    BY <2>1, <2>2
<1>3. run'[r] = At(hit, pc) /\ thread' = thread /\ opened' = opened
  BY DEF Broken, TypeOK
<1> HIDE DEF hit
<1> QED
  BY <1>2, <1>3 DEF Course, Early

\* A step that goes on in its run.
LEMMA GotoCourse ==
  ASSUME TypeOK, NEW r \in Requests, NEW pc \in Phases, Goto(r, pc),
         run[r].pc \notin Early \union {"over"}, pc \notin Early,
         opened' = opened, thread' = thread \/ (thread' # "none" /\ run[r].pc \in {"load", "return"})
  PROVE  Course(r)
<1>1. run'[r].pc = pc /\ run'[r].kind = run[r].kind /\ run'[r].trace = run[r].trace
  BY GotoOK
<1> QED
  BY <1>1 DEF Course

\* Every step of a run takes its course.
LEMMA StepCourse ==
  ASSUME IInv, NEW r \in Requests, Accept(r) \/ Step(r) \/ Disconnect(r)
  PROVE  Course(r)
<1>0. TypeOK /\ run[r] \in Runs /\ Local(r)
  BY DEF IInv, TypeOK
<1>1. CASE Accept(r)
  <2>1. PICK kind \in Kinds : /\ run[r].pc = "idle" /\ Acceptable(kind)
                              /\ run' = [run EXCEPT ![r].pc = "read", ![r].kind = kind]
    BY <1>1 DEF Accept
  <2>2. run'[r].pc = "read" /\ run'[r].kind = kind
    BY <1>0, <2>1 DEF TypeOK, Runs
  <2>3. kind \in {"decision", "retry"} => thread # "none"
    BY <2>1 DEF Acceptable
  <2>4. UNCHANGED <<thread, opened>>
    BY <1>1 DEF Accept
  <2> QED
    BY <2>1, <2>2, <2>3, <2>4 DEF Course
<1>2. CASE ReadTrace(r)
  <2>1. CASE Broken(r, "trace", "over", "running")
    BY <1>0, <1>2, <2>1, BrokenCourse DEF ReadTrace, Phases, Statuses, Early
  <2>2. CASE ~Broken(r, "trace", "over", "running")
    <3> DEFINE trace == TraceOfIncident(r)
    <3>1. /\ run' = [run EXCEPT ![r].pc = "open", ![r].trace = trace]
          /\ UNCHANGED <<thread, opened>> /\ run[r].pc = "read"
      BY <1>2, <2>2 DEF ReadTrace
    <3> HIDE DEF trace
    <3>2. run'[r].pc = "open" /\ run'[r].trace = trace /\ run'[r].kind = run[r].kind
      BY <1>0, <3>1 DEF TypeOK, Runs
    <3> QED
      BY <3>1, <3>2 DEF Course, trace
  <2> QED
    BY <2>1, <2>2
<1>3. CASE OpenWorkflow(r)
  <2>1. CASE Broken(r, "trace", "over", "running")
    BY <1>0, <1>3, <2>1, BrokenCourse DEF OpenWorkflow, Phases, Statuses, Early
  <2>2. CASE ~Broken(r, "trace", "over", "running")
    <3> DEFINE pc == IF run[r].gone THEN "over" ELSE IF run[r].kind = "start" THEN "load" ELSE "resume"
    <3>1. /\ Goto(r, pc) /\ opened' = Append(opened, r) /\ thread' = thread /\ run[r].pc = "open"
      BY <1>3, <2>2 DEF OpenWorkflow, Continue
    <3>2. pc \in Phases \ Early
      BY DEF Phases, Early
    <3> HIDE DEF pc
    <3>3. run'[r].pc = pc /\ run'[r].kind = run[r].kind /\ run'[r].trace = run[r].trace
      BY <1>0, <3>1, <3>2, GotoOK
    <3> QED
      BY <3>1, <3>2, <3>3 DEF Course
  <2> QED
    BY <2>1, <2>2
<1>4. CASE Resume(r)
  <2>1. run[r].pc = "resume"
    BY <1>4 DEF Resume
  <2>2. CASE \E pc \in {"over", "close"} : Broken(r, "audit", pc, "failed")
    BY <1>0, <2>1, <2>2, BrokenCourse DEF Phases, Statuses, Early
  <2>3. CASE Continue(r, "load") /\ UNCHANGED <<thread, opened>>
    BY <1>0, <2>1, <2>3, GotoCourse DEF Continue, Phases, Early
  <2> QED
    BY <1>4, <2>2, <2>3 DEF Resume
<1>5. CASE Load(r)
  <2> DEFINE from == IF run[r].kind = "start" THEN "Supervisor" ELSE thread
  <2>1. /\ run[r].pc = "load" /\ thread' = from /\ opened' = opened
        /\ run'[r].pc \in {"snapshot", "enter"}
        /\ run'[r].kind = run[r].kind /\ run'[r].trace = run[r].trace
    BY <1>0, <1>5 DEF Load, TypeOK, Runs
  <2>2. from # "none"
    <3>1. run[r].kind \in Kinds /\ run[r].kind # "none"
      BY <1>0, <2>1 DEF Local, RunOK, Runs
    <3>2. run[r].kind \in {"decision", "retry"} => thread # "none"
      BY DEF IInv, TraceOK
    <3> QED
      BY <3>1, <3>2 DEF Kinds
  <2> QED
    BY <2>1, <2>2 DEF Course, Early
<1>6. CASE Blocked(r)
  BY <1>0, <1>6 DEF Blocked, Course, Early, TypeOK, Runs
<1>7. CASE Announce(r)
  <2>1. run[r].pc = "enter" /\ UNCHANGED <<thread, opened>>
    BY <1>7 DEF Announce, Broken
  <2>2. CASE Broken(r, "audit", "return", "failed")
    BY <1>0, <2>1, <2>2, BrokenCourse DEF Phases, Statuses, Early
  <2>3. CASE Goto(r, "span")
    BY <1>0, <2>1, <2>3, GotoCourse DEF Phases, Early
  <2> QED
    BY <1>7, <2>2, <2>3 DEF Announce
<1>8. CASE OpenNode(r)
  <2>1. run[r].pc \in {"enter", "span"} /\ UNCHANGED <<thread, opened>>
    BY <1>8 DEF OpenNode, Broken
  <2>2. CASE Broken(r, "trace", "return", "failed")
    BY <1>0, <2>1, <2>2, BrokenCourse DEF Phases, Statuses, Early
  <2>3. CASE \E pc \in {"agent", "call"} : Goto(r, pc)
    BY <1>0, <2>1, <2>3, GotoCourse DEF Phases, Early
  <2> QED
    BY <1>8, <2>2, <2>3 DEF OpenNode
<1>9. CASE AgentEnter(r)
  <2>1. run[r].pc = "agent" /\ UNCHANGED <<thread, opened>>
    BY <1>9 DEF AgentEnter, Broken
  <2>2. CASE Broken(r, "audit", "return", "failed")
    BY <1>0, <2>1, <2>2, BrokenCourse DEF Phases, Statuses, Early
  <2>3. CASE Goto(r, "call")
    BY <1>0, <2>1, <2>3, GotoCourse DEF Phases, Early
  <2> QED
    BY <1>9, <2>2, <2>3 DEF AgentEnter
<1>10. CASE Call(r)
  BY <1>0, <1>10 DEF Call, Course, Early, TypeOK, Runs
<1>11. CASE ToolStart(r)
  <2>1. run[r].pc = "call" /\ UNCHANGED <<thread, opened>>
    BY <1>11 DEF ToolStart, Broken
  <2>2. CASE Broken(r, "trace", "finish", "failed")
    BY <1>0, <2>1, <2>2, BrokenCourse DEF Phases, Statuses, Early
  <2>3. CASE Goto(r, "record")
    BY <1>0, <2>1, <2>3, GotoCourse DEF Phases, Early
  <2> QED
    BY <1>11, <2>2, <2>3 DEF ToolStart
<1>12. CASE ToolRecord(r)
  <2>1. run[r].pc = "record" /\ UNCHANGED <<thread, opened>>
    BY <1>12 DEF ToolRecord, Broken
  <2>2. CASE Broken(r, "audit", "toolend", "failed")
    BY <1>0, <2>1, <2>2, BrokenCourse DEF Phases, Statuses, Early
  <2>3. CASE \E result : run' = [run EXCEPT ![r].pc = "toolend", ![r].result = result]
    BY <1>0, <2>1, <2>3 DEF Course, Early, TypeOK, Runs
  <2> QED
    BY <1>12, <2>2, <2>3 DEF ToolRecord
<1>13. CASE ToolEnd(r)
  <2>1. run[r].pc = "toolend" /\ UNCHANGED <<thread, opened>>
    BY <1>13 DEF ToolEnd, Broken
  <2>2. CASE \E kind \in {"audit", "trace"} : Broken(r, kind, "finish", "failed")
    BY <1>0, <2>1, <2>2, BrokenCourse DEF Phases, Statuses, Early
  <2>3. CASE Goto(r, "finish")
    BY <1>0, <2>1, <2>3, GotoCourse DEF Phases, Early
  <2> QED
    BY <1>13, <2>2, <2>3 DEF ToolEnd
<1>14. CASE NodeEnd(r)
  <2>1. run[r].pc = "finish" /\ UNCHANGED <<thread, opened>>
    BY <1>14 DEF NodeEnd, Broken
  <2>2. CASE Broken(r, "trace", "return", "failed")
    BY <1>0, <2>1, <2>2, BrokenCourse DEF Phases, Statuses, Early
  <2>3. CASE \E pc \in {"exit", "return"} : Goto(r, pc)
    BY <1>0, <2>1, <2>3, GotoCourse DEF Phases, Early
  <2> QED
    BY <1>14, <2>2, <2>3 DEF NodeEnd
<1>15. CASE AgentExit(r)
  <2>1. run[r].pc = "exit" /\ UNCHANGED <<thread, opened>>
    BY <1>15 DEF AgentExit, Broken
  <2>2. CASE Broken(r, "audit", "return", "failed")
    BY <1>0, <2>1, <2>2, BrokenCourse DEF Phases, Statuses, Early
  <2>3. CASE Goto(r, "return")
    BY <1>0, <2>1, <2>3, GotoCourse DEF Phases, Early
  <2> QED
    BY <1>15, <2>2, <2>3 DEF AgentExit
<1>16. CASE Return(r)
  <2>1. run[r].pc = "return" /\ run[r].at \in Nodes
    BY <1>0, <1>16 DEF Return, Local, RunOK, InNode
  <2>2. CASE Save(r)
    <3>1. PICK next \in After(r) :
            /\ thread' = next
            /\ run' = [run EXCEPT ![r].at = NodeOf(next),
                                  ![r].pc = IF next = "end" THEN "snapshot" ELSE "enter"]
      BY <2>2 DEF Save
    <3>2. next # "none"
      BY <2>1, <3>1 DEF After, Nodes
    <3>3. /\ run'[r].pc \in {"snapshot", "enter"}
          /\ run'[r].kind = run[r].kind /\ run'[r].trace = run[r].trace
      BY <1>0, <3>1 DEF TypeOK, Runs
    <3>4. opened' = opened
      BY <2>2 DEF Save
    <3> QED
      BY <2>1, <3>1, <3>2, <3>3, <3>4 DEF Course, Early
  <2>3. CASE Interrupt(r)
    BY <1>0, <2>1, <2>3, GotoCourse DEF Interrupt, Phases, Early
  <2>4. CASE Retry(r)
    BY <1>0, <2>1, <2>4, GotoCourse DEF Retry, Phases, Early
  <2>5. CASE Raise(r)
    BY <1>0, <2>1, <2>5, GotoCourse DEF Raise, Phases, Early
  <2>6. CASE Drop(r)
    BY <1>0, <2>1, <2>6, GotoCourse DEF Drop, Phases, Early
  <2> QED
    BY <1>16, <2>2, <2>3, <2>4, <2>5, <2>6 DEF Return
<1>17. CASE Snapshot(r)
  BY <1>0, <1>17 DEF Snapshot, Course, Early, TypeOK, Runs
<1>18. CASE Close(r)
  <2>1. run[r].pc = "close" /\ UNCHANGED <<thread, opened>>
    BY <1>18 DEF Close, Broken
  <2>2. CASE \E pc \in {"over", "close"} : Broken(r, "trace", pc, "failed")
    BY <1>0, <2>1, <2>2, BrokenCourse DEF Phases, Statuses, Early
  <2>3. CASE Goto(r, "over")
    BY <1>0, <2>1, <2>3, GotoCourse DEF Phases, Early
  <2> QED
    BY <1>18, <2>2, <2>3 DEF Close
<1>19. CASE Disconnect(r)
  <2>1. run[r].pc \notin {"idle", "over"} /\ UNCHANGED <<thread, opened>>
    BY <1>19 DEF Disconnect, InFlight
  <2>2. CASE run' = [run EXCEPT ![r].gone = TRUE, ![r].hit = TRUE]
    <3>1. run'[r].pc = run[r].pc /\ run'[r].kind = run[r].kind /\ run'[r].trace = run[r].trace
      BY <1>0, <2>2 DEF TypeOK, Runs
    <3> QED
      BY <2>1, <3>1 DEF Course, Early
  <2>3. CASE run' = [run EXCEPT ![r] = Over([@ EXCEPT !.hit = TRUE])]
    <3> DEFINE hit == [run[r] EXCEPT !.hit = TRUE]
    <3>1. hit \in Runs /\ hit.kind = run[r].kind /\ hit.trace = run[r].trace
      BY <1>0 DEF Runs
    <3>2. run'[r] = Over(hit)
      BY <1>0, <2>3 DEF TypeOK
    <3> HIDE DEF hit
    <3>3. run'[r].pc = "over" /\ run'[r].kind = run[r].kind /\ run'[r].trace = run[r].trace
      BY <3>1, <3>2, OverRun
    <3> QED
      BY <2>1, <3>3 DEF Course, Early
  <2> QED
    BY <1>19, <2>2, <2>3 DEF Disconnect
<1> QED
  BY <1>1, <1>2, <1>3, <1>4, <1>5, <1>6, <1>7, <1>8, <1>9, <1>10, <1>11, <1>12, <1>13, <1>14,
     <1>15, <1>16, <1>17, <1>18, <1>19 DEF Step

\* What a run that takes its course leaves of the trace of the incident.
LEMMA TraceStep ==
  ASSUME IInv, TypeOK', NEW r \in Requests, Course(r),
         \A q \in Requests : q # r => run'[q] = run[q]
  PROVE  TraceOK' /\ ResumeSharesTrace'
<1>0. TypeOK /\ TraceOK /\ ResumeSharesTrace
  BY DEF IInv
<1>1. /\ opened \in Seq(Requests) /\ opened' \in Seq(Requests)
      /\ opened' = opened \/ opened' = Append(opened, r)
      /\ opened # <<>> => opened' # <<>> /\ opened'[1] = opened[1] /\ 1 \in DOMAIN opened
      /\ DOMAIN opened = 1 .. Len(opened)
  <2>1. opened \in Seq(Requests) /\ opened' \in Seq(Requests)
    BY <1>0 DEF TypeOK
  <2>2. opened' = opened \/ opened' = Append(opened, r)
    BY DEF Course
  <2> QED
    BY <2>1, <2>2
<1>2. \A q \in Requests : run[q].kind \in {"decision", "retry"} => thread # "none" /\ opened # <<>>
  BY <1>0 DEF TraceOK
<1>3. thread # "none" => thread' # "none"
  BY DEF Course
<1>4. thread' # "none" => opened' # <<>>
  <2>1. CASE thread' = thread
    BY <1>0, <1>1, <2>1 DEF TraceOK
  <2>2. CASE run[r].pc \in {"load", "return"}
    BY <1>0, <1>1, <2>2 DEF TraceOK
  <2> QED
    BY <2>1, <2>2 DEF Course
<1>5. \A q \in Requests : run'[q].pc \notin {"idle", "read", "open", "over"} => opened' # <<>>
  <2> SUFFICES ASSUME NEW q \in Requests, run'[q].pc \notin {"idle", "read", "open", "over"}
               PROVE  opened' # <<>>
    OBVIOUS
  <2>1. CASE run[q].pc \notin {"idle", "read", "open", "over"}
    BY <1>0, <1>1, <2>1 DEF TraceOK
  <2>2. CASE run[q].pc \in {"idle", "read", "open", "over"}
    <3>1. q = r
      BY <2>2
    <3>2. opened' = Append(opened, r)
      BY <2>2, <3>1 DEF Course, Early
    <3> QED
      BY <1>1, <3>2
  <2> QED
    BY <2>1, <2>2
<1>6. \A q \in Requests : run'[q].kind \in {"decision", "retry"} => thread' # "none"
  <2> SUFFICES ASSUME NEW q \in Requests, run'[q].kind \in {"decision", "retry"}
               PROVE  thread # "none"
    BY <1>3
  <2>1. CASE run'[q].kind = run[q].kind
    BY <1>2, <2>1
  <2>2. CASE run'[q].kind # run[q].kind
    BY <2>2 DEF Course
  <2> QED
    BY <2>1, <2>2
<1>7. opened # <<>> => run'[opened[1]].trace = run[opened[1]].trace
  <2> SUFFICES ASSUME opened # <<>>
               PROVE  run'[opened[1]].trace = run[opened[1]].trace
    OBVIOUS
  <2>1. opened[1] \in Requests /\ run[opened[1]].pc \notin Early
    BY <1>0, <1>1 DEF TraceOK, Early
  <2>2. CASE opened[1] = r
    BY <2>1, <2>2 DEF Course, Early
  <2>3. CASE opened[1] # r
    BY <2>1, <2>3
  <2> QED
    BY <2>2, <2>3
<1>8. ASSUME NEW q \in Requests, run'[q].kind \in {"decision", "retry"},
             run'[q].pc \notin {"idle", "read", "over"}
      PROVE  run'[q].trace = run'[opened'[1]].trace
  <2>1. CASE run'[q] = run[q]
    BY <1>0, <1>1, <1>2, <1>7, <1>8, <2>1 DEF TraceOK
  <2>2. CASE run'[q] # run[q]
    <3>1. q = r
      BY <2>2
    <3>2. CASE run[r].pc = "read"
      <4>1. run'[r].kind = run[r].kind /\ run'[r].trace = TraceOfIncident(r)
        BY <1>8, <3>1, <3>2 DEF Course, Early
      <4>2. opened # <<>>
        BY <1>2, <1>8, <3>1, <4>1
      <4>3. run'[r].trace = run[opened[1]].trace
        BY <4>1, <4>2 DEF TraceOfIncident
      <4> QED
        BY <1>1, <1>7, <3>1, <4>2, <4>3
    <3>3. CASE run[r].pc # "read"
      <4>1. /\ run[r].pc \notin {"idle", "read", "over"}
            /\ run'[r].kind = run[r].kind /\ run'[r].trace = run[r].trace
        BY <1>8, <3>1, <3>3 DEF Course, Early
      <4>2. opened # <<>> /\ run[r].trace = run[opened[1]].trace
        BY <1>0, <1>2, <1>8, <3>1, <4>1 DEF TraceOK
      <4> QED
        BY <1>1, <1>7, <3>1, <4>1, <4>2
    <3> QED
      BY <3>2, <3>3
  <2> QED
    BY <2>1, <2>2
<1>9. \A i \in DOMAIN opened' : opened'[i] \in Requests /\ run'[opened'[i]].pc \notin Early
  <2> SUFFICES ASSUME NEW i \in DOMAIN opened'
               PROVE  opened'[i] \in Requests /\ run'[opened'[i]].pc \notin Early
    OBVIOUS
  <2>1. opened'[i] \in Requests
    BY <1>1
  <2>2. CASE i \in DOMAIN opened
    <3>1. opened'[i] = opened[i] /\ run[opened[i]].pc \notin Early
      BY <1>0, <1>1, <2>2 DEF TraceOK, Early
    <3> QED
      BY <2>1, <3>1 DEF Course, Early
  <2>3. CASE i \notin DOMAIN opened
    <3>1. opened' = Append(opened, r) /\ opened'[i] = r
      BY <1>1, <2>3
    <3>2. opened' # opened
      <4>1. Len(opened') = Len(opened) + 1 /\ Len(opened) \in Nat
        BY <1>1, <3>1
      <4> QED
        BY <4>1
    <3> QED
      BY <2>1, <3>1, <3>2 DEF Course
  <2> QED
    BY <2>2, <2>3
<1>10. TraceOK'
  BY <1>4, <1>5, <1>6, <1>8, <1>9 DEF TraceOK, Early
<1>11. ResumeSharesTrace'
  <2> SUFFICES ASSUME NEW i \in DOMAIN opened', run'[opened'[i]].kind # "start"
               PROVE  run'[opened'[i]].trace = run'[opened'[1]].trace
    BY DEF ResumeSharesTrace
  <2>1. CASE i \in DOMAIN opened
    <3> DEFINE q == opened[i]
    <3>1. opened'[i] = q /\ q \in Requests /\ run[q].pc \notin Early /\ opened # <<>>
      BY <1>0, <1>1, <2>1 DEF TraceOK, Early
    <3>2. run'[q].kind = run[q].kind /\ run'[q].trace = run[q].trace
      BY <3>1 DEF Course, Early
    <3>3. run[q].trace = run[opened[1]].trace
      BY <1>0, <2>1, <3>1, <3>2 DEF ResumeSharesTrace
    <3> QED
      BY <1>1, <1>7, <3>1, <3>2, <3>3
  <2>2. CASE i \notin DOMAIN opened
    <3>1. opened' = Append(opened, r) /\ opened'[i] = r /\ Len(opened') # Len(opened)
      BY <1>1, <2>2
    <3>2. run[r].pc = "open" /\ run'[r].kind = run[r].kind /\ run'[r].trace = run[r].trace
      BY <3>1 DEF Course
    <3>3. run[r].kind \in {"decision", "retry"}
      BY <3>1, <3>2 DEF IInv, Local, RunOK, TypeOK, Runs, Kinds
    <3>4. opened # <<>> /\ run[r].trace = run[opened[1]].trace
      BY <1>0, <1>2, <3>2, <3>3 DEF TraceOK
    <3> QED
      BY <1>1, <1>7, <3>1, <3>2, <3>4
  <2> QED
    BY <2>1, <2>2
<1> QED
  BY <1>10, <1>11

(***************************************************************************)
(* What was saved and what was called.                                     *)
(***************************************************************************)

\* A visit is saved when its span and its events are there, and they stay.
LEMMA SavedStep ==
  ASSUME IInv, TypeOK', Lasting, events \subseteq events',
         kept' = kept \/ \E r \in Requests : Return(r) /\ ~run[r].gone /\ Save(r)
  PROVE  SavedIsTraced'
<1>0. TypeOK /\ SavedIsTraced
  BY DEF IInv
<1> SUFFICES ASSUME NEW visit \in kept'
             PROVE  LET r == visit[1]  n == visit[2]  a == visit[3]
                    IN  /\ a <= Len(spans'[r][n]) /\ spans'[r][n][a] = "succeeded"
                        /\ n \in Agents => /\ Event(r, n, "agent_enter", a, "running") \in events'
                                           /\ Event(r, n, "agent_exit", a, "succeeded") \in events'
  BY DEF SavedIsTraced, Event
<1> DEFINE r == visit[1]
           n == visit[2]
           a == visit[3]
<1>1. r \in Requests /\ n \in Names /\ a \in 1 .. MaxAttempts
  BY NamesOK DEF TypeOK
<1>2. /\ a <= Len(spans[r][n]) /\ spans[r][n][a] = "succeeded"
      /\ n \in Agents => /\ Event(r, n, "agent_enter", a, "running") \in events
                         /\ Event(r, n, "agent_exit", a, "succeeded") \in events
  <2>1. CASE visit \in kept
    BY <1>0, <2>1 DEF SavedIsTraced, Event
  <2>2. CASE visit \notin kept
    <3>1. PICK q \in Requests : Return(q) /\ Save(q)
      BY <2>2
    <3>2. /\ visit = <<q, run[q].at, Len(spans[q][run[q].at])>> /\ Len(spans[q][run[q].at]) # 0
          /\ run[q].pc = "return" /\ run[q].result = "succeeded"
      BY <2>2, <3>1 DEF Save, Return, Attempt
    <3>3. r = q /\ n = run[q].at /\ a = Len(spans[q][run[q].at]) /\ a > 0
      BY <1>1, <3>2
    <3>4. EventsOK(q)
      BY DEF IInv, Local
    <3> HIDE DEF r, n, a
    <3> QED
      BY <3>2, <3>3, <3>4, <1>1 DEF EventsOK, Logged
  <2> QED
    BY <2>1, <2>2
<1>3. a \in DOMAIN spans[r][n]
  BY <1>0, <1>1, <1>2 DEF TypeOK
<1>4. a \in DOMAIN spans'[r][n] /\ spans'[r][n][a] = "succeeded"
  BY <1>1, <1>2, <1>3 DEF Lasting
<1>5. a <= Len(spans'[r][n])
  BY <1>1, <1>4 DEF TypeOK
<1> QED
  BY <1>2, <1>4, <1>5

\* A run that calls the handlers has announced it.
LEMMA ActedStep ==
  ASSUME IInv, events \subseteq events',
         acted' = acted \/ \E r \in Requests : Call(r)
  PROVE  ActionsAreAnnounced'
<1> SUFFICES ASSUME NEW q \in acted'
             PROVE  \E e \in events' : e.run = q /\ e.type = "repair_execute"
  BY DEF ActionsAreAnnounced
<1>1. CASE q \in acted
  BY <1>1 DEF IInv, ActionsAreAnnounced
<1>2. CASE q \notin acted
  <2>1. PICK r \in Requests : Call(r)
    BY <1>2
  <2>2. q = r /\ run[r].pc = "call" /\ run[r].at = "Execute"
    BY <1>2, <2>1 DEF Call
  <2>3. EventsOK(r)
    BY DEF IInv, Local
  <2> QED
    BY <2>2, <2>3 DEF EventsOK
<1> QED
  BY <1>1, <1>2

\* Only Return saves updates and only Call calls handlers.
LEMMA HistoryStep ==
  ASSUME NEW r \in Requests, Accept(r) \/ Step(r) \/ Disconnect(r)
  PROVE  /\ kept' = kept \/ (Return(r) /\ ~run[r].gone /\ Save(r))
         /\ acted' = acted \/ Call(r)
<1>1. CASE Return(r)
  BY <1>1 DEF Return, Save, Interrupt, Retry, Raise, Drop
<1>2. CASE Call(r)
  BY <1>2 DEF Call
<1>3. CASE Accept(r) \/ ReadTrace(r) \/ OpenWorkflow(r) \/ Resume(r) \/ Load(r)
  BY <1>3 DEF Accept, ReadTrace, OpenWorkflow, Resume, Load, Broken
<1>4. CASE Blocked(r) \/ Announce(r) \/ OpenNode(r) \/ AgentEnter(r) \/ ToolStart(r)
  BY <1>4 DEF Blocked, Announce, OpenNode, AgentEnter, ToolStart, Broken
<1>5. CASE ToolRecord(r) \/ ToolEnd(r) \/ NodeEnd(r) \/ AgentExit(r)
  BY <1>5 DEF ToolRecord, ToolEnd, NodeEnd, AgentExit, Broken
<1>6. CASE Snapshot(r) \/ Close(r) \/ Disconnect(r)
  BY <1>6 DEF Snapshot, Close, Disconnect, Broken
<1> QED
  BY <1>1, <1>2, <1>3, <1>4, <1>5, <1>6 DEF Step

(***************************************************************************)
(* The theorems.                                                           *)
(***************************************************************************)

\* A step of one request keeps what every run keeps about itself.
LEMMA StepOK ==
  ASSUME IInv, NEW r \in Requests, Accept(r) \/ Step(r) \/ Disconnect(r)
  PROVE  TypeOK' /\ Local(r)' /\ Framed(r) /\ Lasting
BY AcceptOK, ReadTraceOK, OpenWorkflowOK, ResumeOK, LoadOK, BlockedOK, AnnounceOK, OpenNodeOK,
   AgentEnterOK, CallOK, ToolStartOK, ToolRecordOK, ToolEndOK, NodeEndOK, AgentExitOK, ReturnOK,
   SnapshotOK, CloseOK, DisconnectOK DEF Step

\* The invariant holds at the start, and every step keeps it and ends no span twice.
LEMMA InitOK ==
  ASSUME Init
  PROVE  IInv
<1>1. run \in [Requests -> Runs] /\ \A r \in Requests : run[r] = Idle
  BY DEF Init, Idle, Runs, Phases, Kinds, Statuses
<1>2. /\ spans \in [Requests -> [Names -> Seq(Statuses)]]
      /\ \A r \in Requests, n \in Names : spans[r][n] = <<>> /\ Len(spans[r][n]) = 0
  BY DEF Init
<1>3. TypeOK
  BY <1>1, <1>2, AttemptAssumption DEF Init, TypeOK, Threads
<1>4. ASSUME NEW r \in Requests
      PROVE  Local(r)
  <2>0. {"workflow", "tool", "DiagnosisAgent"} \subseteq Names
    BY DEF Names, Nodes
  <2>1. RunOK(r)
    BY <1>1 DEF RunOK, Idle, InNode, Judged
  <2>2. SpansOK(r)
    BY <1>1, <1>2, <2>0 DEF SpansOK, Idle, Before, InNode, Judged, Visited
  <2>3. EventsOK(r)
    BY <1>1 DEF EventsOK, Idle, Visited, Init
  <2>4. OpenOK(r)
    BY <1>2 DEF OpenOK
  <2> QED
    BY <2>1, <2>2, <2>3, <2>4 DEF Local
<1>5. TraceOK
  BY <1>1 DEF TraceOK, Init, Idle
<1> QED
  BY <1>3, <1>4, <1>5 DEF IInv, Init, SavedIsTraced, ActionsAreAnnounced, ResumeSharesTrace

LEMMA NextOK ==
  ASSUME IInv, [Next]_vars
  PROVE  IInv' /\ Lasting
<1>1. CASE \E r \in Requests : Accept(r) \/ Step(r) \/ Disconnect(r)
  <2>1. PICK r \in Requests : Accept(r) \/ Step(r) \/ Disconnect(r)
    BY <1>1
  <2>2. TypeOK' /\ Local(r)' /\ Framed(r) /\ Lasting
    BY <2>1, StepOK
  <2>3. ASSUME NEW q \in Requests
        PROVE  Local(q)'
    <3>1. CASE q = r
      BY <2>2, <3>1
    <3>2. CASE q # r
      BY <2>2, <3>2, FrameOK DEF IInv
    <3> QED
      BY <3>1, <3>2
  <2>4. TraceOK' /\ ResumeSharesTrace'
    BY <2>1, <2>2, StepCourse, TraceStep DEF Framed
  <2>5. SavedIsTraced'
    BY <2>1, <2>2, HistoryStep, SavedStep DEF Framed
  <2>6. ActionsAreAnnounced'
    BY <2>1, <2>2, HistoryStep, ActedStep DEF Framed
  <2> QED
    BY <2>2, <2>3, <2>4, <2>5, <2>6 DEF IInv
<1>2. CASE Restart
  <2>1. TypeOK' /\ (\A r \in Requests : Local(r)') /\ Lasting
    BY <1>2, RestartOK
  <2>2. UNCHANGED <<thread, opened, spans, events, acted, kept>>
    BY <1>2 DEF Restart
  <2>3. ASSUME NEW r \in Requests
        PROVE  /\ run'[r].kind = run[r].kind /\ run'[r].trace = run[r].trace
               /\ run'[r].pc = run[r].pc \/ run'[r].pc = "over"
    <3> DEFINE it == [run[r] EXCEPT !.hit = TRUE]
    <3>1. it \in Runs /\ it.kind = run[r].kind /\ it.trace = run[r].trace
      BY DEF IInv, TypeOK, Runs
    <3>2. run'[r] = Over(it) \/ run'[r] = run[r]
      BY <1>2 DEF Restart
    <3> HIDE DEF it
    <3> QED
      BY <3>1, <3>2, OverRun
  <2>4. \A i \in DOMAIN opened : opened[i] \in Requests
    BY DEF IInv, TypeOK
  <2>5. opened # <<>> => 1 \in DOMAIN opened
    BY DEF IInv, TypeOK
  <2>6. TraceOK'
    BY <2>2, <2>3, <2>4, <2>5 DEF IInv, TraceOK
  <2>7. ResumeSharesTrace'
    BY <2>2, <2>3, <2>4, <2>5 DEF IInv, ResumeSharesTrace
  <2>8. SavedIsTraced'
    BY <2>1, <2>2, SavedStep
  <2>9. ActionsAreAnnounced'
    BY <2>2, ActedStep
  <2> QED
    BY <2>1, <2>6, <2>7, <2>8, <2>9 DEF IInv
<1>3. CASE UNCHANGED vars
  <2>1. IInv'
    BY <1>3 DEF vars, IInv, TypeOK, Local, RunOK, SpansOK, EventsOK, OpenOK, TraceOK,
                SavedIsTraced, ActionsAreAnnounced, ResumeSharesTrace, Logged
  <2> QED
    BY <1>3, <2>1 DEF vars, Lasting
<1> QED
  BY <1>1, <1>2, <1>3 DEF Next

\* The invariant holds in every state of every run of the service.
THEOREM TraceInductive == Spec => []IInv
BY InitOK, NextOK, PTL DEF Spec

\* Every variable keeps its type: no node is visited more often than a run may visit it, and
\* every span and event of the two stores is one of the kinds the store knows.
THEOREM TraceTypeCorrect == Spec => []TypeOK
<1>1. IInv => TypeOK
  BY DEF IInv
<1> QED
  BY <1>1, TraceInductive, PTL

\* What a node's update leaves in the checkpoint is backed by a succeeded span and both
\* lifecycle events, whatever store fails, whoever disconnects or retries and however many
\* requests race.
THEOREM SavedTraced == Spec => []SavedIsTraced
<1>1. IInv => SavedIsTraced
  BY DEF IInv
<1> QED
  BY <1>1, TraceInductive, PTL

\* No action handler is called before the audit log says so.
THEOREM Announcing == Spec => []ActionsAreAnnounced
<1>1. IInv => ActionsAreAnnounced
  BY DEF IInv
<1> QED
  BY <1>1, TraceInductive, PTL

\* Decisions and retries continue the trace of the incident's first span, also when two
\* starts raced for it.
THEOREM TraceShared == Spec => []ResumeSharesTrace
<1>1. IInv => ResumeSharesTrace
  BY DEF IInv
<1> QED
  BY <1>1, TraceInductive, PTL

\* A run that no fault hit leaves no span open.
THEOREM SpansClosed == Spec => []OpenSpanMeansFault
<1>1. ASSUME IInv
      PROVE  OpenSpanMeansFault
  <2> SUFFICES ASSUME NEW r \in Requests, run[r].pc = "over", ~run[r].hit,
                      NEW n \in Names, NEW i \in DOMAIN spans[r][n]
               PROVE  spans[r][n][i] # "running"
    BY DEF OpenSpanMeansFault
  <2>1. OpenOK(r)
    BY <1>1 DEF IInv, Local
  <2> QED
    BY <2>1 DEF OpenOK, InNode, Visited
<1> QED
  BY <1>1, TraceInductive, PTL

\* A span ends once: neither the end of a run nor the handler of a cancelled stream writes
\* over how it ended.
THEOREM SpansFinishedOnce == Spec => FinishedOnce
<1>1. IInv /\ [Next]_vars => [Lasting]_vars
  BY NextOK
<1> QED
  BY <1>1, TraceInductive, PTL DEF Spec, FinishedOnce, Lasting

(***************************************************************************)
(* The dashboard, when clients take turns.                                 *)
(*                                                                         *)
(* The metrics read the stores, the truth is in the checkpoint.  One run   *)
(* is in flight at a time and speaks for the incident, so where it is says *)
(* where the checkpoint is, how its workflow span can end and which of its *)
(* tool calls are in the audit log.                                        *)
(***************************************************************************)

Working == InNode \ {"enter"}
Past(r) == run[r].pc \notin Early \union {"over"}
Status(r)  == spans[r]["workflow"][1]
Resumed(r) == \E e \in events : e.run = r /\ e.type = "resume"
Paused     == \E e \in events : e.type = "approval_pause"

Alone == \A r, q \in Requests : InFlight(r) /\ InFlight(q) => r = q

\* The run in flight is the one whose span was opened last, and all share one trace.
OneTrace ==
  /\ \A r \in Requests : Past(r) => opened # <<>> /\ r = LatestWorkflow
  /\ \A i \in DOMAIN opened : Len(spans[opened[i]]["workflow"]) = 1
  /\ \A i \in DOMAIN opened : run[opened[i]].trace = run[opened[1]].trace
  /\ \A r \in Requests : run[r].pc = "open" => run[r].trace = TraceOfIncident(r)
  /\ \A e \in events : \E i \in DOMAIN opened : opened[i] = e.run

\* What the workflow span of the run that was last says of the checkpoint.
Ended(r) ==
  /\ Status(r) = "succeeded" => thread = "end"
  /\ ~run[r].hit => /\ Status(r) = "interrupted" => thread = "waiting"
                    /\ Status(r) = "failed" => thread # "end"

\* Where a run and the checkpoint are.
Place(r) ==
  LET it == run[r]
  IN  /\ it.pc \in InNode => NodeOf(thread) = it.at
      /\ it.pc = "snapshot" => thread \in {"waiting", "end"}
      /\ it.pc = "close" /\ it.result = "succeeded" => thread = "end"
      /\ it.pc = "close" /\ it.result = "interrupted" => thread = "waiting"
      /\ it.pc = "close" /\ it.result = "failed" /\ ~it.hit => thread # "end"
      /\ it.pc = "over" /\ opened # <<>> /\ r = LatestWorkflow => Ended(r)
      /\ Past(r) => Status(r) = "running" \/ (Status(r) = "interrupted" /\ it.hit)
      /\ it.pc \in Judged /\ it.result = "interrupted" => it.at = "Approval"
      /\ it.pc \in Judged /\ it.result = "succeeded" /\ it.at = "Approval" => it.kind = "decision"
      /\ it.answer => it.kind = "decision"
      /\ it.pc = "resume" => it.kind \in {"decision", "retry"}
      /\ it.kind \in {"decision", "retry"} /\ ~it.hit /\ it.pc \notin Early \union {"resume"} => Resumed(r)

\* Which tool calls of a run the audit log has: one per span, as it ended.
Verdict(it) == IF it.result = "succeeded" THEN "succeeded" ELSE "failed"
ToolOK(r) ==
  LET s == spans[r]["tool"]
  IN  /\ \A e \in events : e.run = r /\ e.type = "tool_call" =>
           /\ e.node = "tool" /\ e.attempt <= Len(s)
           /\ run[r].pc = "record" => e.attempt < Len(s)
      /\ ~run[r].hit => \A i \in DOMAIN s : s[i] # "running" => Logged(r, "tool", "tool_call", i, s[i])
      /\ ~run[r].hit /\ run[r].pc = "toolend" =>
           Logged(r, "tool", "tool_call", Len(s), Verdict(run[r]))

SameKey(e, f) == e.run = f.run /\ e.node = f.node /\ e.type = f.type /\ e.attempt = f.attempt
OneEach == \A e, f \in events : SameKey(e, f) => e = f

\* Who resumed, and that a decision came before a retry.
Deciding ==
  /\ thread = "approved" => Decided
  /\ \A r \in Requests : run[r].kind = "retry" => Decided
  /\ \A e \in events : e.type = "resume" => run[e.run].kind \in {"decision", "retry"}

\* Nobody gets past the approval unannounced.
Pausing ==
  Undisturbed =>
    /\ thread \in {"waiting", "approved"} => Paused
    /\ thread = "Approval" => Paused \/ \E r \in Requests : run[r].pc = "enter" /\ run[r].at = "Approval"
    /\ \A r \in Requests : run[r].kind \in {"decision", "retry"} => Paused
    /\ \A r \in Requests : run[r].pc \in Working /\ run[r].at = "Approval" => Paused

SInv ==
  /\ Alone /\ OneTrace /\ OneEach /\ Deciding /\ Pausing
  /\ \A r \in Requests : Place(r) /\ ToolOK(r)
  /\ IsFiniteSet(events)

(***************************************************************************)
(* Steps of the one run in flight.                                         *)
(***************************************************************************)

\* How a step moves the checkpoint, and how it comes to the approval and past it.
Leads(r) ==
  LET it == run[r]  jt == run'[r]
  IN  /\ it.hit => jt.hit
      /\ thread' # thread => it.pc \in {"load", "return"}
      /\ thread' \in {"waiting", "approved"} => thread' = thread \/ (it.pc = "return" /\ it.at = "Approval")
      /\ thread' = "approved" => thread' = thread \/ it.kind = "decision"
      /\ thread' = "Approval" => thread' = thread \/ (jt.pc = "enter" /\ jt.at = "Approval")
      /\ ~jt.hit /\ it.at = "Approval" /\ it.pc = "enter" => jt.at = "Approval" /\ jt.pc \in Working
      /\ ~jt.hit /\ jt.at = "Approval" /\ jt.pc \in Working =>
           \/ it.at = "Approval" /\ it.pc \in Working
           \/ it.kind \in {"decision", "retry"}
           \/ Paused'
      /\ Len(spans'[r]["workflow"]) = IF opened' = opened THEN Len(spans[r]["workflow"]) ELSE 1

\* A request is accepted when nobody else is in flight and the checkpoint asks for it.
Accepts(r) ==
  run'[r].kind # run[r].kind =>
    /\ run[r].pc = "idle"
    /\ run'[r].kind = "retry" => thread = "approved"
    /\ run'[r].kind = "decision" => thread \in {"Approval", "waiting"}

Passes(r) == Place(r)' /\ ToolOK(r)' /\ Leads(r) /\ Accepts(r)

\* What the lemmas about the actions know.
Moving(r) == IInv /\ SInv /\ TypeOK' /\ Framed(r)

LEMMA Known ==
  ASSUME NEW r \in Requests, Moving(r)
  PROVE  /\ run[r] \in Runs /\ run'[r] \in Runs /\ RunOK(r) /\ SpansOK(r) /\ Place(r) /\ ToolOK(r)
         /\ opened \in Seq(Requests) /\ events \subseteq events'
         /\ \A e \in events' \ events : e.run = r
         /\ \A i \in DOMAIN opened : run[opened[i]].pc \notin Early
BY DEF Moving, IInv, SInv, TypeOK, Local, Framed, TraceOK, Early

\* The run that spoke last is one of those that opened their spans.
LEMMA LatestIsOpened ==
  ASSUME NEW s \in Seq(Requests), s # <<>>
  PROVE  Len(s) \in DOMAIN s /\ s[Len(s)] \in Requests /\ 1 \in DOMAIN s
OBVIOUS

\* Tool calls are as they were when no tool span and no such event is written.
LEMMA NoTool ==
  ASSUME NEW r \in Requests, Moving(r),
         spans'[r]["tool"] = spans[r]["tool"],
         run[r].hit => run'[r].hit,
         \A e \in events' \ events : e.type # "tool_call",
         run'[r].pc \notin {"record", "toolend"}
  PROVE  ToolOK(r)'
BY Known DEF ToolOK, Logged

\* A step within a node.
LEMMA InsideTool ==
  ASSUME NEW r \in Requests, Moving(r), ToolOK(r)',
         run[r].pc \in InNode, run'[r].pc \in InNode,
         run'[r].at = run[r].at, run'[r].kind = run[r].kind, run'[r].hit = run[r].hit,
         run'[r].answer => run[r].answer,
         thread' = thread, opened' = opened,
         spans'[r]["workflow"] = spans[r]["workflow"],
         run'[r].pc \in Judged /\ run'[r].result = "interrupted" => run[r].at = "Approval",
         run'[r].pc \in Judged /\ run'[r].result = "succeeded" /\ run[r].at = "Approval" =>
           run[r].kind = "decision",
         run[r].at = "Approval" =>
           /\ run'[r].pc # "enter"
           /\ run[r].pc = "enter" => run[r].kind \in {"decision", "retry"} \/ Paused'
  PROVE  Passes(r)
<1>2. /\ run'[r].pc \notin Early \union {"over", "snapshot", "close", "resume"}
      /\ run[r].pc \notin Early \union {"over", "resume"}
  BY DEF InNode, Early
<1>3. Resumed(r) => Resumed(r)'
  BY Known DEF Resumed
<1>4. Place(r)'
  BY <1>2, <1>3, Known DEF Place, Status, Past
<1>5. Leads(r) /\ Accepts(r)
  BY DEF Leads, Accepts, Working
<1> QED
  BY <1>4, <1>5 DEF Passes

\* A step within a node that calls no tool.
LEMMA InsideStep ==
  ASSUME NEW r \in Requests, Moving(r),
         run[r].pc \in InNode, run'[r].pc \in InNode \ {"record", "toolend"},
         run'[r].at = run[r].at, run'[r].kind = run[r].kind, run'[r].hit = run[r].hit,
         run'[r].answer => run[r].answer,
         thread' = thread, opened' = opened,
         spans'[r]["workflow"] = spans[r]["workflow"], spans'[r]["tool"] = spans[r]["tool"],
         \A e \in events' \ events : e.type # "tool_call",
         run'[r].pc \in Judged /\ run'[r].result = "interrupted" => run[r].at = "Approval",
         run'[r].pc \in Judged /\ run'[r].result = "succeeded" /\ run[r].at = "Approval" =>
           run[r].kind = "decision",
         run[r].at = "Approval" =>
           /\ run'[r].pc # "enter"
           /\ run[r].pc = "enter" => run[r].kind \in {"decision", "retry"} \/ Paused'
  PROVE  Passes(r)
<1>1. ToolOK(r)'
  BY NoTool
<1> QED
  BY <1>1, InsideTool

\* A run that is over because something hit it.
LEMMA StopsStep ==
  ASSUME NEW r \in Requests, Moving(r),
         run'[r].pc = "over", run'[r].hit, run'[r].kind = run[r].kind,
         run'[r].answer => run[r].answer,
         thread' = thread, opened' = opened \/ opened' = Append(opened, r),
         spans'[r]["tool"] = spans[r]["tool"],
         Len(spans'[r]["workflow"]) = IF opened' = opened THEN Len(spans[r]["workflow"]) ELSE 1,
         Past(r) \/ opened' # opened => Status(r)' \in {"running", "interrupted"},
         run[r].pc # "over",
         \A e \in events' \ events : e.type # "tool_call"
  PROVE  Passes(r)
<1>1. ToolOK(r)'
  BY NoTool
<1>2. opened' # <<>> /\ r = LatestWorkflow' => Status(r)' \in {"running", "interrupted"}
  <2> SUFFICES ASSUME opened' = opened, opened # <<>>, r = LatestWorkflow
               PROVE  Past(r)
    BY DEF LatestWorkflow
  <2> QED
    BY Known, LatestIsOpened DEF LatestWorkflow, Past
<1>3. Place(r)'
  BY <1>2, Known DEF Place, Ended, Past, Early, InNode, Judged
<1>4. Leads(r) /\ Accepts(r)
  BY DEF Leads, Accepts, Working, InNode
<1> QED
  BY <1>1, <1>3, <1>4 DEF Passes

\* A store that failed.
LEMMA BrokenStep ==
  ASSUME NEW r \in Requests, Moving(r), NEW kind, NEW pc \in Phases, NEW result \in Statuses,
         Broken(r, kind, pc, result), run[r].pc \notin {"idle", "over"},
         \/ pc = "over"
         \/ pc = "close" /\ result = "failed" /\ run[r].pc \in {"resume", "close"}
         \/ pc = "return" /\ result = "failed" /\ run[r].pc \in InNode
         \/ pc = "finish" /\ result = "failed" /\ run[r].pc \in {"call", "toolend"}
         \/ pc = "toolend" /\ result = "failed" /\ run[r].pc = "record"
  PROVE  Passes(r)
<1> DEFINE it == [run[r] EXCEPT !.result = result, !.hit = TRUE]
<1>1. /\ run[r] \in Runs /\ run'[r] = At(it, pc)
      /\ UNCHANGED <<thread, opened, spans, events>>
  BY Known DEF Broken, Moving, IInv, TypeOK
<1>2. /\ it \in Runs /\ it.hit /\ it.kind = run[r].kind /\ it.at = run[r].at
      /\ it.answer = run[r].answer /\ it.result = result
  BY <1>1 DEF Runs
<1> HIDE DEF it
<1>3. CASE pc = "over"
  <2>1. run'[r] = Over(it)
    BY <1>1, <1>3 DEF At
  <2>2. run'[r].pc = "over" /\ run'[r].hit /\ run'[r].kind = run[r].kind /\ ~run'[r].answer
    BY <1>2, <2>1 DEF Over, Runs
  <2>3. Past(r) => Status(r)' \in {"running", "interrupted"}
    BY <1>1, Known DEF Place, Status
  <2> QED
    BY <1>1, <2>2, <2>3, StopsStep
<1>4. CASE pc # "over"
  <2>1. /\ run'[r].pc = pc /\ run'[r].hit /\ run'[r].kind = run[r].kind /\ run'[r].at = run[r].at
        /\ run'[r].answer = run[r].answer /\ run'[r].result = "failed"
    BY <1>1, <1>2, <1>4 DEF At, Runs
  <2>2. ToolOK(r)'
    BY <1>1, <1>4, <2>1, Known DEF ToolOK, Logged
  <2>3. pc \in InNode => run[r].pc \in InNode
    BY <1>4 DEF InNode
  <2>4. Past(r) /\ pc \notin Early \union {"over", "resume", "snapshot"}
    BY <1>4 DEF Past, Early, InNode
  <2>5. Place(r)'
    BY <1>1, <2>1, <2>3, <2>4, Known DEF Place, Status, Past
  <2>6. Leads(r) /\ Accepts(r)
    BY <1>1, <2>1 DEF Leads, Accepts
  <2> QED
    BY <2>2, <2>5, <2>6 DEF Passes
<1> QED
  BY <1>3, <1>4

\* A step that goes on in its run, and one whose client is gone.
LEMMA GoneOrOn ==
  ASSUME NEW r \in Requests, Moving(r), NEW pc \in Phases, Goto(r, pc)
  PROVE  /\ run'[r].pc = pc /\ run'[r].hit = run[r].hit /\ run'[r].kind = run[r].kind
         /\ run'[r].trace = run[r].trace
         /\ run'[r].answer => run[r].answer
         /\ pc # "over" => run'[r].at = run[r].at /\ run'[r].result = run[r].result
<1>1. run[r] \in Runs
  BY Known
<1>2. CASE pc = "over"
  BY <1>1, <1>2, GotoOK DEF Goto, At, Over, Moving, IInv, TypeOK, Runs
<1>3. CASE pc # "over"
  <2>1. run'[r] = [run[r] EXCEPT !.pc = pc]
    BY <1>1, <1>3 DEF Goto, At, Moving, IInv, TypeOK
  <2>2. run'[r].answer = run[r].answer
    BY <1>1, <2>1 DEF Runs
  <2> QED
    BY <1>3, <2>2, GotoOK DEF Moving, IInv
<1> QED
  BY <1>2, <1>3

(***************************************************************************)
(* The steps, one by one.                                                  *)
(***************************************************************************)

LEMMA AcceptPasses ==
  ASSUME NEW r \in Requests, Moving(r), Accept(r)
  PROVE  Passes(r)
<1>1. PICK kind \in Kinds : /\ run[r].pc = "idle" /\ Acceptable(kind)
                            /\ run' = [run EXCEPT ![r].pc = "read", ![r].kind = kind]
                            /\ UNCHANGED <<thread, opened, spans, events>>
  BY DEF Accept
<1>2. /\ run'[r].pc = "read" /\ run'[r].kind = kind /\ run'[r].hit = run[r].hit
      /\ run'[r].answer = run[r].answer
  BY <1>1, Known DEF Runs, Moving, IInv, TypeOK
<1>3. ~run[r].answer
  BY <1>1, Known DEF Place, RunOK, Runs
<1>4. ToolOK(r)'
  BY <1>1, <1>2, NoTool
<1>5. Place(r)'
  BY <1>1, <1>2, <1>3 DEF Place, Past, Early, InNode, Judged
<1>6. Leads(r)
  BY <1>1, <1>2 DEF Leads, Working, InNode
<1>7. Accepts(r)
  BY <1>1, <1>2 DEF Accepts, Acceptable
<1> QED
  BY <1>4, <1>5, <1>6, <1>7 DEF Passes

LEMMA ReadTracePasses ==
  ASSUME NEW r \in Requests, Moving(r), ReadTrace(r)
  PROVE  Passes(r)
<1>1. CASE Broken(r, "trace", "over", "running")
  BY <1>1, BrokenStep DEF ReadTrace, Phases, Statuses
<1>2. CASE ~Broken(r, "trace", "over", "running")
  <2>1. /\ run[r].pc = "read"
        /\ run' = [run EXCEPT ![r].pc = "open", ![r].trace = TraceOfIncident(r)]
        /\ UNCHANGED <<thread, opened, spans, events>>
    BY <1>2 DEF ReadTrace
  <2>2. /\ run'[r].pc = "open" /\ run'[r].kind = run[r].kind /\ run'[r].hit = run[r].hit
        /\ run'[r].answer = run[r].answer
    BY <2>1, Known DEF Runs, Moving, IInv, TypeOK
  <2>3. ToolOK(r)'
    BY <2>1, <2>2, NoTool
  <2>4. Place(r)'
    BY <2>1, <2>2, Known DEF Place, Past, Early, InNode, Judged
  <2>5. Leads(r) /\ Accepts(r)
    BY <2>1, <2>2 DEF Leads, Accepts, Working, InNode
  <2> QED
    BY <2>3, <2>4, <2>5 DEF Passes
<1> QED
  BY <1>1, <1>2

LEMMA OpenWorkflowPasses ==
  ASSUME NEW r \in Requests, Moving(r), OpenWorkflow(r)
  PROVE  Passes(r)
<1>0. run[r].pc = "open" /\ TypeOK
  BY DEF OpenWorkflow, Moving, IInv
<1>1. CASE Broken(r, "trace", "over", "running")
  BY <1>0, <1>1, BrokenStep DEF Phases, Statuses
<1>2. CASE ~Broken(r, "trace", "over", "running")
  <2> DEFINE pc == IF run[r].kind = "start" THEN "load" ELSE "resume"
  <2>1. /\ StartSpan(r, "workflow") /\ opened' = Append(opened, r) /\ Continue(r, pc)
        /\ thread' = thread /\ events' = events
    BY <1>2 DEF OpenWorkflow
  <2>2. /\ spans'[r]["tool"] = spans[r]["tool"]
        /\ Len(spans'[r]["workflow"]) = 1 /\ Status(r)' = "running"
    <3>1. Len(spans[r]["workflow"]) = 0 /\ "workflow" \in Names /\ "tool" \in Names
      BY <1>0, Known, NamesOK DEF SpansOK
    <3>2. /\ spans'[r]["tool"] = spans[r]["tool"]
          /\ Len(spans'[r]["workflow"]) = Len(spans[r]["workflow"]) + 1
          /\ spans'[r]["workflow"][Len(spans[r]["workflow"]) + 1] = "running"
      BY <1>0, <2>1, NamesOK, StartSpanOK
    <3>3. 0 + 1 = 1
      OBVIOUS
    <3> QED
      BY <3>1, <3>2, <3>3 DEF Status
  <2>3. opened' # opened
    <3>1. Len(Append(opened, r)) = Len(opened) + 1 /\ Len(opened) \in Nat
      BY Known
    <3> QED
      BY <2>1, <3>1
  <2>4. CASE run[r].gone
    <3>1. Goto(r, "over") /\ run[r].hit /\ "over" \in Phases
      BY <2>1, <2>4, Known DEF Continue, RunOK, Phases
    <3>2. run'[r].pc = "over" /\ run'[r].hit /\ run'[r].kind = run[r].kind
          /\ (run'[r].answer => run[r].answer)
      BY <3>1, GoneOrOn
    <3> QED
      BY <1>0, <2>1, <2>2, <2>3, <3>2, StopsStep
  <2>5. CASE ~run[r].gone
    <3>1. Goto(r, pc) /\ pc \in Phases /\ pc \in {"load", "resume"}
      BY <2>1, <2>5 DEF Continue, Phases
    <3>2. /\ run'[r].pc = pc /\ run'[r].hit = run[r].hit /\ run'[r].kind = run[r].kind
          /\ run'[r].answer => run[r].answer
      BY <3>1, GoneOrOn
    <3>3. run[r].kind \in {"start", "decision", "retry"}
      BY <1>0, Known DEF RunOK, Runs, Kinds
    <3>4. ToolOK(r)'
      BY <2>1, <2>2, <3>1, <3>2, NoTool
    <3>5. Place(r)'
      BY <2>1, <2>2, <3>1, <3>2, <3>3, Known DEF Place, Past, Early, InNode, Judged
    <3>6. Leads(r) /\ Accepts(r)
      BY <1>0, <2>1, <2>2, <2>3, <3>1, <3>2 DEF Leads, Accepts, Working, InNode
    <3> QED
      BY <3>4, <3>5, <3>6 DEF Passes
  <2> QED
    BY <2>4, <2>5
<1> QED
  BY <1>1, <1>2

LEMMA ResumePasses ==
  ASSUME NEW r \in Requests, Moving(r), Resume(r)
  PROVE  Passes(r)
<1>0. /\ run[r].pc = "resume" /\ TypeOK
      /\ MaxAttempts \in Nat \ {0}
  BY AttemptAssumption DEF Resume, Moving, IInv
<1> DEFINE away == IF run[r].gone THEN "over" ELSE "close"
<1>1. CASE Broken(r, "audit", away, "failed")
  BY <1>0, <1>1, BrokenStep DEF Phases, Statuses
<1>2. CASE ~Broken(r, "audit", away, "failed")
  <2>1. /\ Record(r, "Approval", "resume", 1, "resumed") /\ Continue(r, "load")
        /\ UNCHANGED <<thread, opened, spans>>
    BY <1>2 DEF Resume
  <2>2. /\ \A e \in events' \ events : e.type = "resume"
        /\ Resumed(r)'
    <3>1. "Approval" \in Names /\ "resume" \in Types /\ 1 \in 1 .. MaxAttempts
      BY <1>0 DEF Names, Nodes, Types
    <3> QED
      BY <1>0, <2>1, <3>1, RecordOK DEF Resumed
  <2>3. Status(r)' \in {"running", "interrupted"} /\ Past(r)
        /\ (Status(r)' = Status(r))
    BY <1>0, <2>1, Known DEF Place, Past, Early, Status
  <2>4. CASE run[r].gone
    <3>1. Goto(r, "over") /\ run[r].hit /\ "over" \in Phases
      BY <2>1, <2>4, Known DEF Continue, RunOK, Phases
    <3>2. run'[r].pc = "over" /\ run'[r].hit /\ run'[r].kind = run[r].kind
          /\ (run'[r].answer => run[r].answer)
      BY <3>1, GoneOrOn
    <3> QED
      BY <1>0, <2>1, <2>2, <2>3, <3>2, StopsStep
  <2>5. CASE ~run[r].gone
    <3>1. Goto(r, "load") /\ "load" \in Phases
      BY <2>1, <2>5 DEF Continue, Phases
    <3>2. /\ run'[r].pc = "load" /\ run'[r].hit = run[r].hit /\ run'[r].kind = run[r].kind
          /\ run'[r].answer => run[r].answer
      BY <3>1, GoneOrOn
    <3>4. ToolOK(r)'
      BY <2>1, <2>2, <3>2, NoTool
    <3>5. Place(r)'
      BY <1>0, <2>1, <2>2, <2>3, <3>2, Known DEF Place, Past, Early, InNode, Judged
    <3>6. Leads(r) /\ Accepts(r)
      BY <1>0, <2>1, <2>2, <3>2 DEF Leads, Accepts, Working, InNode
    <3> QED
      BY <3>4, <3>5, <3>6 DEF Passes
  <2> QED
    BY <2>4, <2>5
<1> QED
  BY <1>1, <1>2

LEMMA LoadPasses ==
  ASSUME NEW r \in Requests, Moving(r), Load(r)
  PROVE  Passes(r)
<1> DEFINE from == IF run[r].kind = "start" THEN "Supervisor" ELSE thread
<1>1. /\ run[r].pc = "load" /\ thread' = from
      /\ UNCHANGED <<opened, spans, events>>
      /\ run' = [run EXCEPT ![r].pc = IF from = "end" THEN "snapshot" ELSE "enter",
                            ![r].at = NodeOf(from),
                            ![r].answer = run[r].kind = "decision" /\ NodeOf(from) = "Approval"]
  BY DEF Load
<1>2. /\ run'[r].pc = IF from = "end" THEN "snapshot" ELSE "enter"
      /\ run'[r].at = NodeOf(from) /\ run'[r].kind = run[r].kind /\ run'[r].hit = run[r].hit
  BY <1>1, Known DEF Runs, Moving, IInv, TypeOK
<1>3. run'[r].answer = (run[r].kind = "decision" /\ NodeOf(from) = "Approval")
  BY <1>1, Known DEF Runs, Moving, IInv, TypeOK
<1>4. run'[r].answer => run[r].kind = "decision"
  BY <1>3
<1>5. from \in {"waiting", "approved", "Approval", "end"} => from = thread
  OBVIOUS
<1> HIDE DEF from
<1>a. run'[r].pc \in {"snapshot", "enter"}
  BY <1>2
<1>b. spans'[r]["tool"] = spans[r]["tool"] /\ events' = events /\ run'[r].hit = run[r].hit
  BY <1>1, <1>2
<1>6. ToolOK(r)'
  BY <1>a, <1>b, NoTool
<1>7. Place(r)'
  BY <1>1, <1>2, <1>4, Known DEF Place, Past, Early, InNode, Judged, Status, Resumed
<1>8. Leads(r) /\ Accepts(r)
  BY <1>1, <1>2, <1>5 DEF Leads, Accepts, Working, InNode
<1> QED
  BY <1>6, <1>7, <1>8 DEF Passes

LEMMA BlockedPasses ==
  ASSUME NEW r \in Requests, Moving(r), Blocked(r)
  PROVE  Passes(r)
<1>1. PICK result \in {"failed", "succeeded"} :
        /\ run[r].pc = "enter" /\ run[r].at \in {"RiskCheck", "Execute"}
        /\ run' = [run EXCEPT ![r].pc = "return", ![r].result = result]
        /\ UNCHANGED <<thread, opened, spans, events>>
  BY DEF Blocked
<1>2. /\ run'[r].pc = "return" /\ run'[r].result = result /\ run'[r].hit = run[r].hit
      /\ run'[r].at = run[r].at /\ run'[r].kind = run[r].kind /\ run'[r].answer = run[r].answer
  BY <1>1, Known DEF Runs, Moving, IInv, TypeOK
<1>3. run[r].pc \in InNode /\ "return" \in InNode \ {"record", "toolend"}
  BY <1>1 DEF InNode
<1> QED
  BY <1>1, <1>2, <1>3, InsideStep

LEMMA AnnouncePasses ==
  ASSUME NEW r \in Requests, Moving(r), Announce(r)
  PROVE  Passes(r)
<1>0. /\ run[r].pc = "enter" /\ run[r].at \in {"Approval", "Execute"} /\ TypeOK
      /\ run[r].pc \in InNode /\ "span" \in InNode \ {"record", "toolend"} /\ "span" \notin Judged
      /\ MaxAttempts \in Nat \ {0}
  BY AttemptAssumption DEF Announce, Announced, Moving, IInv, InNode, Judged
<1>1. CASE Broken(r, "audit", "return", "failed")
  BY <1>0, <1>1, BrokenStep DEF Phases, Statuses
<1>2. CASE ~Broken(r, "audit", "return", "failed")
  <2> DEFINE n == IF run[r].at = "Execute" THEN "Execute" ELSE "Approval"
             type == IF run[r].at = "Execute" THEN "repair_execute" ELSE "approval_pause"
             status == IF run[r].at = "Execute" THEN "running" ELSE "interrupted"
  <2>1. /\ Record(r, n, type, 1, status) /\ Goto(r, "span")
        /\ UNCHANGED <<thread, opened, spans>>
    BY <1>2 DEF Announce
  <2>2. n \in Names /\ type \in Types /\ 1 \in 1 .. MaxAttempts /\ status \in Statuses \union {"resumed"}
    BY <1>0 DEF Names, Nodes, Types, Statuses
  <2>3. /\ \A e \in events' \ events : e.type = type
        /\ \E e \in events' : e.run = r /\ e.type = type
    <3> HIDE DEF n, type, status
    <3> QED
      BY <1>0, <2>1, <2>2, RecordOK
  <2>4. run[r].at = "Approval" => Paused'
    BY <2>3 DEF Paused
  <2>5. "span" \in Phases
    BY DEF Phases
  <2>6. /\ run'[r].pc = "span" /\ run'[r].hit = run[r].hit /\ run'[r].kind = run[r].kind
        /\ run'[r].answer => run[r].answer
        /\ run'[r].at = run[r].at
    BY <2>1, <2>5, GoneOrOn
  <2>7. \A e \in events' \ events : e.type # "tool_call"
    BY <2>3
  <2> QED
    BY <1>0, <2>1, <2>4, <2>6, <2>7, InsideStep
<1> QED
  BY <1>1, <1>2

LEMMA OpenNodePasses ==
  ASSUME NEW r \in Requests, Moving(r), OpenNode(r)
  PROVE  Passes(r)
<1>0. /\ run[r].pc \in {"enter", "span"} /\ run[r].pc \in InNode /\ TypeOK
      /\ run[r].pc = "enter" => ~Announced(r)
  BY DEF OpenNode, Moving, IInv, InNode
<1>1. run[r].at \in Nodes /\ run[r].at \in Names /\ run[r].at # "workflow" /\ run[r].at # "tool"
  BY <1>0, Known, NamesOK DEF RunOK
<1>2. CASE Broken(r, "trace", "return", "failed")
  BY <1>0, <1>2, BrokenStep DEF Phases, Statuses
<1>3. CASE ~Broken(r, "trace", "return", "failed")
  <2> DEFINE pc == IF run[r].at \in Agents THEN "agent" ELSE "call"
  <2>1. /\ StartSpan(r, run[r].at) /\ Goto(r, pc)
        /\ UNCHANGED <<thread, opened, events>>
    BY <1>3 DEF OpenNode
  <2>2. spans'[r]["tool"] = spans[r]["tool"] /\ spans'[r]["workflow"] = spans[r]["workflow"]
    BY <1>0, <1>1, <2>1, StartSpanOK, NamesOK
  <2>3. /\ pc \in Phases /\ pc \in InNode \ {"record", "toolend"} /\ pc \notin Judged
        /\ pc # "enter" /\ pc # "over"
    BY DEF Phases, InNode, Judged
  <2> HIDE DEF pc
  <2>4. /\ run'[r].pc = pc /\ run'[r].hit = run[r].hit /\ run'[r].kind = run[r].kind
        /\ run'[r].answer => run[r].answer
        /\ run'[r].at = run[r].at
    BY <2>1, <2>3, GoneOrOn
  <2>5. run[r].at = "Approval" /\ run[r].pc = "enter" => run[r].kind \in {"decision", "retry"}
    BY <1>0, Known DEF Announced, RunOK, Runs, Kinds
  <2> QED
    BY <1>0, <2>1, <2>2, <2>3, <2>4, <2>5, InsideStep
<1> QED
  BY <1>2, <1>3

LEMMA AgentEnterPasses ==
  ASSUME NEW r \in Requests, Moving(r), AgentEnter(r)
  PROVE  Passes(r)
<1> DEFINE n == run[r].at
           a == Len(spans[r][n])
<1>0. /\ run[r].pc = "agent" /\ TypeOK /\ run[r].pc \in InNode
      /\ "call" \in Phases /\ "call" \in InNode \ {"record", "toolend"} /\ "call" \notin Judged
  BY DEF AgentEnter, Moving, IInv, InNode, Phases, Judged
<1>1. CASE Broken(r, "audit", "return", "failed")
  BY <1>0, <1>1, BrokenStep DEF Phases, Statuses
<1>2. CASE ~Broken(r, "audit", "return", "failed")
  <2>1. /\ Record(r, n, "agent_enter", a, "running") /\ Goto(r, "call")
        /\ UNCHANGED <<thread, opened, spans>>
    BY <1>2 DEF AgentEnter, Attempt
  <2>2. n \in Names /\ a \in 1 .. MaxAttempts /\ "agent_enter" \in Types /\ "running" \in Statuses
    BY <1>0, Known, NamesOK, AttemptAssumption DEF RunOK, SpansOK, Visited, TypeOK, Types, Statuses
  <2>3. \A e \in events' \ events : e.type # "tool_call"
    <3> HIDE DEF n, a
    <3> QED
      BY <1>0, <2>1, <2>2, RecordOK
  <2>4. /\ run'[r].pc = "call" /\ run'[r].hit = run[r].hit /\ run'[r].kind = run[r].kind
        /\ run'[r].answer => run[r].answer
        /\ run'[r].at = run[r].at
    BY <1>0, <2>1, GoneOrOn
  <2> QED
    BY <1>0, <2>1, <2>3, <2>4, InsideStep
<1> QED
  BY <1>1, <1>2

LEMMA AgentExitPasses ==
  ASSUME NEW r \in Requests, Moving(r), AgentExit(r)
  PROVE  Passes(r)
<1> DEFINE n == run[r].at
           a == Len(spans[r][n])
<1>0. /\ run[r].pc = "exit" /\ TypeOK /\ run[r].pc \in InNode /\ run[r].pc \in Judged
      /\ "return" \in Phases /\ "return" \in InNode \ {"record", "toolend"}
  BY DEF AgentExit, Moving, IInv, InNode, Phases, Judged
<1>1. CASE Broken(r, "audit", "return", "failed")
  BY <1>0, <1>1, BrokenStep DEF Phases, Statuses
<1>2. CASE ~Broken(r, "audit", "return", "failed")
  <2>1. /\ Record(r, n, "agent_exit", a, NodeStatus(r)) /\ Goto(r, "return")
        /\ UNCHANGED <<thread, opened, spans>>
    BY <1>2 DEF AgentExit, Attempt
  <2>2. n \in Names /\ a \in 1 .. MaxAttempts /\ "agent_exit" \in Types
    BY <1>0, Known, NamesOK, AttemptAssumption DEF RunOK, SpansOK, TypeOK, Types
  <2>a. NodeStatus(r) \in Statuses
    BY Known DEF NodeStatus, Runs, Statuses
  <2>3. \A e \in events' \ events : e.type # "tool_call"
    <3> HIDE DEF n, a
    <3> QED
      BY <1>0, <2>1, <2>2, <2>a, RecordOK
  <2>4. /\ run'[r].pc = "return" /\ run'[r].hit = run[r].hit /\ run'[r].kind = run[r].kind
        /\ run'[r].answer => run[r].answer
        /\ run'[r].at = run[r].at /\ run'[r].result = run[r].result
    BY <1>0, <2>1, GoneOrOn
  <2>5. /\ run[r].result = "interrupted" => run[r].at = "Approval"
        /\ run[r].result = "succeeded" /\ run[r].at = "Approval" => run[r].kind = "decision"
    BY <1>0, Known DEF Place
  <2> QED
    BY <1>0, <2>1, <2>3, <2>4, <2>5, InsideStep
<1> QED
  BY <1>1, <1>2

LEMMA CallPasses ==
  ASSUME NEW r \in Requests, Moving(r), Call(r)
  PROVE  Passes(r)
<1>1. PICK result \in Outcomes(r) :
        /\ run[r].pc = "call"
        /\ run' = [run EXCEPT ![r].pc = "finish", ![r].result = result, ![r].answer = FALSE]
        /\ UNCHANGED <<thread, opened, spans, events>>
  BY DEF Call
<1>2. /\ run'[r].pc = "finish" /\ run'[r].result = result /\ run'[r].hit = run[r].hit
      /\ run'[r].at = run[r].at /\ run'[r].kind = run[r].kind /\ ~run'[r].answer
  BY <1>1, Known DEF Runs, Moving, IInv, TypeOK
<1>3. run[r].pc \in InNode /\ "finish" \in InNode \ {"record", "toolend"}
  BY <1>1 DEF InNode
<1>4. /\ result = "interrupted" => run[r].at = "Approval"
      /\ result = "succeeded" /\ run[r].at = "Approval" => run[r].answer
  BY DEF Outcomes
<1>5. run[r].answer => run[r].kind = "decision"
  BY Known DEF Place
<1> QED
  BY <1>1, <1>2, <1>3, <1>4, <1>5, InsideStep

LEMMA NodeEndPasses ==
  ASSUME NEW r \in Requests, Moving(r), NodeEnd(r)
  PROVE  Passes(r)
<1>0. run[r].pc = "finish" /\ run[r].pc \in InNode /\ run[r].pc \in Judged /\ TypeOK
  BY DEF NodeEnd, Moving, IInv, InNode, Judged
<1>1. run[r].at \in Nodes /\ run[r].at \in Names /\ run[r].at # "workflow" /\ run[r].at # "tool"
  BY <1>0, Known, NamesOK DEF RunOK
<1>2. CASE Broken(r, "trace", "return", "failed")
  BY <1>0, <1>2, BrokenStep DEF Phases, Statuses
<1>3. CASE ~Broken(r, "trace", "return", "failed")
  <2> DEFINE pc == IF run[r].at \in Agents THEN "exit" ELSE "return"
  <2>1. /\ FinishSpan(r, run[r].at, NodeStatus(r)) /\ Goto(r, pc)
        /\ UNCHANGED <<thread, opened, events>>
    BY <1>3 DEF NodeEnd
  <2>a. NodeStatus(r) \in Statuses
    BY Known DEF NodeStatus, Runs, Statuses
  <2>2. spans'[r]["tool"] = spans[r]["tool"] /\ spans'[r]["workflow"] = spans[r]["workflow"]
    BY <1>0, <1>1, <2>1, <2>a, FinishSpanOK, NamesOK
  <2>3. pc \in Phases /\ pc \in InNode \ {"record", "toolend"} /\ pc # "enter" /\ pc # "over"
    BY DEF Phases, InNode
  <2> HIDE DEF pc
  <2>4. /\ run'[r].pc = pc /\ run'[r].hit = run[r].hit /\ run'[r].kind = run[r].kind
        /\ run'[r].answer => run[r].answer
        /\ run'[r].at = run[r].at /\ run'[r].result = run[r].result
    BY <2>1, <2>3, GoneOrOn
  <2>5. /\ run[r].result = "interrupted" => run[r].at = "Approval"
        /\ run[r].result = "succeeded" /\ run[r].at = "Approval" => run[r].kind = "decision"
    BY <1>0, Known DEF Place
  <2> QED
    BY <1>0, <2>1, <2>2, <2>3, <2>4, <2>5, InsideStep
<1> QED
  BY <1>2, <1>3

LEMMA ToolStartPasses ==
  ASSUME NEW r \in Requests, Moving(r), ToolStart(r)
  PROVE  Passes(r)
<1>0. /\ run[r].pc = "call" /\ run[r].at = "DiagnosisAgent" /\ TypeOK /\ run[r].pc \in InNode
      /\ "record" \in Phases /\ "record" \in InNode /\ "record" \notin Judged
  BY DEF ToolStart, Moving, IInv, InNode, Phases, Judged
<1>1. CASE Broken(r, "trace", "finish", "failed")
  BY <1>0, <1>1, BrokenStep DEF Phases, Statuses
<1>2. CASE ~Broken(r, "trace", "finish", "failed")
  <2> DEFINE s == spans[r]["tool"]
             t == spans'[r]["tool"]
  <2>1. /\ StartSpan(r, "tool") /\ Goto(r, "record")
        /\ UNCHANGED <<thread, opened, events>>
    BY <1>2 DEF ToolStart
  <2>2. /\ spans'[r]["workflow"] = spans[r]["workflow"]
        /\ Len(t) = Len(s) + 1 /\ t[Len(s) + 1] = "running"
        /\ \A i \in DOMAIN s : t[i] = s[i]
    BY <1>0, <2>1, NamesOK, StartSpanOK
  <2>3. /\ DOMAIN s = 1 .. Len(s) /\ Len(s) \in Nat /\ DOMAIN t = 1 .. Len(t)
        /\ events \subseteq Events
    BY <1>0, NamesOK DEF Moving, TypeOK
  <2>4. /\ run'[r].pc = "record" /\ run'[r].hit = run[r].hit /\ run'[r].kind = run[r].kind
        /\ run'[r].answer => run[r].answer
        /\ run'[r].at = run[r].at
    BY <1>0, <2>1, GoneOrOn
  <2> HIDE DEF s, t
  <2>5. \A i \in DOMAIN t : t[i] # "running" => i \in DOMAIN s /\ t[i] = s[i]
    BY <2>2, <2>3
  <2>6. \A e \in events : e.run = r /\ e.type = "tool_call" =>
          e.node = "tool" /\ e.attempt < Len(t) /\ e.attempt <= Len(t)
    <3> SUFFICES ASSUME NEW e \in events, e.run = r, e.type = "tool_call"
                 PROVE  e.node = "tool" /\ e.attempt < Len(t) /\ e.attempt <= Len(t)
      OBVIOUS
    <3>1. e.node = "tool" /\ e.attempt <= Len(s) /\ e.attempt \in Nat
      BY <2>3, Known, AttemptAssumption DEF ToolOK, s, Events
    <3> QED
      BY <2>2, <2>3, <3>1
  <2>7. ~run[r].hit => \A i \in DOMAIN s : s[i] # "running" => Logged(r, "tool", "tool_call", i, s[i])
    BY Known DEF ToolOK, s
  <2>8. ToolOK(r)'
    <3>1. \A e \in events' : e.run = r /\ e.type = "tool_call" =>
            e.node = "tool" /\ e.attempt < Len(t) /\ e.attempt <= Len(t)
      BY <2>1, <2>6
    <3>2. ~run'[r].hit => \A i \in DOMAIN t : t[i] # "running" => Event(r, "tool", "tool_call", i, t[i]) \in events'
      BY <2>1, <2>4, <2>5, <2>7 DEF Logged
    <3> QED
      BY <2>4, <3>1, <3>2 DEF ToolOK, Logged, t
  <2> QED
    BY <1>0, <2>1, <2>2, <2>4, <2>8, InsideTool
<1> QED
  BY <1>1, <1>2

LEMMA ToolRecordPasses ==
  ASSUME NEW r \in Requests, Moving(r), ToolRecord(r)
  PROVE  Passes(r)
<1>0. /\ run[r].pc = "record" /\ TypeOK /\ run[r].pc \in InNode
      /\ "toolend" \in InNode /\ "toolend" \in Judged
  BY DEF ToolRecord, Moving, IInv, InNode, Judged
<1>a. run[r].at = "DiagnosisAgent"
  BY <1>0, Known DEF RunOK
<1>1. CASE Broken(r, "audit", "toolend", "failed")
  BY <1>0, <1>1, BrokenStep DEF Phases, Statuses
<1>2. CASE ~Broken(r, "audit", "toolend", "failed")
  <2> DEFINE s == spans[r]["tool"]
             a == Len(s)
  <2>1. PICK result \in Outcomes(r) \union {"retry"} :
          /\ Record(r, "tool", "tool_call", a, IF result = "succeeded" THEN "succeeded" ELSE "failed")
          /\ run' = [run EXCEPT ![r].pc = "toolend", ![r].result = result]
          /\ UNCHANGED <<thread, opened, spans>>
    BY <1>2 DEF ToolRecord, Attempt
  <2> DEFINE status == IF result = "succeeded" THEN "succeeded" ELSE "failed"
  <2>2. /\ run'[r].pc = "toolend" /\ run'[r].result = result /\ run'[r].hit = run[r].hit
        /\ run'[r].at = run[r].at /\ run'[r].kind = run[r].kind /\ run'[r].answer = run[r].answer
    BY <2>1, Known DEF Runs, Moving, IInv, TypeOK
  <2>3. result # "interrupted"
    BY <1>a, <2>1 DEF Outcomes
  <2>4. /\ "tool" \in Names /\ "tool_call" \in Types /\ a \in 1 .. MaxAttempts
        /\ status \in Statuses \union {"resumed"}
    BY <1>0, Known, NamesOK, AttemptAssumption DEF SpansOK, TypeOK, Types, Statuses
  <2>5. ~ \E e \in events : e.run = r /\ e.node = "tool" /\ e.type = "tool_call" /\ e.attempt = a
    <3>1. \A e \in events : e.run = r /\ e.type = "tool_call" => e.attempt < a
      BY <1>0, Known DEF ToolOK
    <3>2. a \in Nat
      BY <2>4
    <3> HIDE DEF a
    <3> QED
      BY <3>1, <3>2
  <2>6. /\ \A e \in events' \ events : e.run = r /\ e.node = "tool" /\ e.type = "tool_call" /\ e.attempt = a
        /\ Event(r, "tool", "tool_call", a, status) \in events'
        /\ events \subseteq events'
    <3> HIDE DEF a, status
    <3> QED
      BY <1>0, <2>1, <2>4, <2>5, RecordOK DEF status
  <2>7. ToolOK(r)'
    <3>0. spans'[r]["tool"] = s /\ a \in Nat /\ a <= a
      BY <2>1, <2>4
    <3>1. \A e \in events' : e.run = r /\ e.type = "tool_call" => e.node = "tool" /\ e.attempt <= a
      BY <2>6, <3>0, Known DEF ToolOK
    <3>2. ~run'[r].hit => \A i \in DOMAIN s : s[i] # "running" => Event(r, "tool", "tool_call", i, s[i]) \in events'
      BY <2>2, <2>6, Known DEF ToolOK, Logged
    <3>3. Verdict(run'[r]) = status
      BY <2>2 DEF Verdict
    <3> HIDE DEF status
    <3>4. Event(r, "tool", "tool_call", a, Verdict(run'[r])) \in events'
      BY <2>6, <3>3
    <3> QED
      BY <2>2, <3>0, <3>1, <3>2, <3>4 DEF ToolOK, Logged
  <2>8. spans' = spans /\ thread' = thread /\ opened' = opened
    BY <2>1
  <2> QED
    BY <1>0, <1>a, <2>2, <2>3, <2>7, <2>8, InsideTool
<1> QED
  BY <1>1, <1>2

LEMMA ToolEndPasses ==
  ASSUME NEW r \in Requests, Moving(r), ToolEnd(r)
  PROVE  Passes(r)
<1>0. /\ run[r].pc = "toolend" /\ TypeOK /\ run[r].pc \in InNode
      /\ "finish" \in Phases /\ "finish" \in InNode \ {"record", "toolend"}
      /\ run[r].pc \in Judged
  BY DEF ToolEnd, Moving, IInv, InNode, Phases, Judged
<1>a. run[r].at = "DiagnosisAgent"
  BY <1>0, Known DEF RunOK
<1>1. CASE \E kind \in {"audit", "trace"} : Broken(r, kind, "finish", "failed")
  BY <1>0, <1>1, BrokenStep DEF Phases, Statuses
<1>2. CASE ~ \E kind \in {"audit", "trace"} : Broken(r, kind, "finish", "failed")
  <2> DEFINE s == spans[r]["tool"]
             t == spans'[r]["tool"]
             status == Verdict(run[r])
  <2>1. /\ FinishSpan(r, "tool", status) /\ Goto(r, "finish")
        /\ UNCHANGED <<thread, opened, events>>
    BY <1>2 DEF ToolEnd, Verdict
  <2>2. status \in Statuses
    BY DEF Verdict, Statuses
  <2>3. /\ spans'[r]["workflow"] = spans[r]["workflow"]
        /\ Len(t) = Len(s) /\ DOMAIN t = DOMAIN s
        /\ \A i \in DOMAIN s : t[i] = IF i = Len(s) /\ s[i] = "running" THEN status ELSE s[i]
    <3> HIDE DEF status
    <3> QED
      BY <1>0, <2>1, <2>2, NamesOK, FinishSpanOK
  <2>4. /\ run'[r].pc = "finish" /\ run'[r].hit = run[r].hit /\ run'[r].kind = run[r].kind
        /\ run'[r].answer => run[r].answer
        /\ run'[r].at = run[r].at /\ run'[r].result = run[r].result
    BY <1>0, <2>1, GoneOrOn
  <2>5. ~run[r].hit =>
          /\ \A i \in DOMAIN s : s[i] # "running" => Logged(r, "tool", "tool_call", i, s[i])
          /\ Logged(r, "tool", "tool_call", Len(s), status)
    BY <1>0, Known DEF ToolOK
  <2> HIDE DEF s, t, status
  <2>6. ~run[r].hit => \A i \in DOMAIN t : t[i] # "running" => Logged(r, "tool", "tool_call", i, t[i])
    BY <2>3, <2>5
  <2>7. \A e \in events' : e.run = r /\ e.type = "tool_call" => e.node = "tool" /\ e.attempt <= Len(t)
    BY <2>1, <2>3, Known DEF ToolOK, s
  <2>8. ToolOK(r)'
    BY <2>1, <2>4, <2>6, <2>7 DEF ToolOK, Logged, t
  <2>9. run[r].result = "interrupted" => run[r].at = "Approval"
    BY <1>0, Known DEF Place
  <2> QED
    BY <1>0, <1>a, <2>1, <2>3, <2>4, <2>8, <2>9, InsideTool
<1> QED
  BY <1>1, <1>2

LEMMA ReturnPasses ==
  ASSUME NEW r \in Requests, Moving(r), Return(r)
  PROVE  Passes(r)
<1>0. /\ run[r].pc = "return" /\ TypeOK /\ run[r].pc \in InNode /\ run[r].pc \in Judged
      /\ {"over", "snapshot", "close", "enter"} \subseteq Phases
      /\ UNCHANGED <<opened, spans, events>>
  BY DEF Return, Save, Interrupt, Retry, Raise, Drop, Moving, IInv, InNode, Judged, Phases
<1>1. /\ run[r].at \in Nodes /\ NodeOf(thread) = run[r].at
      /\ run[r].result = "interrupted" => run[r].at = "Approval"
      /\ run[r].result = "succeeded" /\ run[r].at = "Approval" => run[r].kind = "decision"
      /\ run[r].result = "retry" => run[r].at = "DiagnosisAgent"
      /\ Status(r) = "running" \/ (Status(r) = "interrupted" /\ run[r].hit)
      /\ Past(r)
      /\ run[r].answer => run[r].kind = "decision"
      /\ run[r].kind \in {"decision", "retry"} /\ ~run[r].hit => Resumed(r)
  BY <1>0, Known DEF RunOK, Place, Past, Early
<1>2. CASE run[r].gone
  <2>1. Goto(r, "over") /\ thread' = thread /\ run[r].hit
    BY <1>0, <1>2, Known DEF Return, Drop, RunOK
  <2>2. run'[r].pc = "over" /\ run'[r].hit /\ run'[r].kind = run[r].kind
        /\ (run'[r].answer => run[r].answer)
    BY <1>0, <2>1, GoneOrOn
  <2>3. Status(r)' \in {"running", "interrupted"}
    BY <1>0, <1>1 DEF Status
  <2> QED
    BY <1>0, <2>1, <2>2, <2>3, StopsStep
<1>3. CASE ~run[r].gone /\ Save(r)
  <2>1. PICK next \in After(r) :
          /\ thread' = next /\ run[r].result = "succeeded"
          /\ run' = [run EXCEPT ![r].at = NodeOf(next),
                                ![r].pc = IF next = "end" THEN "snapshot" ELSE "enter"]
    BY <1>3 DEF Save
  <2>2. /\ run'[r].pc = IF next = "end" THEN "snapshot" ELSE "enter"
        /\ run'[r].at = NodeOf(next) /\ run'[r].kind = run[r].kind /\ run'[r].hit = run[r].hit
        /\ run'[r].answer = run[r].answer
    BY <2>1, Known DEF Runs, Moving, IInv, TypeOK
  <2>3. next = "approved" => run[r].at = "Approval"
    BY DEF After
  <2>4. next # "waiting"
    BY DEF After
  <2>a. run'[r].pc \in {"snapshot", "enter"} /\ (run'[r].pc = "snapshot" => next = "end")
    BY <2>2
  <2>5. ToolOK(r)'
    BY <1>0, <2>2, <2>a, NoTool
  <2>6. Status(r)' = Status(r) /\ (Resumed(r) => Resumed(r)')
    BY <1>0 DEF Status, Resumed
  <2>7. Place(r)'
    BY <1>1, <2>1, <2>2, <2>a, <2>6 DEF Place, Past, Early, InNode, Judged
  <2>8. Leads(r)
    <3>1. next = "Approval" => run'[r].pc = "enter" /\ run'[r].at = "Approval"
      BY <2>2 DEF NodeOf
    <3> QED
      BY <1>0, <1>1, <2>1, <2>2, <2>3, <2>4, <2>a, <3>1 DEF Leads, Working, InNode
  <2>9. Accepts(r)
    BY <2>2 DEF Accepts
  <2> QED
    BY <2>5, <2>7, <2>8, <2>9 DEF Passes
<1>4. CASE ~run[r].gone /\ Interrupt(r)
  <2>1. run[r].result = "interrupted" /\ thread' = "waiting" /\ Goto(r, "snapshot")
    BY <1>4 DEF Interrupt
  <2>2. /\ run'[r].pc = "snapshot" /\ run'[r].hit = run[r].hit /\ run'[r].kind = run[r].kind
        /\ run'[r].answer => run[r].answer
    BY <1>0, <2>1, GoneOrOn
  <2>3. ToolOK(r)'
    BY <1>0, <2>2, NoTool
  <2>4. Status(r)' = Status(r) /\ (Resumed(r) => Resumed(r)')
    BY <1>0 DEF Status, Resumed
  <2>5. Place(r)'
    BY <1>1, <2>1, <2>2, <2>4 DEF Place, Past, Early, InNode, Judged
  <2>6. Leads(r) /\ Accepts(r)
    BY <1>0, <1>1, <2>1, <2>2 DEF Leads, Accepts, Working, InNode
  <2> QED
    BY <2>3, <2>5, <2>6 DEF Passes
<1>5. CASE ~run[r].gone /\ Retry(r)
  <2>1. run[r].result = "retry" /\ thread' = thread /\ Goto(r, "enter")
    BY <1>5 DEF Retry
  <2>2. /\ run'[r].pc = "enter" /\ run'[r].hit = run[r].hit /\ run'[r].kind = run[r].kind
        /\ run'[r].answer => run[r].answer
        /\ run'[r].at = run[r].at
    BY <1>0, <2>1, GoneOrOn
  <2>3. "enter" \in InNode \ {"record", "toolend"} /\ "enter" \notin Judged
    BY DEF InNode, Judged
  <2> QED
    BY <1>0, <1>1, <2>1, <2>2, <2>3, InsideStep
<1>6. CASE ~run[r].gone /\ Raise(r)
  <2>1. run[r].result = "failed" /\ thread' = thread /\ Goto(r, "close")
    BY <1>6 DEF Raise
  <2>2. /\ run'[r].pc = "close" /\ run'[r].hit = run[r].hit /\ run'[r].kind = run[r].kind
        /\ run'[r].answer => run[r].answer
        /\ run'[r].result = run[r].result
    BY <1>0, <2>1, GoneOrOn
  <2>3. thread # "end"
    BY <1>1 DEF NodeOf, Nodes
  <2>4. ToolOK(r)'
    BY <1>0, <2>2, NoTool
  <2>5. Status(r)' = Status(r) /\ (Resumed(r) => Resumed(r)')
    BY <1>0 DEF Status, Resumed
  <2>6. Place(r)'
    BY <1>1, <2>1, <2>2, <2>3, <2>5 DEF Place, Past, Early, InNode, Judged
  <2>7. Leads(r) /\ Accepts(r)
    BY <1>0, <1>1, <2>1, <2>2 DEF Leads, Accepts, Working, InNode
  <2> QED
    BY <2>4, <2>6, <2>7 DEF Passes
<1> QED
  BY <1>2, <1>3, <1>4, <1>5, <1>6 DEF Return

LEMMA SnapshotPasses ==
  ASSUME NEW r \in Requests, Moving(r), Snapshot(r)
  PROVE  Passes(r)
<1> DEFINE result == IF thread = "waiting" THEN "interrupted" ELSE "succeeded"
<1>1. /\ run[r].pc = "snapshot" /\ run' = [run EXCEPT ![r].pc = "close", ![r].result = result]
      /\ UNCHANGED <<thread, opened, spans, events>>
  BY DEF Snapshot
<1>2. /\ run'[r].pc = "close" /\ run'[r].result = result /\ run'[r].hit = run[r].hit
      /\ run'[r].kind = run[r].kind /\ run'[r].answer = run[r].answer
  BY <1>1, Known DEF Runs, Moving, IInv, TypeOK
<1>3. ToolOK(r)'
  BY <1>1, <1>2, NoTool
<1>4. Status(r)' = Status(r) /\ (Resumed(r) => Resumed(r)')
  BY <1>1 DEF Status, Resumed
<1>5. Place(r)'
  BY <1>1, <1>2, <1>4, Known DEF Place, Past, Early, InNode, Judged
<1>6. Leads(r) /\ Accepts(r)
  BY <1>1, <1>2 DEF Leads, Accepts, Working, InNode
<1> QED
  BY <1>3, <1>5, <1>6 DEF Passes

LEMMA ClosePasses ==
  ASSUME NEW r \in Requests, Moving(r), Close(r)
  PROVE  Passes(r)
<1> DEFINE away == IF run[r].result = "failed" \/ run[r].gone THEN "over" ELSE "close"
<1>0. /\ run[r].pc = "close" /\ TypeOK /\ "over" \in Phases
      /\ run[r].result \in {"succeeded", "failed", "interrupted"}
  BY Known DEF Close, Moving, IInv, Phases, RunOK
<1>1. CASE Broken(r, "trace", away, "failed")
  BY <1>0, <1>1, BrokenStep DEF Phases, Statuses
<1>2. CASE ~Broken(r, "trace", away, "failed")
  <2>1. /\ FinishSpan(r, "workflow", run[r].result) /\ Goto(r, "over")
        /\ UNCHANGED <<thread, opened, events>>
    BY <1>2 DEF Close
  <2>2. /\ spans'[r]["tool"] = spans[r]["tool"]
        /\ Len(spans'[r]["workflow"]) = Len(spans[r]["workflow"])
        /\ \A i \in DOMAIN spans[r]["workflow"] :
             spans'[r]["workflow"][i] =
               IF i = Len(spans[r]["workflow"]) /\ spans[r]["workflow"][i] = "running"
               THEN run[r].result ELSE spans[r]["workflow"][i]
    BY <1>0, <2>1, NamesOK, FinishSpanOK DEF Statuses
  <2>3. /\ run'[r].pc = "over" /\ run'[r].hit = run[r].hit /\ run'[r].kind = run[r].kind
        /\ run'[r].answer => run[r].answer
    BY <1>0, <2>1, GoneOrOn
  <2>4. Past(r) /\ r = LatestWorkflow /\ opened # <<>>
    BY <1>0 DEF Moving, SInv, OneTrace, Past, Early
  <2>5. Len(spans[r]["workflow"]) = 1
    <3>1. Len(opened) \in DOMAIN opened /\ opened[Len(opened)] = r
      BY <2>4, Known, LatestIsOpened DEF LatestWorkflow
    <3> QED
      BY <3>1 DEF Moving, SInv, OneTrace
  <2>6. Status(r)' = IF Status(r) = "running" THEN run[r].result ELSE Status(r)
    <3>1. 1 \in DOMAIN spans[r]["workflow"]
      BY <1>0, <2>5, NamesOK DEF TypeOK
    <3> QED
      BY <2>2, <2>5, <3>1 DEF Status
  <2>7. ToolOK(r)'
    BY <2>1, <2>2, <2>3, NoTool
  <2>8. Ended(r)'
    BY <1>0, <2>1, <2>3, <2>4, <2>6, Known DEF Ended, Place
  <2>9. Resumed(r) => Resumed(r)'
    BY <2>1 DEF Resumed
  <2>10. Place(r)'
    BY <1>0, <2>3, <2>4, <2>8, <2>9, Known DEF Place, Past, Early, InNode, Judged
  <2>11. Leads(r) /\ Accepts(r)
    BY <1>0, <2>1, <2>2, <2>3 DEF Leads, Accepts, Working, InNode
  <2> QED
    BY <2>7, <2>10, <2>11 DEF Passes
<1> QED
  BY <1>1, <1>2

LEMMA DisconnectPasses ==
  ASSUME NEW r \in Requests, Moving(r), Disconnect(r)
  PROVE  Passes(r)
<1>0. /\ run[r].pc \notin {"idle", "over"} /\ TypeOK /\ run[r] \in Runs
      /\ UNCHANGED <<thread, opened, events>>
  BY Known DEF Disconnect, InFlight, Moving, IInv
<1>1. /\ spans'[r]["tool"] = spans[r]["tool"]
      /\ Len(spans'[r]["workflow"]) = Len(spans[r]["workflow"])
      /\ spans' = spans \/ (run[r].pc \notin {"read", "open"} /\ FinishSpan(r, "workflow", "interrupted"))
  BY <1>0, NamesOK, FinishSpanOK DEF Disconnect, Statuses
<1>2. Past(r) => Status(r)' \in {"running", "interrupted"}
  <2>1. CASE spans' = spans
    BY <2>1, Known DEF Place, Status
  <2>2. CASE run[r].pc \notin {"read", "open"} /\ FinishSpan(r, "workflow", "interrupted")
    <3> DEFINE s == spans[r]["workflow"]
    <3>1. Past(r) /\ r = LatestWorkflow /\ opened # <<>>
      BY <1>0, <2>2 DEF Moving, SInv, OneTrace, Past, Early
    <3>2. Len(opened) \in DOMAIN opened /\ opened[Len(opened)] = r
      BY <3>1, Known, LatestIsOpened DEF LatestWorkflow
    <3>3. Len(s) = 1 /\ 1 \in DOMAIN s
      BY <1>0, <3>2, NamesOK DEF Moving, SInv, OneTrace, TypeOK
    <3>4. \A i \in DOMAIN s : spans'[r]["workflow"][i] =
             IF i = Len(s) /\ s[i] = "running" THEN "interrupted" ELSE s[i]
      BY <1>0, <2>2, NamesOK, FinishSpanOK DEF Statuses
    <3>5. s[1] \in {"running", "interrupted"}
      BY <3>1, Known DEF Place, Status
    <3> QED
      BY <3>3, <3>4, <3>5 DEF Status
  <2> QED
    BY <1>1, <2>1, <2>2
<1>3. CASE run' = [run EXCEPT ![r] = Over([@ EXCEPT !.hit = TRUE])]
  <2> DEFINE it == [run[r] EXCEPT !.hit = TRUE]
  <2>1. it \in Runs /\ it.hit /\ it.kind = run[r].kind
    BY <1>0 DEF Runs
  <2>2. run'[r] = Over(it)
    BY <1>0, <1>3 DEF TypeOK
  <2> HIDE DEF it
  <2>3. run'[r].pc = "over" /\ run'[r].hit /\ run'[r].kind = run[r].kind /\ ~run'[r].answer
    BY <2>1, <2>2 DEF Over, Runs
  <2> QED
    BY <1>0, <1>1, <1>2, <2>3, StopsStep
<1>4. CASE run' = [run EXCEPT ![r].gone = TRUE, ![r].hit = TRUE]
  <2>1. /\ run'[r].pc = run[r].pc /\ run'[r].hit /\ run'[r].kind = run[r].kind
        /\ run'[r].answer = run[r].answer /\ run'[r].at = run[r].at /\ run'[r].result = run[r].result
    BY <1>0, <1>4 DEF Runs, TypeOK
  <2>2. ToolOK(r)'
    BY <1>0, <1>1, <2>1, Known DEF ToolOK, Logged
  <2>3. Resumed(r) => Resumed(r)'
    BY <1>0 DEF Resumed
  <2>4. Past(r)' <=> Past(r)
    BY <2>1 DEF Past
  <2>5. Place(r)'
    BY <1>0, <1>2, <2>1, <2>3, <2>4, Known DEF Place
  <2>6. Leads(r) /\ Accepts(r)
    BY <1>0, <1>1, <2>1 DEF Leads, Accepts
  <2> QED
    BY <2>2, <2>5, <2>6 DEF Passes
<1> QED
  BY <1>3, <1>4 DEF Disconnect

\* Every step of a run passes.
LEMMA StepPasses ==
  ASSUME NEW r \in Requests, Moving(r), Accept(r) \/ Step(r) \/ Disconnect(r)
  PROVE  Passes(r)
BY AcceptPasses, ReadTracePasses, OpenWorkflowPasses, ResumePasses, LoadPasses, BlockedPasses,
   AnnouncePasses, OpenNodePasses, AgentEnterPasses, CallPasses, ToolStartPasses, ToolRecordPasses,
   ToolEndPasses, NodeEndPasses, AgentExitPasses, ReturnPasses, SnapshotPasses, ClosePasses,
   DisconnectPasses DEF Step

(***************************************************************************)
(* The audit log grows by one event of the run in flight.                  *)
(***************************************************************************)

Writes(r) ==
  events' = events \/
    \E e : /\ events' = events \union {e} /\ e.run = r /\ Past(r)
           /\ e.type = "resume" => run[r].kind \in {"decision", "retry"}
           /\ \A f \in events : ~SameKey(e, f)

LEMMA RecordWrites ==
  ASSUME NEW r \in Requests, NEW n, NEW type, NEW a, NEW status, Past(r),
         Record(r, n, type, a, status),
         type = "resume" => run[r].kind \in {"decision", "retry"}
  PROVE  Writes(r)
<1>1. CASE \E e \in events : e.run = r /\ e.node = n /\ e.type = type /\ e.attempt = a
  BY <1>1 DEF Record, Writes
<1>2. CASE ~ \E e \in events : e.run = r /\ e.node = n /\ e.type = type /\ e.attempt = a
  <2> DEFINE new == [run |-> r, node |-> n, type |-> type, attempt |-> a, status |-> status]
  <2>1. events' = events \union {new}
    BY <1>2 DEF Record
  <2>2. new.run = r /\ new.node = n /\ new.type = type /\ new.attempt = a
    OBVIOUS
  <2>3. \A f \in events : ~SameKey(new, f)
    BY <1>2, <2>2 DEF SameKey
  <2> HIDE DEF new
  <2> QED
    BY <2>1, <2>2, <2>3 DEF Writes
<1> QED
  BY <1>1, <1>2

LEMMA StepWrites ==
  ASSUME NEW r \in Requests, Moving(r), Accept(r) \/ Step(r) \/ Disconnect(r)
  PROVE  Writes(r)
<1>1. CASE Resume(r)
  <2>1. Past(r) /\ run[r].kind \in {"decision", "retry"}
    BY <1>1, Known DEF Resume, Past, Early, Place
  <2>2. events' = events \/ Record(r, "Approval", "resume", 1, "resumed")
    BY <1>1 DEF Resume, Broken
  <2> QED
    BY <2>1, <2>2, RecordWrites DEF Writes
<1>2. CASE Announce(r)
  <2>1. Past(r)
    BY <1>2 DEF Announce, Past, Early
  <2>2. \/ events' = events
        \/ Record(r, "Execute", "repair_execute", 1, "running")
        \/ Record(r, "Approval", "approval_pause", 1, "interrupted")
    BY <1>2 DEF Announce, Broken
  <2> QED
    BY <2>1, <2>2, RecordWrites DEF Writes
<1>3. CASE AgentEnter(r)
  <2>1. Past(r)
    BY <1>3 DEF AgentEnter, Past, Early
  <2>2. \/ events' = events
        \/ Record(r, run[r].at, "agent_enter", Attempt(r, run[r].at), "running")
    BY <1>3 DEF AgentEnter, Broken
  <2> QED
    BY <2>1, <2>2, RecordWrites DEF Writes
<1>4. CASE AgentExit(r)
  <2>1. Past(r)
    BY <1>4 DEF AgentExit, Past, Early
  <2>2. \/ events' = events
        \/ Record(r, run[r].at, "agent_exit", Attempt(r, run[r].at), NodeStatus(r))
    BY <1>4 DEF AgentExit, Broken
  <2> QED
    BY <2>1, <2>2, RecordWrites DEF Writes
<1>5. CASE ToolRecord(r)
  <2>1. Past(r)
    BY <1>5 DEF ToolRecord, Past, Early
  <2>2. \/ events' = events
        \/ \E status : Record(r, "tool", "tool_call", Attempt(r, "tool"), status)
    BY <1>5 DEF ToolRecord, Broken
  <2> QED
    BY <2>1, <2>2, RecordWrites DEF Writes
<1>6. CASE ~(Resume(r) \/ Announce(r) \/ AgentEnter(r) \/ AgentExit(r) \/ ToolRecord(r))
  <2>1. events' = events
    BY <1>6 DEF Step, Accept, ReadTrace, OpenWorkflow, Load, Blocked, OpenNode, Call, ToolStart, ToolEnd,
                NodeEnd, Return, Drop, Save, Interrupt, Retry, Raise, Snapshot, Close, Disconnect, Broken
  <2> QED
    BY <2>1 DEF Writes
<1> QED
  BY <1>1, <1>2, <1>3, <1>4, <1>5, <1>6

(***************************************************************************)
(* What a step of the run in flight leaves of the invariant.               *)
(***************************************************************************)

Others(r)  == \A q \in Requests \ {r} : ~InFlight(q)
Turning(r) == Moving(r) /\ IInv' /\ Passes(r) /\ Writes(r) /\ Course(r) /\ Others(r)

\* The run that opens its workflow span is not among those that did, and speaks for the
\* incident from then on.
LEMMA Opening ==
  ASSUME NEW r \in Requests, Turning(r), opened' # opened
  PROVE  /\ run[r].pc = "open" /\ opened' = Append(opened, r) /\ LatestWorkflow' = r
         /\ DOMAIN opened' = DOMAIN opened \union {Len(opened) + 1}
         /\ opened'[Len(opened) + 1] = r
         /\ \A i \in DOMAIN opened : opened'[i] = opened[i] /\ opened[i] # r
         /\ run'[r].trace = run[r].trace
         /\ 1 \in DOMAIN opened' /\ opened' # <<>>
         /\ opened # <<>> => 1 \in DOMAIN opened
         /\ opened = <<>> => DOMAIN opened' = {1}
<1>1. run[r].pc = "open" /\ opened' = Append(opened, r) /\ run'[r].trace = run[r].trace
  BY DEF Turning, Course
<1>2. \A i \in DOMAIN opened : opened[i] # r
  BY <1>1, Known DEF Turning, Early
<1>3. opened \in Seq(Requests)
  BY Known DEF Turning
<1>4. /\ Len(opened') = Len(opened) + 1 /\ DOMAIN opened' = 1 .. (Len(opened) + 1)
      /\ DOMAIN opened = 1 .. Len(opened) /\ Len(opened) \in Nat
      /\ opened'[Len(opened) + 1] = r
      /\ \A i \in DOMAIN opened : opened'[i] = opened[i]
  BY <1>1, <1>3
<1>5. /\ DOMAIN opened' = DOMAIN opened \union {Len(opened) + 1}
      /\ 1 \in DOMAIN opened'
      /\ opened # <<>> => 1 \in DOMAIN opened
      /\ opened = <<>> => DOMAIN opened' = {1}
  BY <1>3, <1>4
<1>6. opened' # <<>>
  BY <1>1, <1>3
<1> QED
  BY <1>1, <1>2, <1>4, <1>5, <1>6 DEF LatestWorkflow

\* Nobody who spoke for the incident moves but the one who does.
LEMMA OnlyLatest ==
  ASSUME NEW r \in Requests, Turning(r), run[r].pc \notin Early
  PROVE  opened' = opened /\ opened # <<>> /\ r = LatestWorkflow
BY Opening DEF Turning, Moving, SInv, OneTrace, Course, Past, Early

\* The kinds of the requests.
LEMMA KindsKept ==
  ASSUME NEW r \in Requests, Turning(r), NEW q \in Requests
  PROVE  /\ run[q].kind # "none" => run'[q].kind = run[q].kind
         /\ run'[q].kind # run[q].kind =>
              /\ q = r /\ run[r].pc = "idle"
              /\ run'[q].kind = "retry" => thread = "approved"
              /\ run'[q].kind = "decision" => thread \in {"Approval", "waiting"}
<1>1. CASE q = r
  BY <1>1, Known DEF Turning, Passes, Accepts, RunOK
<1>2. CASE q # r
  BY <1>2 DEF Turning, Moving, Framed
<1> QED
  BY <1>1, <1>2

LEMMA AloneStep ==
  ASSUME NEW r \in Requests, Turning(r)
  PROVE  Alone'
<1>1. \A q \in Requests : InFlight(q)' => q = r
  BY DEF Turning, Others, Moving, Framed, InFlight
<1> QED
  BY <1>1 DEF Alone

LEMMA OneTraceStep ==
  ASSUME NEW r \in Requests, Turning(r)
  PROVE  OneTrace'
<1>0. /\ OneTrace /\ Course(r) /\ Leads(r)
      /\ \A q \in Requests \ {r} : run'[q] = run[q] /\ spans'[q] = spans[q] /\ ~InFlight(q)
      /\ opened \in Seq(Requests) /\ opened' \in Seq(Requests) /\ IInv'
  BY Known DEF Turning, Moving, SInv, Passes, Framed, Others, TypeOK
<1>a. \A i \in DOMAIN opened : opened[i] \in Requests /\ run[opened[i]].pc \notin Early
  BY <1>0, Known DEF Turning
<1>1. ASSUME NEW q \in Requests, Past(q)'
      PROVE  opened' # <<>> /\ q = LatestWorkflow'
  <2>1. q = r
    BY <1>0, <1>1 DEF Past, InFlight, Early
  <2>2. CASE opened' # opened
    BY <2>1, <2>2, Opening
  <2>3. CASE opened' = opened
    <3>1. run[r].pc \notin Early
      <4>1. opened \in Seq(Requests) /\ Append(opened, r) # opened
        <5>1. Len(Append(opened, r)) = Len(opened) + 1 /\ Len(opened) \in Nat
          BY <1>0
        <5> QED
          BY <1>0, <5>1
      <4> QED
        BY <1>0, <1>1, <2>1, <2>3, <4>1 DEF Course, Past, Early
    <3> QED
      BY <2>1, <2>3, <3>1, OnlyLatest DEF LatestWorkflow
  <2> QED
    BY <2>2, <2>3
<1>2. ASSUME NEW i \in DOMAIN opened'
      PROVE  /\ Len(spans'[opened'[i]]["workflow"]) = 1
             /\ run'[opened'[i]].trace = run'[opened'[1]].trace
  <2>1. CASE opened' = opened
    <3>1. 1 \in DOMAIN opened
      BY <1>0, <1>2, <2>1
    <3>2. \A q \in Requests : run[q].pc \notin Early =>
            /\ run'[q].trace = run[q].trace
            /\ Len(spans'[q]["workflow"]) = Len(spans[q]["workflow"])
      BY <1>0, <2>1 DEF Course, Leads, Early
    <3> QED
      BY <1>0, <1>a, <1>2, <2>1, <3>1, <3>2 DEF OneTrace
  <2>2. CASE opened' # opened
    <3>1. Len(spans'[r]["workflow"]) = 1
      BY <1>0, <2>2 DEF Leads
    <3>2. \A j \in DOMAIN opened :
            /\ Len(spans'[opened'[j]]["workflow"]) = 1
            /\ run'[opened'[j]].trace = run[opened[1]].trace
      BY <1>0, <1>a, <2>2, Opening DEF OneTrace
    <3>3. opened # <<>> => run'[r].trace = run[opened[1]].trace
      BY <1>0, <2>2, Opening DEF OneTrace, TraceOfIncident
    <3>4. CASE opened = <<>>
      BY <1>2, <2>2, <3>1, <3>4, Opening
    <3>5. CASE opened # <<>>
      BY <1>2, <2>2, <3>1, <3>2, <3>3, <3>5, Opening
    <3> QED
      BY <3>4, <3>5
  <2> QED
    BY <2>1, <2>2
<1>3. ASSUME NEW q \in Requests, run'[q].pc = "open"
      PROVE  run'[q].trace = TraceOfIncident(q)'
  <2>1. q = r
    BY <1>0, <1>3 DEF InFlight
  <2>2. opened' = opened /\ run'[r].trace = TraceOfIncident(r)
    BY <1>0, <1>3, <2>1 DEF Course, Early, OneTrace
  <2>3. opened # <<>> => run'[opened[1]] = run[opened[1]]
    <3> SUFFICES ASSUME opened # <<>>  PROVE run'[opened[1]] = run[opened[1]]
      OBVIOUS
    <3>1. 1 \in DOMAIN opened
      BY <1>0
    <3>2. run[r].pc \in Early
      BY <1>0, <1>3, <2>1 DEF Course, Early
    <3> QED
      BY <1>0, <1>a, <3>1, <3>2
  <2> QED
    BY <2>1, <2>2, <2>3 DEF TraceOfIncident
<1>4. ASSUME NEW e \in events'
      PROVE  \E i \in DOMAIN opened' : opened'[i] = e.run
  <2>1. CASE e \in events
    <3>1. PICK i \in DOMAIN opened : opened[i] = e.run
      BY <1>0, <2>1 DEF OneTrace
    <3>2. i \in DOMAIN opened' /\ opened'[i] = opened[i]
      BY <3>1, Opening
    <3> QED
      BY <3>1, <3>2
  <2>2. CASE e \notin events
    <3>1. e.run = r /\ Past(r)
      BY <1>4, <2>2 DEF Turning, Writes
    <3>2. opened' = opened /\ opened # <<>> /\ r = LatestWorkflow
      BY <3>1, OnlyLatest DEF Past
    <3>3. Len(opened) \in DOMAIN opened /\ opened[Len(opened)] = r
      BY <1>0, <3>2, LatestIsOpened DEF LatestWorkflow
    <3> QED
      BY <3>1, <3>2, <3>3
  <2> QED
    BY <2>1, <2>2
<1> QED
  BY <1>1, <1>2, <1>3, <1>4 DEF OneTrace

LEMMA OthersStep ==
  ASSUME NEW r \in Requests, Turning(r), NEW q \in Requests, q # r
  PROVE  Place(q)' /\ ToolOK(q)'
<1>0. /\ run'[q] = run[q] /\ spans'[q] = spans[q] /\ run[q].pc \in {"idle", "over"}
      /\ events \subseteq events' /\ \A e \in events' \ events : e.run = r
      /\ Place(q) /\ ToolOK(q) /\ Leads(r)
  BY DEF Turning, Moving, Framed, Others, InFlight, SInv, Passes
<1>1. ToolOK(q)'
  <2>1. \A e \in events' : e.run = q => e \in events
    BY <1>0
  <2> QED
    BY <1>0, <2>1 DEF ToolOK, Logged
<1>2. opened' # <<>> /\ q = LatestWorkflow' => opened' = opened /\ thread' = thread
  <2> SUFFICES ASSUME opened' # <<>>, q = LatestWorkflow'
               PROVE  opened' = opened /\ thread' = thread
    OBVIOUS
  <2>1. opened' = opened
    BY Opening
  <2>2. q = LatestWorkflow
    BY <2>1 DEF LatestWorkflow
  <2>3. run[r].pc \in Early
    BY <2>2, OnlyLatest
  <2> QED
    BY <1>0, <2>1, <2>3 DEF Leads, Early
<1>3. opened' # <<>> /\ q = LatestWorkflow' /\ run[q].pc = "over" => Ended(q)'
  <2> SUFFICES ASSUME opened' # <<>>, q = LatestWorkflow', run[q].pc = "over"
               PROVE  Ended(q)'
    OBVIOUS
  <2>1. opened' = opened /\ thread' = thread /\ q = LatestWorkflow
    BY <1>2 DEF LatestWorkflow
  <2>2. Ended(q)
    BY <1>0, <2>1 DEF Place
  <2> QED
    BY <1>0, <2>1, <2>2 DEF Ended, Status
<1>4. Resumed(q) => Resumed(q)'
  BY <1>0 DEF Resumed
<1>5. Place(q)'
  BY <1>0, <1>3, <1>4 DEF Place, Past, Early, InNode, Judged
<1> QED
  BY <1>1, <1>5

LEMMA OneEachStep ==
  ASSUME NEW r \in Requests, Turning(r)
  PROVE  OneEach' /\ IsFiniteSet(events')
<1>0. OneEach /\ IsFiniteSet(events) /\ Writes(r)
  BY DEF Turning, Moving, SInv
<1>1. CASE events' = events
  BY <1>0, <1>1 DEF OneEach
<1>2. CASE events' # events
  <2>1. PICK e : events' = events \union {e} /\ \A f \in events : ~SameKey(e, f)
    BY <1>0, <1>2 DEF Writes
  <2>2. IsFiniteSet(events')
    BY <1>0, <2>1, FS_AddElement
  <2>3. \A f \in events : ~SameKey(f, e)
    BY <2>1 DEF SameKey
  <2>4. OneEach'
    BY <1>0, <2>1, <2>3 DEF OneEach
  <2> QED
    BY <2>2, <2>4
<1> QED
  BY <1>1, <1>2

LEMMA DecidingStep ==
  ASSUME NEW r \in Requests, Turning(r)
  PROVE  Deciding'
<1>0. Deciding /\ Leads(r) /\ Writes(r) /\ OneTrace /\ opened \in Seq(Requests)
  BY Known DEF Turning, Moving, SInv, Passes
<1>1. Decided => Decided'
  BY KindsKept DEF Decided
<1>2. thread' = "approved" => Decided'
  BY <1>0, <1>1, KindsKept DEF Deciding, Leads, Decided
<1>3. ASSUME NEW q \in Requests, run'[q].kind = "retry"
      PROVE  Decided'
  BY <1>0, <1>1, <1>3, KindsKept DEF Deciding
<1>4. ASSUME NEW e \in events', e.type = "resume"
      PROVE  run'[e.run].kind \in {"decision", "retry"}
  <2>1. CASE e \in events
    <3>1. e.run \in Requests /\ run[e.run].kind \in {"decision", "retry"}
      BY <1>0, <1>4, <2>1 DEF Deciding, OneTrace
    <3> QED
      BY <3>1, KindsKept
  <2>2. CASE e \notin events
    <3>1. e.run = r /\ run[r].kind \in {"decision", "retry"}
      BY <1>0, <1>4, <2>2 DEF Writes
    <3> QED
      BY <3>1, KindsKept
  <2> QED
    BY <2>1, <2>2
<1> QED
  BY <1>2, <1>3, <1>4 DEF Deciding

LEMMA PausingStep ==
  ASSUME NEW r \in Requests, Turning(r)
  PROVE  Pausing'
<1> SUFFICES ASSUME Undisturbed'  PROVE
      /\ thread' \in {"waiting", "approved"} => Paused'
      /\ thread' = "Approval" => Paused' \/ \E q \in Requests : run'[q].pc = "enter" /\ run'[q].at = "Approval"
      /\ \A q \in Requests : run'[q].kind \in {"decision", "retry"} => Paused'
      /\ \A q \in Requests : run'[q].pc \in Working /\ run'[q].at = "Approval" => Paused'
  BY DEF Pausing
<1>0. /\ Leads(r) /\ Pausing /\ ~run'[r].hit
      /\ \A q \in Requests \ {r} : run'[q] = run[q] /\ ~InFlight(q)
      /\ events \subseteq events'
  BY DEF Turning, Moving, SInv, Passes, Undisturbed, Framed, Others
<1>1. Undisturbed
  <2>1. ~run[r].hit
    BY <1>0 DEF Leads
  <2> QED
    BY <1>0, <2>1 DEF Undisturbed
<1>2. Paused => Paused'
  BY <1>0 DEF Paused
<1>3. /\ thread \in {"waiting", "approved"} => Paused
      /\ thread = "Approval" => Paused \/ (run[r].pc = "enter" /\ run[r].at = "Approval")
      /\ \A q \in Requests : run[q].kind \in {"decision", "retry"} => Paused
      /\ run[r].pc \in Working /\ run[r].at = "Approval" => Paused
  <2>1. \A q \in Requests : run[q].pc = "enter" => q = r
    BY <1>0 DEF InFlight
  <2> QED
    BY <1>0, <1>1, <2>1 DEF Pausing
<1>4. \A q \in Requests : run'[q].kind \in {"decision", "retry"} => Paused
  <2> SUFFICES ASSUME NEW q \in Requests, run'[q].kind \in {"decision", "retry"}
               PROVE  Paused
    OBVIOUS
  <2>1. CASE run'[q].kind = run[q].kind
    BY <1>3, <2>1
  <2>2. CASE run'[q].kind # run[q].kind
    <3>1. run[r].pc = "idle" /\ thread \in {"approved", "Approval", "waiting"}
      BY <2>2, KindsKept
    <3> QED
      BY <1>3, <3>1
  <2> QED
    BY <2>1, <2>2
<1>5. \A q \in Requests : run'[q].pc \in Working /\ run'[q].at = "Approval" => Paused'
  <2> SUFFICES ASSUME NEW q \in Requests, run'[q].pc \in Working, run'[q].at = "Approval"
               PROVE  Paused'
    OBVIOUS
  <2>1. q = r
    BY <1>0 DEF InFlight, Working, InNode
  <2> QED
    BY <1>0, <1>2, <1>3, <2>1 DEF Leads
<1>6. thread' \in {"waiting", "approved"} => Paused'
  BY <1>0, <1>2, <1>3 DEF Leads, Working, InNode
<1>7. thread' = "Approval" => Paused' \/ \E q \in Requests : run'[q].pc = "enter" /\ run'[q].at = "Approval"
  BY <1>0, <1>2, <1>3, <1>5 DEF Leads
<1> QED
  BY <1>2, <1>4, <1>5, <1>6, <1>7

(***************************************************************************)
(* Clients that take turns keep the invariant.                             *)
(***************************************************************************)

LEMMA RestartSerial ==
  ASSUME IInv, SInv, Restart
  PROVE  SInv'
<1>0. /\ TypeOK /\ UNCHANGED <<thread, opened, spans, events>>
      /\ run' = [r \in Requests |-> IF InFlight(r) THEN Over([run[r] EXCEPT !.hit = TRUE]) ELSE run[r]]
  BY DEF IInv, Restart
<1>1. ASSUME NEW r \in Requests
      PROVE  /\ run'[r].kind = run[r].kind /\ run'[r].trace = run[r].trace
             /\ InFlight(r) => run'[r].pc = "over" /\ run'[r].hit /\ ~run'[r].answer
             /\ ~InFlight(r) => run'[r] = run[r]
             /\ run'[r].hit \/ run'[r] = run[r]
  <2> DEFINE it == [run[r] EXCEPT !.hit = TRUE]
  <2>1. it \in Runs /\ it.kind = run[r].kind /\ it.trace = run[r].trace /\ it.hit
    BY <1>0 DEF TypeOK, Runs
  <2>2. run'[r] = IF InFlight(r) THEN Over(it) ELSE run[r]
    BY <1>0
  <2> HIDE DEF it
  <2>3. ~Over(it).answer
    BY <2>1 DEF Over, Runs
  <2> QED
    BY <2>1, <2>2, <2>3, OverRun
<1>2. \A r \in Requests : ~InFlight(r)'
  BY <1>1 DEF InFlight
<1>3. /\ opened \in Seq(Requests)
      /\ \A i \in DOMAIN opened : opened[i] \in Requests /\ run[opened[i]].pc \notin Early
      /\ opened # <<>> => 1 \in DOMAIN opened
  BY <1>0 DEF TypeOK, IInv, TraceOK, Early
<1>4. Alone' /\ OneEach' /\ IsFiniteSet(events')
  BY <1>0, <1>2 DEF Alone, OneEach, SInv
<1>5. OneTrace'
  <2>1. \A r \in Requests : ~Past(r)' /\ run'[r].pc # "open"
    BY <1>2 DEF Past, InFlight, Early
  <2>2. \A i \in DOMAIN opened : run'[opened[i]].trace = run'[opened[1]].trace
    BY <1>1, <1>3 DEF SInv, OneTrace
  <2> QED
    BY <1>0, <2>1, <2>2 DEF OneTrace, SInv
<1>6. Deciding'
  <2>1. Decided => Decided'
    BY <1>1 DEF Decided
  <2>2. \A e \in events : e.run \in Requests
    BY <1>0 DEF TypeOK, Events
  <2> QED
    BY <1>0, <1>1, <2>1, <2>2 DEF Deciding, SInv
<1>7. Pausing'
  <2>1. PICK r \in Requests : InFlight(r)
    BY DEF Restart
  <2>2. run'[r].hit
    BY <1>1, <2>1
  <2> QED
    BY <2>2 DEF Pausing, Undisturbed
<1>8. ASSUME NEW r \in Requests
      PROVE  Place(r)' /\ ToolOK(r)'
  <2>0. Place(r) /\ ToolOK(r)
    BY DEF SInv
  <2>1. CASE InFlight(r)
    <3>1. run'[r].pc = "over" /\ run'[r].hit /\ ~run'[r].answer
      BY <1>1, <2>1
    <3>2. ToolOK(r)'
      BY <1>0, <2>0, <3>1 DEF ToolOK
    <3>3. opened # <<>> /\ r = LatestWorkflow => Past(r)
      BY <1>3, <2>1, LatestIsOpened DEF LatestWorkflow, Past, InFlight
    <3>4. Past(r) => Status(r)' \in {"running", "interrupted"}
      BY <1>0, <2>0 DEF Place, Status
    <3>5. opened' # <<>> /\ r = LatestWorkflow' => Ended(r)'
      BY <1>0, <3>1, <3>3, <3>4 DEF Ended, LatestWorkflow
    <3>6. Place(r)'
      BY <3>1, <3>5 DEF Place, Past, Early, InNode, Judged
    <3> QED
      BY <3>2, <3>6
  <2>2. CASE ~InFlight(r)
    BY <1>0, <1>1, <2>0, <2>2 DEF Place, ToolOK, Logged, Past, Status, Resumed, Ended, LatestWorkflow
  <2> QED
    BY <2>1, <2>2
<1> QED
  BY <1>4, <1>5, <1>6, <1>7, <1>8 DEF SInv

LEMMA SerialInit ==
  ASSUME Init
  PROVE  SInv
<1>1. /\ \A r \in Requests : run[r].pc = "idle" /\ run[r].kind = "none" /\ ~run[r].answer
      /\ \A r \in Requests : spans[r]["tool"] = <<>>
      /\ thread = "none" /\ opened = <<>> /\ events = {}
  BY NamesOK DEF Init, Idle
<1>2. Alone /\ OneEach /\ IsFiniteSet(events)
  BY <1>1, FS_EmptySet DEF Alone, InFlight, OneEach
<1>3. OneTrace
  BY <1>1 DEF OneTrace, Past, Early
<1>4. Deciding /\ Pausing
  BY <1>1 DEF Deciding, Pausing, Working, InNode
<1>5. \A r \in Requests : Place(r) /\ ToolOK(r)
  BY <1>1 DEF Place, ToolOK, Past, Early, InNode, Judged
<1> QED
  BY <1>2, <1>3, <1>4, <1>5 DEF SInv

LEMMA SerialNext ==
  ASSUME Serial, IInv, SInv, [Next]_vars
  PROVE  SInv'
<1>0. IInv'
  BY NextOK
<1>1. CASE \E r \in Requests : Accept(r) \/ Step(r) \/ Disconnect(r)
  <2>1. PICK r \in Requests : Accept(r) \/ Step(r) \/ Disconnect(r)
    BY <1>1
  <2>2. Moving(r)
    BY <2>1, StepOK DEF Moving
  <2>3. Others(r)
    <3>1. CASE Accept(r)
      BY <3>1 DEF Accept, Others
    <3>2. CASE Step(r) \/ Disconnect(r)
      <4>1. InFlight(r)
        BY <3>2 DEF Step, ReadTrace, OpenWorkflow, Resume, Load, Blocked, Announce, OpenNode, AgentEnter,
                    Call, ToolStart, ToolRecord, ToolEnd, NodeEnd, AgentExit, Return, Snapshot, Close,
                    Disconnect, InFlight
      <4> QED
        BY <4>1 DEF SInv, Alone, Others
    <3> QED
      BY <2>1, <3>1, <3>2
  <2>4. Turning(r)
    BY <1>0, <2>1, <2>2, <2>3, StepPasses, StepWrites, StepCourse DEF Turning
  <2>5. \A q \in Requests : Place(q)' /\ ToolOK(q)'
    BY <2>4, OthersStep DEF Turning, Passes
  <2> QED
    BY <2>4, <2>5, AloneStep, OneTraceStep, OneEachStep, DecidingStep, PausingStep DEF SInv
<1>2. CASE Restart
  BY <1>2, RestartSerial
<1>3. CASE UNCHANGED vars
  <2>1. UNCHANGED <<thread, opened, spans, events, run>>
    BY <1>3 DEF vars
  <2>2. Alone' /\ OneEach' /\ IsFiniteSet(events')
    BY <2>1 DEF SInv, Alone, InFlight, OneEach
  <2>3. OneTrace'
    BY <2>1 DEF SInv, OneTrace, Past, LatestWorkflow, TraceOfIncident
  <2>4. Deciding' /\ Pausing'
    BY <2>1 DEF SInv, Deciding, Decided, Pausing, Paused, Undisturbed
  <2>5. \A r \in Requests : Place(r)' /\ ToolOK(r)'
    BY <2>1 DEF SInv, Place, ToolOK, Logged, Past, Status, Resumed, Ended, LatestWorkflow
  <2> QED
    BY <2>2, <2>3, <2>4, <2>5 DEF SInv
<1> QED
  BY <1>1, <1>2, <1>3 DEF Next

(***************************************************************************)
(* What the metrics say when nobody is in flight.                          *)
(***************************************************************************)

Resting == IInv /\ SInv /\ AtRest

\* A set of tool calls in the audit log and the set of their spans are of one size.
LEMMA OneSpanEach ==
  ASSUME NEW calls, NEW ended, IsFiniteSet(calls),
         \A e \in calls : <<e.run, "tool", e.attempt>> \in ended,
         \A e, f \in calls : e.run = f.run /\ e.attempt = f.attempt => e = f,
         \A span \in ended : \E e \in calls : span = <<e.run, "tool", e.attempt>>
  PROVE  Cardinality(ended) = Cardinality(calls)
<1> DEFINE spanOf == [e \in calls |-> <<e.run, "tool", e.attempt>>]
<1>1. spanOf \in [calls -> ended]
  OBVIOUS
<1>2. \A e, f \in calls : spanOf[e] = spanOf[f] => e = f
  OBVIOUS
<1>3. \A span \in ended : \E e \in calls : spanOf[e] = span
  OBVIOUS
<1> HIDE DEF spanOf
<1>4. spanOf \in Bijection(calls, ended)
  BY <1>1, <1>2, <1>3, Fun_IsBij
<1>5. ExistsBijection(calls, ended)
  BY <1>4 DEF ExistsBijection
<1> QED
  BY <1>5, FS_Bijection

\* At rest, and if no fault hit anybody, every tool call in the log ended its span as it says,
\* and every span is in the log.
LEMMA CallsAtRest ==
  ASSUME Resting, Undisturbed
  PROVE  /\ \A e \in EventsOf("tool_call") :
              /\ e.run \in Requests /\ e.attempt \in 1 .. MaxAttempts
              /\ e.attempt <= Len(spans[e.run]["tool"])
              /\ spans[e.run]["tool"][e.attempt] = e.status /\ e.status # "running"
         /\ \A r \in Requests, i \in 1 .. MaxAttempts : i <= Len(spans[r]["tool"]) =>
              \E e \in EventsOf("tool_call") : e.run = r /\ e.attempt = i
         /\ \A e, f \in EventsOf("tool_call") : e.run = f.run /\ e.attempt = f.attempt => e = f
         /\ IsFiniteSet(EventsOf("tool_call"))
<1>0. TypeOK /\ "tool" \in Names
  BY NamesOK DEF Resting, IInv
<1>1. ASSUME NEW r \in Requests
      PROVE  /\ ~run[r].hit /\ run[r].pc \in {"idle", "over"}
             /\ DOMAIN spans[r]["tool"] = 1 .. Len(spans[r]["tool"])
             /\ ToolOK(r) /\ OpenOK(r)
  BY <1>0 DEF Resting, Undisturbed, AtRest, InFlight, SInv, IInv, Local, TypeOK
<1>2. ASSUME NEW r \in Requests, NEW i \in DOMAIN spans[r]["tool"]
      PROVE  spans[r]["tool"][i] # "running" /\ Logged(r, "tool", "tool_call", i, spans[r]["tool"][i])
  <2>1. spans[r]["tool"][i] # "running"
    BY <1>0, <1>1, <1>2 DEF OpenOK, InNode, Visited
  <2> QED
    BY <1>1, <1>2, <2>1 DEF ToolOK
<1>3. ASSUME NEW e \in EventsOf("tool_call")
      PROVE  /\ e \in events /\ e.run \in Requests /\ e.attempt \in 1 .. MaxAttempts
             /\ e.type = "tool_call" /\ e.node = "tool"
             /\ e.attempt <= Len(spans[e.run]["tool"])
             /\ e.attempt \in DOMAIN spans[e.run]["tool"]
  <2>1. e \in events /\ e.type = "tool_call" /\ e \in Events
    BY <1>0, <1>3 DEF EventsOf, TypeOK
  <2>2. e.run \in Requests /\ e.attempt \in 1 .. MaxAttempts
    BY <2>1 DEF Events
  <2>3. e.node = "tool" /\ e.attempt <= Len(spans[e.run]["tool"])
    BY <1>1, <2>1, <2>2 DEF ToolOK
  <2>4. Len(spans[e.run]["tool"]) \in Nat /\ e.attempt \in Nat /\ 1 <= e.attempt
    BY <1>0, <2>2, AttemptAssumption DEF TypeOK
  <2> QED
    BY <1>1, <2>1, <2>2, <2>3, <2>4
<1>4. \A e, f \in EventsOf("tool_call") : e.run = f.run /\ e.attempt = f.attempt => e = f
  BY <1>3 DEF Resting, SInv, OneEach, SameKey
<1>5. ASSUME NEW r \in Requests, NEW i \in 1 .. MaxAttempts, i <= Len(spans[r]["tool"])
      PROVE  /\ Event(r, "tool", "tool_call", i, spans[r]["tool"][i]) \in EventsOf("tool_call")
             /\ spans[r]["tool"][i] # "running"
  <2>1. i \in DOMAIN spans[r]["tool"]
    BY <1>0, <1>1, <1>5, AttemptAssumption DEF TypeOK
  <2>2. Event(r, "tool", "tool_call", i, spans[r]["tool"][i]).type = "tool_call"
    BY DEF Event
  <2> QED
    BY <1>2, <2>1, <2>2 DEF Logged, EventsOf
<1>6. ASSUME NEW e \in EventsOf("tool_call")
      PROVE  spans[e.run]["tool"][e.attempt] = e.status /\ e.status # "running"
  <2> DEFINE f == Event(e.run, "tool", "tool_call", e.attempt, spans[e.run]["tool"][e.attempt])
  <2>1. f \in EventsOf("tool_call") /\ spans[e.run]["tool"][e.attempt] # "running"
    BY <1>3, <1>5
  <2>2. f.run = e.run /\ f.attempt = e.attempt /\ f.status = spans[e.run]["tool"][e.attempt]
    BY DEF Event
  <2> HIDE DEF f
  <2>3. f = e
    BY <1>4, <1>6, <2>1, <2>2
  <2> QED
    BY <2>1, <2>2, <2>3
<1>7. ASSUME NEW r \in Requests, NEW i \in 1 .. MaxAttempts, i <= Len(spans[r]["tool"])
      PROVE  \E e \in EventsOf("tool_call") : e.run = r /\ e.attempt = i
  <2> DEFINE f == Event(r, "tool", "tool_call", i, spans[r]["tool"][i])
  <2>1. f.run = r /\ f.attempt = i
    BY DEF Event
  <2>2. f \in EventsOf("tool_call")
    BY <1>5, <1>7
  <2> HIDE DEF f
  <2> QED
    BY <2>1, <2>2
<1>8. IsFiniteSet(EventsOf("tool_call"))
  <2>1. EventsOf("tool_call") \subseteq events /\ IsFiniteSet(events)
    BY DEF EventsOf, Resting, SInv
  <2> QED
    BY <2>1, FS_Subset
<1> QED
  BY <1>3, <1>4, <1>6, <1>7, <1>8

\* The calls that ended in one way.
LEMMA CountsAgree ==
  ASSUME Resting, Undisturbed, NEW status
  PROVE  Cardinality({span \in SpansOf({"tool"}) : SpanStatus(span) = status /\ SpanStatus(span) # "running"}) =
         Cardinality({e \in EventsOf("tool_call") : e.status = status})
<1> DEFINE calls == {e \in EventsOf("tool_call") : e.status = status}
           ended == {span \in SpansOf({"tool"}) : SpanStatus(span) = status /\ SpanStatus(span) # "running"}
<1>1. IsFiniteSet(calls)
  <2>1. calls \subseteq EventsOf("tool_call")
    OBVIOUS
  <2> QED
    BY <2>1, CallsAtRest, FS_Subset
<1>2. ASSUME NEW e \in calls
      PROVE  <<e.run, "tool", e.attempt>> \in ended
  BY <1>2, CallsAtRest DEF SpansOf, SpanStatus
<1>3. \A e, f \in calls : e.run = f.run /\ e.attempt = f.attempt => e = f
  BY CallsAtRest
<1>4. ASSUME NEW span \in ended
      PROVE  \E e \in calls : span = <<e.run, "tool", e.attempt>>
  <2>1. /\ span = <<span[1], "tool", span[3]>> /\ span[1] \in Requests /\ span[3] \in 1 .. MaxAttempts
        /\ span[3] <= Len(spans[span[1]]["tool"])
        /\ spans[span[1]]["tool"][span[3]] = status
    BY <1>4 DEF SpansOf, SpanStatus
  <2>2. PICK e \in EventsOf("tool_call") : e.run = span[1] /\ e.attempt = span[3]
    BY <2>1, CallsAtRest
  <2>3. e.status = status
    BY <2>1, <2>2, CallsAtRest
  <2> QED
    BY <2>1, <2>2, <2>3
<1> HIDE DEF calls, ended
<1>5. Cardinality(ended) = Cardinality(calls)
  BY <1>1, <1>2, <1>3, <1>4, OneSpanEach
<1> QED
  BY <1>5 DEF calls, ended

\* All calls that ended.
LEMMA TotalAgrees ==
  ASSUME Resting, Undisturbed
  PROVE  ToolCalls.total = Cardinality(EventsOf("tool_call"))
<1> DEFINE calls == EventsOf("tool_call")
           ended == {span \in SpansOf({"tool"}) : SpanStatus(span) # "running"}
<1>2. ASSUME NEW e \in calls
      PROVE  <<e.run, "tool", e.attempt>> \in ended
  BY <1>2, CallsAtRest DEF SpansOf, SpanStatus
<1>4. ASSUME NEW span \in ended
      PROVE  \E e \in calls : span = <<e.run, "tool", e.attempt>>
  <2>1. /\ span = <<span[1], "tool", span[3]>> /\ span[1] \in Requests /\ span[3] \in 1 .. MaxAttempts
        /\ span[3] <= Len(spans[span[1]]["tool"])
    BY <1>4 DEF SpansOf
  <2>2. PICK e \in EventsOf("tool_call") : e.run = span[1] /\ e.attempt = span[3]
    BY <2>1, CallsAtRest
  <2> QED
    BY <2>1, <2>2
<1>3. IsFiniteSet(calls) /\ \A e, f \in calls : e.run = f.run /\ e.attempt = f.attempt => e = f
  BY CallsAtRest
<1>6. ToolCalls.total = Cardinality(ended)
  BY DEF ToolCalls
<1> HIDE DEF calls, ended
<1>5. Cardinality(ended) = Cardinality(calls)
  BY <1>2, <1>3, <1>4, OneSpanEach
<1> QED
  BY <1>5, <1>6 DEF calls

\* A decision, and nothing else, ends the wait for an approval.
LEMMA WaitsAgree ==
  ASSUME Resting, Undisturbed
  PROVE  WaitedTraces # {} <=> Decided
<1>1. ASSUME WaitedTraces # {}
      PROVE  Decided
  <2>1. PICK e \in events : e.type = "resume"
    BY <1>1 DEF WaitedTraces, EventsOf
  <2>2. e.run \in Requests /\ run[e.run].kind \in {"decision", "retry"}
    BY <2>1 DEF Resting, IInv, TypeOK, Events, SInv, Deciding
  <2> QED
    BY <2>2 DEF Resting, SInv, Deciding, Decided
<1>2. ASSUME Decided
      PROVE  WaitedTraces # {}
  <2>1. PICK r \in Requests : run[r].kind = "decision"
    BY <1>2 DEF Decided
  <2>2. run[r].pc = "over" /\ ~run[r].hit
    BY <2>1 DEF Resting, AtRest, InFlight, IInv, Local, RunOK, Undisturbed
  <2>3. Resumed(r) /\ Paused
    BY <2>1, <2>2 DEF Resting, SInv, Place, Pausing, Early
  <2>4. PICK e \in events : e.run = r /\ e.type = "resume"
    BY <2>3 DEF Resumed
  <2>5. PICK f \in events : f.type = "approval_pause"
    BY <2>3 DEF Paused
  <2>6. run[e.run].trace = run[f.run].trace
    BY DEF Resting, SInv, OneTrace
  <2>7. run[e.run].trace \in WaitedTraces
    BY <2>4, <2>5, <2>6 DEF WaitedTraces, EventsOf
  <2> QED
    BY <2>7
<1> QED
  BY <1>1, <1>2

LEMMA TrueAtRest ==
  ASSUME IInv, SInv
  PROVE  DashboardIsTrue
<1> SUFFICES ASSUME AtRest, opened # <<>>
             PROVE  /\ IncidentStatus = "succeeded" => thread = "end"
                    /\ ~run[LatestWorkflow].hit =>
                         /\ PendingApprovals = 1 => thread = "waiting"
                         /\ IncidentStatus = "failed" => thread # "end"
                         /\ ActiveIncidents = 0
                    /\ Undisturbed =>
                         /\ ToolCalls.total = Cardinality(EventsOf("tool_call"))
                         /\ \A status \in {"succeeded", "failed"} :
                              ToolCalls[status] = Cardinality({e \in EventsOf("tool_call") : e.status = status})
                         /\ WaitedTraces # {} <=> Decided
  BY DEF DashboardIsTrue
<1> DEFINE r == LatestWorkflow
<1>0. TypeOK /\ opened \in Seq(Requests)
  BY DEF IInv, TypeOK
<1>1. Len(opened) \in DOMAIN opened /\ r \in Requests /\ r = opened[Len(opened)]
  BY <1>0, LatestIsOpened DEF LatestWorkflow
<1>2. run[r].pc = "over"
  BY <1>1 DEF AtRest, InFlight, IInv, TraceOK
<1>3. Ended(r) /\ Len(spans[r]["workflow"]) = 1 /\ 1 \in DOMAIN spans[r]["workflow"]
  BY <1>0, <1>1, <1>2, NamesOK DEF SInv, Place, OneTrace, TypeOK
<1>4. ~run[r].hit => Status(r) # "running"
  BY <1>1, <1>2, <1>3, NamesOK DEF IInv, Local, OpenOK, Status, InNode, Visited
<1>5. IncidentStatus = Status(r)
  BY DEF IncidentStatus, Status
<1>6. /\ IncidentStatus = "succeeded" => thread = "end"
      /\ ~run[r].hit =>
           /\ PendingApprovals = 1 => thread = "waiting"
           /\ IncidentStatus = "failed" => thread # "end"
           /\ ActiveIncidents = 0
  <2> HIDE DEF r
  <2> QED
    BY <1>3, <1>4, <1>5 DEF Ended, PendingApprovals, ActiveIncidents
<1>7. ASSUME Undisturbed, NEW status \in {"succeeded", "failed"}
      PROVE  ToolCalls[status] = Cardinality({e \in EventsOf("tool_call") : e.status = status})
  <2>1. ToolCalls[status] = SpanCount({"tool"}, status)
    BY <1>7 DEF ToolCalls
  <2>2. {span \in SpansOf({"tool"}) : SpanStatus(span) = status} =
        {span \in SpansOf({"tool"}) : SpanStatus(span) = status /\ SpanStatus(span) # "running"}
    BY <1>7
  <2> QED
    BY <1>7, <2>1, <2>2, CountsAgree DEF SpanCount, Resting
<1> QED
  BY <1>6, <1>7, TotalAgrees, WaitsAgree DEF Resting

\* If clients take turns, what the metrics and the incident list say of the incident between
\* requests is what its checkpoint and the audit log say, however often the stores fail.
THEOREM DashboardTrue ==
  ASSUME Serial
  PROVE  Spec => []DashboardIsTrue
<1>1. Init => IInv /\ SInv
  BY InitOK, SerialInit
<1>2. IInv /\ SInv /\ [Next]_vars => (IInv /\ SInv)'
  BY NextOK, SerialNext
<1>3. IInv /\ SInv => DashboardIsTrue
  BY TrueAtRest
<1> QED
  BY <1>1, <1>2, <1>3, PTL DEF Spec
==============================================================================
