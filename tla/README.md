# A TLA+ model of the network operations agent

The repository is a FastAPI service with LangGraph workflows that language-model agents drive. Two
products share one platform: NetworkOps (incidents: diagnose, plan, ask a person, execute) and
EmbeddedOps (firmware tasks: design, ask a person, compile, simulate, debug); packs, capabilities,
policies, governance, a chat over agent graphs and a digital twin belong to the platform or sit on it.
This directory models the parts that decide, remember and race, checks them with TLC on small
instances and proves their main invariants with TLAPS.

Contents: [inventory](#1-inventory), [modules](#2-modules-and-how-they-correspond-to-the-code),
[runs](#3-runs-bounds-and-what-they-show), [fairness](#4-fairness), [proofs](#5-proofs),
[findings](#6-findings), [what is not modelled](#7-what-is-not-modelled), [plan](#8-plan).

Paths below are relative to `src/src/network_agent_rag/`. `PROJECT.json` maps every definition to its
lines and lists every hazard at its line.

## 1. Inventory

### Incident workflow and API (modelled)

*Code:* `packs/networkops/api/enterprise.py`, `packs/networkops/agents/enterprise/{workflow,approval,execution,state}.py`.

*State:* one LangGraph thread per incident id, in a checkpointer (plan, risk decision, approval,
execution result, status, next node); the process' clock and whether it has an authentication
provider; one stream per request.

*Operations:* `POST /incidents` starts a thread, `POST /incidents/{id}/approval` resumes it with a
decision or retries an approved execution. The graph is Supervisor, evidence agents, RepairAgent,
RiskCheck, Approval (which interrupts), Execute (which calls the allow-listed handlers), ReportAgent.
DiagnosisAgent sends itself back while the documents it found are irrelevant and attempts are left.

*Interaction:* the endpoint validates a snapshot of the thread, the stream loads the thread again
later; nodes run in worker threads, write audit events and spans, ask the policy engine and RBAC.

*Hard:* two requests validate one snapshot; a disconnect cancels the stream while its node goes on; a
process stops between an audit event and the checkpoint that should follow; checkpoints are saved
while the next node begins; a decision is in time at the API and late at the node; a process comes
back without authentication; nothing but its own count of attempts stops the diagnosis agent's loop.

*Correct when:* no handler runs without what its plan needs (policy, a matching, timely approval,
RBAC at every stage); a stored verdict stays; a stored result is what was done and audited; reports
and audit log agree with what was done; every incident ends or waits for a person.

### EmbeddedOps workflow and API, artifact store (modelled)

*Code:* `packs/embeddedops/api.py`, `packs/embeddedops/agents/workflow.py`, `artifact/storage.py`, `domain/task/store.py`.

*State:* an in-memory task record and checkpoint per task id, artifact files and a `manifest.json`
on disk, a counter of ids.

*Operations:* create (initialise, design, generate, ask), decide (approve: compile, simulate, debug
until it passes or the budget is spent; reject: finish), synchronise the record with the thread.

*Hard:* the endpoints run in a thread pool and nothing serialises two requests on a task; saving an
artifact is check, write file, read manifest, write manifest; memory is lost on a restart and files
are not; capabilities may be missing; the debug loop must end.

*Correct when:* a design that passed was approved and its very firmware was compiled and simulated;
attempts stay in the budget and each is logged; record, thread, files and manifest agree.

### Identity sessions and API keys (modelled)

*Code:* `auth/identity.py`, `auth/token.py`.

*State:* a session (status, expiry) and the hash of its current refresh token, in memory or in Redis.

*Operations:* issue, refresh (rotate), authenticate, look up, log out; expiry on lookup; create, use
and revoke an API key.

*Hard:* racing refreshes with one token, a refresh between a lookup's read and its verdict, several
Redis commands for one status change, keys that vanish by TTL, an audit log that fails after the
rotation.

*Correct when:* a token is exchanged once, reuse ends the session, a session that ended stays ended,
an active session lives as long as its refresh token; a key that is over or revoked opens nothing.

### Trace store and collector (modelled with the incident stream)

*Code:* `observability/{store,collector,models}.py`, the tracing helpers of the workflow and the API.

*State:* spans (workflow, node, tool) with run, attempt and status; lifecycle events in the audit log
under an idempotency key; the trace id an incident's first span carries.

*Operations:* start and finish a span, record enter, exit, tool call, pause, resume and execution
events; find the trace of an incident.

*Hard:* either store can fail at every write, in the middle of a node; nodes are visited again and
retried; the end of a run and the handler of its cancelled stream finish one span.

*Correct when:* nothing is saved as done that is not traced as done, handlers run only announced, one
incident has one trace, spans end once, and a span left open means that something failed.

### Authorisation (modelled with the incident service)

*Code:* `auth/rbac.py`, `auth/dependencies.py`. The permissions of the roles, and the permission each
endpoint and each stage of the workflow asks for, are part of IncidentService.

### Platform: packs, capabilities, policy, verification (modelled)

*Code:* `packs/registry.py`, `capability/*`, `policy/*`, `main.py`, `rag/vector_store.py`,
`packs/embeddedops/{manifest,capabilities,knowledge}.py`,
`packs/embeddedops/agents/{validation_loop,debug_agent}.py`, `packs/embeddedops/simulation/in_process.py`.

*State:* the registries of packs, of capabilities and of their handlers, which live as long as the
process; the persisted collection of a pack; runs of `ValidationLoop`, their logs and `report.json`.

*Operations:* register a pack through a pipeline of gates, probe and fill its collection, bind its
handlers, mount its routers, resolve a goal to capabilities, evaluate a plan against the rules; compile,
simulate, debug and retry until the firmware passes or the budget is spent.

*Interaction:* a pack brings capabilities and permissions; the pipeline asks the policy engine whether a
rule covers each classified tool; the incident workflow asks for the effect of a plan.

*Hard:* a registration that fails half-way, a process that stops while the collection is filled, version
and name lookups that do not agree, empty and mixed plans, an earlier simulation beside a later compile.

*Correct when:* what an assembled process offers has an owner, a handler and a rule; no effect is laxer
than a rule that speaks of the plan; a report has the evidence of its own run.

### Chat and agent graphs (modelled)

*Code:* `packs/networkops/agents/{workflow,diagnosis_workflow}.py`, `packs/networkops/agents/multi_agent/*`,
`packs/networkops/api/{router,history}.py`.

*State:* the state LangGraph passes between the nodes, the events a client received, the history of a session.

*Operations:* three graphs: answer a question from documents with rewrites and a check of the answer;
diagnose with one call for each required source; a supervisor that hands over to specialists.

*Hard:* every node may fail and has an error route; loops are bounded by iterations, hand-overs and the
engine's own limit of steps; requests of one session are served side by side and in no order; a client
may leave between the answer and the moment it is remembered.

*Correct when:* an answer was approved or says that it was not; each agent is accounted for exactly once;
a run ends within its budgets; what was served to its end is remembered once, as it was sent.

### Governance service (modelled)

*Code:* `governance/*`, `storage/postgres.py`, `observability/timeline.py`.

*State:* none of its own: it projects the audit log and the trace store to security events and appends
them to the audit log under a key that a second insertion leaves alone.

*Operations:* synchronise security events, assess the risk of an operation, write a compliance report.

*Hard:* each operation asks the stores several times while others write, two callers project the same
fact, a store raises in the middle and the caller asks again.

*Correct when:* no event is recorded twice and none of the scope is lost; a report's sections cover its
evidence; an assessment counts at least the history at its beginning.

### Digital twin (modelled)

*Code:* `packs/networkops/digital_twin/*`.

*State:* a network of devices and links, the copies an engine and an analyzer keep of it, the last study.

*Operations:* change a device, a link or the clock, propagate a fault, score its impact.

*Hard:* reachability with redundant ways and without any entry, copies of different age, a clock that is
set back, rounding of the score.

*Correct when:* a fault affects exactly what loses every way to an entry, and its score agrees with the
copy it is made on.

### Audit log (modelled where the others use it)

*Code:* `audit/store.py`, `storage/postgres.py`. Append-only events; the first event of an
idempotency key stays. Modelled inside the incident and the trace module; the queries are read-only.

### Other parts (not modelled, see [section 7](#7-what-is-not-modelled))

Evaluation (offline scoring), deployment reports, latencies and averages of the metrics, the console's
read-only views, legacy tokens, the Renode and Wokwi back ends, contents of the retrieval, front ends and demos,
configuration and HTTP wiring.

## 2. Modules and how they correspond to the code

```
IncidentThread <- IncidentService <- IncidentSafety <- MCIncident
                                          ^-- IncidentProofs
IncidentLifecycle (abstract) <= IncidentSafety
EmbeddedTask <- MCEmbedded, EmbeddedProofs
SessionLifecycle (abstract) <= IdentitySessions <- ApiKeys <- MCIdentity, IdentityProofs
IncidentTrace <- TraceMetrics <- MCTrace, TraceProofs
DiagnosisEvidence <- DiagnosisWorkflow, MultiAgentWorkflow
AgentWorkflow, DiagnosisWorkflow, MultiAgentWorkflow <= ChatService <- MCChat, ChatProofs
PolicyEngine, CapabilityRegistry <- PackRegistry
PackRegistry, ValidationLoop <- Platform <- MCPlatform, PlatformProofs
Governance <- MCGovernance, GovernanceProofs
DigitalTwin <- MCTwin, DigitalTwinProofs
```

`<-` is EXTENDS, `<=` is INSTANCE. The operators named in the `mutants` of `PROJECT.json` stand in the
modules beside the definition they alter; no specification uses them.

### IncidentThread

The record the checkpointer keeps for an incident, and what each node makes of it as operators from a
thread to a thread (`Initialized`, `Diagnosed`, `Planned`, `Assessed`, `Decided`, `Executed`, `Reported`).
A plan is a risk, whether the proposal itself demands a human, and a sequence of actions. `Digest` keeps what
`plan_digest` hashes, the actions and not the risk, so two plans may share it.

`attempt` is the thread's `diagnosis_iteration`. After a visit of the diagnosis agent the graph goes on to
the repair agent or the report, or back to the diagnosis agent: a retry counts its attempt like any other
visit, and `AfterDiagnosis` offers it only below `MaxQuality` (`max_quality_iterations`). This is the only loop of
the graph, and the count the only thing that bounds it. A budget below one acts as one, so `MaxQuality` is positive.

### IncidentService

One incident and its requests. A slot of `Requests` is one HTTP request and is used once. It is
accepted against a snapshot (`Start`, `SubmitRetry`, `SubmitDecision`), its run loads the checkpoint
later (`Begin`) and carries a state of its own in `local`. Each node is an action; its update reaches
the checkpoint with `Save`. LangGraph saves checkpoints while the next node runs: Execute may begin,
and call handlers, while the update before it is still unsaved (`dirty`), and a crash loses it. A new
input on an existing thread begins again at Supervisor, and runs side by side write last-wins.

Faults: `raise` (a node or a store fails), `disconnect` (the stream is cancelled; the node goes on in
its thread, `gone`, and its update is dropped), `restart` (every run is lost; the new process may or may
not have authentication, `Deployments`). Requests the API refuses change nothing and are no steps.
The audit log is the set of events that record a decision; those that narrate a node are left out.
`IncidentSafety` states the properties.

`IncidentLifecycle` is the promise to clients that take turns: an incident is opened once, gets at most
one plan, one verdict on a plan that needs a person and one result, and is reported when nothing is left
to do. `IncidentSafety` instantiates it over the checkpoint: the phase is read off the next node, the
plan, the verdict and the result are the fields of that name (`approval` is the verdict), and `Guarded`
are the plans that need an approval. Clients that race do break it (incident_reject_race), so it is a
property of the serial run and a theorem under `Serial`.

The three evidence agents are one action, because nothing the properties speak of tells them apart; the
retries are visits of the diagnosis agent alone.

`Settles` says that an incident is reported or comes to rest where only a person can move it
(`AwaitsPerson`): at Approval, waiting for the decision, or at Execute, when who approved it may not execute. It does
not count an approved incident whose run stopped on its way, nor one whose diagnosis goes round for ever.
LangGraph is not part of the repository: what is used of it is modelled from its use and marked
external in the map.

### EmbeddedTask

One task id: the one each process gives to its first task. `run[r]` holds a request and its run; a
node is an action that puts its new state and the list of artifacts to save, and each artifact takes
the four steps of the store (`CheckName`, `WriteFile`, `ReadManifest`, `WriteManifest`) before `Commit`
puts the checkpoint. Firmware is a version number; a compile or simulation is a free choice of its
verdicts. `Clients` bounds the requests in flight, `Registries` are the capability sets a process may
resolve. The approval never expires in the model because it never expires in the code: the request is
made again on every resume, so its age is zero.

### SessionLifecycle, IdentitySessions and ApiKeys

`SessionLifecycle` is the promise: absent, live, over; a token is spent once. `IdentitySessions` is
the service over both stores: `InMemoryIdentityStore` does each operation under a lock; in Redis the
rotation is one script and a status change is EXISTS, HSET, DEL, HGETALL, each an action, with keys that
vanish at `Tick`. A HSET on a vanished key brings it back as a hash with a status alone. Token pairs are
numbered in the order they are minted, so the k-th pair is the refresh token k. The abstract
specification is a property of the run and a theorem.

`ApiKeys` puts one API key beside the session: `ServiceSpec` has every step of IdentitySessions, the same
slots for calls, store and clock, and the steps of `create_api_key`, `authenticate_api_key` and
`revoke_api_key`. In Redis the time to live of a key is a second command, and a revocation is EXISTS, HSET
and HGETALL, so a key that vanishes in between comes back without its fields and is refused (`whole`).
A key at its end is refused and not written. The identifier is fresh, so one key stands for each.

### IncidentTrace

The stream of each request from the API (`ReadTrace`, `OpenWorkflow`, `Resume`) through the nodes
(`Announce`, `OpenNode`, `AgentEnter`, `Call` or the tool's three steps, `NodeEnd`, `AgentExit`) to the
end (`Return`, `Snapshot`, `Close`). `spans[r][name]` is a sequence whose places are the attempts,
`events` a set in which the first event of run, node, type and attempt stays. What nodes decide is in
IncidentService; here every path through the graph is a choice. DiagnosisAgent stands for the agents
that call a tool, RiskCheck for RepairAgent and RiskCheck. A store failure is the other branch of
each writing action (`Broken`) and ends exactly as far as the code's try blocks let it. A run id is
fresh, so the slot names it. Deployments with a collector but no trace store are left out.

`TraceMetrics` adds what the incident list, the metrics and the Prometheus page compute from these two
stores: the status of the last workflow span, the calls of tools, the waits for an approval. It has no
state of its own, which is what can make it wrong: nothing ties the stores to the checkpoint.

### AgentWorkflow, DiagnosisWorkflow, MultiAgentWorkflow and ChatService

Each graph is a module over two variables, the state `st` of LangGraph and the `limits` it was built
with; each node is an action that ends by setting the next node, so the routing functions are part of
it. What a model or a tool answers is a free choice, a node's failure (after the retries of its policy)
its error handler. `DiagnosisEvidence` has what two graphs share: plans and their validation, the
signals of each source, the scores of the correlator. Plans are constants so that an instance can offer
sound and unsound ones.

`ChatService` takes the three graphs as instances and drives the one the process was built with. `chat`
holds the streams of one session in the order of their requests, and they overlap in any way: `Ask` looks at no
other chat, as the endpoint does. A stream is the steps of its graph, then `SendAnswer(c)` and, in another
step, `Remember(c)`; `SendError(c)` is an exception out of the graph and `Disconnect(c)` a client that leaves at an
event. Streams share nothing but the history, whose every access is under a lock, and a graph is run without a
checkpointer, so one chat, the `followed` one, has its graph step by step, and the others answer (`"other"`)
at a moment of their own; `followed` is any of them. `seen` notes how long the history was when a chat was
asked. A retry policy is one failure after its last attempt. `StepLimit` bounds no action: `WithinBudgets`
says that LangGraph's limit on supersteps is never what ends a run.

### PolicyEngine, CapabilityRegistry, PackRegistry, ValidationLoop and Platform

The first two have no variables: rules, contexts and effects, and the registry of versioned capabilities
as a value. `PackRegistry` is the pipeline: the gates in the order of the code, then the capabilities one
by one, so that a refused capability leaves the earlier ones in place. `ValidationLoop` has runs side by
side over one artifact store, with the transition table of the task's states and the in-process
simulator; a save is one step there, because EmbeddedTask has the steps it is made of. `Platform`
composes them into a process that assembles, serves and stops at any step, then starts again over the
kept collection and artifacts. Firmware is the set of errors the compiler would find and whether it hangs.

### Governance

`history` holds the audit log and the trace store as one sequence: a position is the time and the
identity of an entry, and each store lists its own entries. `op[c]` is a request and what it has read so
far, one action per query of a store; appending is the idempotent insertion. A store that raises ends
the request, which is then made again (`Raise`). `MapsTo` has every mapping of `_from_audit`, those included whose
entries the instance does not write.

### DigitalTwin

`twin` is the network, `engine` and `analyzer` hold the copy each was made with, `study` and `impact` the
last analysis. `Reachable` is the connected components of the entries, the least set closed under the
links; `PropagationIsExact` compares it with the ways through the network one by one. Scores are in
hundredths; at a tie they are rounded up.

## 3. Runs, bounds and what they show

| run | instance | shows |
|---|---|---|
| incident_serial | 3 requests, clients wait for each other, all faults, restarts with and without authentication, clock to 2, up to 2 visits of the diagnosis agent | types, RbacChain, ResultIsBacked; IncidentLifecycle is implemented (KeepsIncident) |
| incident_race | 3 racing requests, policy on, no other fault, 1 visit of the diagnosis agent, no expiry | ApprovedWhenActing survives forked runs |
| incident_quiet | 3 requests, no race, no fault, up to 3 visits of the diagnosis agent, fair | incidents are reported or wait for a person (Settles), decisions take effect (DecisionTakesEffect), report and audit are true (UnexecutedReportIsTrue, AuditedVerdict) |
| incident_reject_race | as quiet, racing, up to 2 visits | **violation** of UnexecutedReportIsTrue |
| embedded_race | 3 requests, 2 in flight, 1 patch, failing nodes, restarts, missing capabilities | types, PassedIsVerified, CompletedIsEarned, AttemptsAreLogged |
| embedded_quiet | one request at a time, 2 patches, fair | StatusAgrees and ManifestIsComplete; decisions end the task (DecisionEndsTask) |
| identity_sessions | 3 calls on a session and an API key, both stores, failing commands, restarts, clock to 4 | SessionLifecycle is implemented (KeepsLifecycle); ReuseRevokes, LogoutIsFinal, LifetimesAgree, KeyIsGood |
| trace_serial | 3 requests one after the other, 2 of them disturbed, 2 visits of a node, all faults | SavedIsTraced, FinishedOnce, ActionsAreAnnounced, ResumeSharesTrace, OpenSpanMeansFault, DashboardIsTrue |
| chat_agents | 3 overlapping chats on the answering graph, 2 on the diagnosis, 1 on the supervisor; two budgets, sound and unsound plans, fair | AnswerIsSound, AgentsAccounted, WithinBudgets (and types), HistoryIsDelivered; every chat ends (ChatEnds) |
| platform | 2 processes one after the other, 8 packs, 16 plans, 2 loop runs over one task, 1 patch | PacksAreUsable, StrictestWins, ReportIsBacked |
| governance | 2 callers, 3 requests, 2 facts written in any order, raising stores | SyncIsComplete, ReportCoversItsEvidence, RiskSeesHistory |
| digital_twin | 4 devices, 4 networks, every single change, clock to 1 | PropagationIsExact, ImpactIsConsistent |

Why the bounds suffice:

- *Requests and calls (3).* Start, decide and retry is the longest history one approval can have; two
  racing requests plus the one that made them possible reach every pair of conflicting steps.
- *Plans.* One that needs approval by risk, one the agent marks for a human and the policy denies, one
  that needs none; the first has two actions, so that a handler can fail after another succeeded.
- *Users.* One planner, one approver, one with both roles, so that an approval may or may not carry
  the permission to execute. The racing run leaves out the second, whose refused executions the serial
  run has.
- *Clock.* `Ttl` 1 and `MaxTime` 2 put a decision before, at and after its expiry; for sessions an
  access token of 1 and a refresh token of 2 with `MaxTime` 4 let a session be extended and still end; an API key lives for 2 or for ever.
- *MaxFix.* One patch reaches the end of the budget; the quiet run has two, so that the loop repeats.
- *MaxQuality.* Three attempts let the diagnosis agent send itself back twice, two once. incident_race has one:
  a retry there only repeats a step that touches nothing the racing requests share, and the run is the largest
  of the incident. Its clock (`MaxTime` 1 with `Ttl` 1) never passes an expiry either. The theorem
  ApprovalRespected holds for every budget and every clock.
- *Trace.* Two visits make a second attempt; `MaxDisturbed` 2 of 3 requests have faults or errors of
  their own, since a third adds only the same records in another slot. `MaxDisturbed` limits the
  instance only: the theorems hold for every value of it.
- *Chat.* Two chats overlap in every order and the third is asked when one of them may be remembered; the
  streams are alike whatever the graph, so they are many where the graph is small. Budgets of 2 and 3 iterations make
  the last iteration another than the first retry. A sound plan needs at most 9 hand-overs, so a limit of
  4 is reached and the default of 12 is not; `StepLimit` 25 is LangGraph's.
- *Platform.* One pack for each gate of the pipeline and one that passes it only after another; plans
  with no target, blank targets, several tools and several devices; a second process meets what the
  first left. Two loop runs on one task write beside each other; one patch spends the budget.
- *Governance.* Two facts are one before and one after a query; the second caller synchronises, assesses
  or reports, and the third request meets what an interrupted one recorded.
- *Digital twin.* A chain, a ring with a tail, two islands and the empty network: one way, two ways, no
  way and nothing to reach. One change separates the copies of engine and analyzer.
- Deadlock is not checked: the slots of an instance are finite, so every behaviour may stop.

Symmetry is used where the slots are interchangeable and no liveness is checked. Each property of a
passing run has a mutant, an altered definition of the model in the form of a plausible bug, under
which the run finds the property violated.

## 4. Fairness

`FairSpec` has weak fairness of `Step(r)` alone in the incident and the EmbeddedOps model: a request
that was accepted is driven by the server's event loop or by its thread in the pool, and nobody has to
ask. Clients, the clock, disconnects, failures and restarts have none. Liveness is checked there only
without faults (incident_quiet, embedded_quiet), where the code can promise it: after a restart a
`running` incident stays so (section 6).

In the chat model `FairSpec` has weak fairness of `Stream(c)` for each chat: the event loop drives every
stream that was opened. Nodes fail and clients leave in that run; the loops must end all the same, and whether they do is
up to the budgets. The other modules state no liveness.

## 5. Proofs

Every theorem holds for all values of the constants under the named assumptions of the modules (the
constants have their types, the bounds are natural numbers, `None` is no request and no user), so for
any number of requests, users, plans, patches and attempts, with racing clients, failures and restarts.
What the code promises only to clients that take turns is proved under `Serial`, and what it promises
only when nothing fails under `Faults = {}`; the rows say which. Three assumptions are worth naming: a
chat runs one of the three graphs (`FlowsAssumption`), and the agents of a supervisor's plan are a
sequence of names (`PlansAssumption`), right or wrong. A network has finitely many devices (`DevicesAssumption`). Each module follows one scheme: an inductive invariant, a lemma per action, `InitOK`, `NextOK`, and the
temporal theorem from them.

| module | invariant | theorems |
|---|---|---|
| IncidentProofs | TypeOK and `ThreadOK` of the checkpoint and of every run: what a thread has decided by the node it is at | TypeCorrect, ApprovalRespected |
| | besides, `Chain` | RbacChained |
| | under `Serial`: `Turns`, `Work` (`SInv`), `Steps` | LifecycleKept, ResultBacked |
| | under `Serial` and `Faults = {}`: `Calm` | VerdictAudited, UnexecutedTrue |
| EmbeddedProofs | TypeOK, evidence in the checkpoint, and in each run for what it still has to save (`Fits`); `EInv`: which attempts have their logs and what a completed record stands on | EmbeddedTypeCorrect, PassedEvidence, CompletedEarned, AttemptsLogged |
| | under `Orderly`: `QInv`, which names are free where the thread stands | StatusAgreed, ManifestCompleted |
| IdentityProofs | TypeOK, `SessionOK`, `SpentOnce`, fresh pairs of calls in flight; for API keys `KeyInv`: one maker, what a late authentication can still become | IdentityTypeCorrect, KeptLifecycle, ReuseEnds, LogoutEnds, LifetimesKept, ApiKeysAreGood, ServiceKeepsSessions |
| TraceProofs | TypeOK, what each program counter says of the spans and events of its run, one trace | TraceTypeCorrect, SavedTraced, Announcing, TraceShared, SpansClosed, SpansFinishedOnce |
| | under `Serial`: `SInv`, where the run in flight and the checkpoint are, how its workflow span can end, which of its tool calls are in the audit log | DashboardTrue |
| ChatProofs | `SessionInv`: what each stream saw is still in the history, an answer sent for the followed chat is what its ended graph has; `GraphInv`: per node of each graph, what its answer will rest on | HistoryDelivered, AnswerSound, AgentsAccountedFor |
| | besides, `SpentInv`: the steps a run has taken and those it can still take; under `StepLimit >= 19` | BudgetsKept |
| PlatformProofs | each run of the loop has exactly the logs its state and attempt call for; the last decision is the engine's | ReportBacked, StrictestAlwaysWins |
| | `PackInv`: what is registered is whole and came with a handler or with a spec; under `RulesCanMatch` and `GoalsAreBound` | RegisteredIsUsable |
| DigitalTwinProofs | every copy is a network of its time, and copies of one time are equal (`Kept`); what engine and analyzer hold is the analysis of a fault on their copy (`Studied`, `Assessed`) | PropagationExact, ImpactConsistent |
| GovernanceProofs | the history grows only, its keys are unique; what each caller has read is a prefix, in the order of its queries | SyncCompletes, ReportCovers, RiskIsWarranted |

Why the strengthenings are needed:

- *ApprovedWhenActing* speaks of a run inside Execute, but the evidence is collected three nodes
  earlier and crosses a checkpoint. `ThreadOK` says for every thread, saved or carried, what its next
  node lets one conclude: before Approval no approval, at Execute an approval if one was required,
  with the digest and the expiry of its own plan. So it does not matter which checkpoint a run loads.
- *RbacChain* relates the audit log of the past to a run of the present. `Chain` says that all requests
  of a process have an identity or none (`OneMode`), that idle slots carry nothing (`OneRun`), that
  before the first checkpoint there were only starts (`Unborn`), and that as soon as a user planned,
  or may still plan, every approval anywhere is an authorised one (`ApprovalsAllowed`). The
  hard case is a run that began before the plan was authorised and approves after it.
- *KeepsIncident* and *ResultIsBacked* compare the checkpoint with what a run does before it is saved.
  `Turns` says that one request owns the thread, so that its state is the checkpoint or one node ahead
  of it, and `Work` that the calls it has made and audited amount to the result it carries; a crash
  drops the state and keeps the calls, which is why the result has to be tied to one request. `Steps`
  adds what each node leads to, so that every save is a step of the lifecycle.
- *AuditedVerdict* and *UnexecutedReportIsTrue* are promised only where nothing fails: a crash keeps the log
  and the calls and loses the state that goes with them. `Calm` says that without faults the only verdict in the log is that of the thread, and that
  a run which is not at or past Execute has called nothing.
- *PassedIsVerified*: files appear before the checkpoint that needs them, and a racing run may
  overwrite the checkpoint with an older one; each run therefore carries its own evidence.
- *CompletedIsEarned* and *AttemptsAreLogged* are about the record and the files, which racing runs write
  in any order. `EInv` says, for the checkpoint and for every run, what its place in the graph owes to the
  artifacts saved or still to be saved, and that a log is saved only over those of the attempt before.
- *StatusAgrees* and *ManifestIsComplete* need not hold when clients race or something fails, so their theorems
  assume `Orderly`: one client at a time, a finite set of requests, no fault, and a registry that resolves what
  the pack declares. That is the setting of embedded_quiet; without the catalog, say, FirmwareAgent raises and
  the record stays behind. `QInv` says for the thread which artifact names it
  may still use (`Free`: after iteration n those of n + 1 and later), that what a run has still to save is not
  there yet (`Due`), and that the files and the manifest differ by the one file that is being listed. So no save
  is refused, no request ends before it has reported, and a parked thread is what the record says.
- *KeepsLifecycle* is a step simulation: each action of the service is one of the lifecycle's or a
  stutter. It needs that a minted pair differs from every current and spent token. `ServiceSpec => Spec`
  carries it, and the other theorems on sessions, over to the service with API keys.
- *KeyIsGood* needs that only the creation makes a key active and that it is over before anybody can
  revoke the key (`OneMaker`), so what a late call reads can never again become acceptable.
- *SavedIsTraced* needs, per program counter, which span is open, under which attempt, and that no
  event of that attempt exists yet; then the first-wins rule cannot keep an older event. The invariant
  was checked with TLC before it was proved, on the instance of trace_serial and on two racing requests.
- *DashboardIsTrue* compares two stores with a checkpoint they never read. `Place` says for the run in flight, per
  program counter, where the checkpoint is and what its span may still end with; the run that spoke last keeps what
  it said, for nobody moves the checkpoint but the run whose span was opened last (`OneTrace`). `ToolOK` and `OneEach`
  make the tool events of a run that nothing hit and its ended spans a bijection, so that the counts agree for any
  number of calls, and `Deciding` and `Pausing` carry an approval from its announcement past every way to its decision.
  With racing requests the property is false, and the theorem assumes that clients take turns. TLC checked `SInv` on the
  instance of trace_serial first.
- *HistoryIsDelivered* needs of the graphs only that they do not move once they have ended and end with an
  answer (`EndsWithAnswer`). Streams end in any order, so the place of an exchange says nothing about the
  chats beside it; `SessionInv` ties each stream to the history instead: one that was sent its answer and
  is not yet remembered has no entry, and the history is never shorter than what a stream has seen of it.
- *AnswerIsSound* speaks of the end of a run. In the answering graph documents are those of the query from
  their grade on, whatever is retried; in the two diagnoses a score of 50 is out of reach without the
  monitoring, and a source has signals only if the plan asked for it.
- *AgentsAccounted* follows from the order of the plan: the pending agents rank after those that are done
  (`Queue`, `Ordered`), so that the report is the last, and who is neither pending nor done is among the
  errors (`Accounted`).
- *WithinBudgets* compares a run with a limit that none of its nodes looks at. `SpentInv` bounds, node by node,
  the steps taken and the longest way that is left: 4 for each iteration of the answering graph and 2 more, 2
  for each iteration of a diagnosis and 6 more, and twice the agents due, those that come back included, for a
  supervisor. With at most three iterations no run exceeds 19 steps, which is the hypothesis of the theorem; LangGraph grants 25.
  That the bound is inductive was checked with TLC on chat_agents first.
- *PacksAreUsable* speaks of a served process and of registrations long before. `PackInv` says that the
  registries only grow while the process lives, that whatever got past the gates is whole, and where each
  capability came from: with a handler, or in a spec whose handler is bound before the process serves. The gates do
  not look at everything: a rule for at most zero devices covers a tool and never matches (`RulesCanMatch` excludes it),
  and nothing ties goals to the handlers that are bound (`GoalsAreBound`). MCPlatform assumes both of its instance, so TLC evaluates them.
- *ReportIsBacked* speaks of the end of a run; its evidence is written at every attempt, beside another
  run on the same task that wants the same names. `RunOK` says per program counter which logs of its own a
  run has, no more and no fewer; a name is taken once, so no other run can disturb it.
- *StrictestWins* ranges over any finite or infinite set of rules; that a strictest effect exists follows
  from there being three, and that blank targets do not lower it from the contexts of the plan's tools.
- *SyncIsComplete* relates what a caller wants to record to a history that others extend. What was read is
  a prefix, and nothing of it is lost between `pending` and what is recorded, whoever recorded it first.
- *PropagationIsExact* compares two definitions of what an entry reaches. No induction over ways is needed:
  a device of a way outside a closed set would have a first one (`LeastIndex`, from the well-foundedness of
  finite sets), and the ends of all ways from the entries are themselves a closed set (`WayEndsEarlier`,
  `WayGoesOn`), so the least one is no larger (`ReachedByWay`). `AvoidsDevice` and `AvoidsLink` then turn the
  network without the fault into the ways that do not pass it. `EndsCutMore` shows that the end of a link that
  is cut off cuts off as much; the links need besides that a link which cuts anything cuts one of its ends.
- *ImpactIsConsistent* needs that every change raises the time, whatever the clock reads (`TouchIsLater`); the
  invariant says for each copy that it is no newer than the network and the same if it is as new. Then a result
  lies within the analyzer's copy (`StudyWithin`). The bound and the growth of the score are arithmetic on
  cardinalities (`ListedOnce`, `PointsBound`, `ShareBound`, `ScoreGrows`). TLC checked the invariant on
  digital_twin first.

Only model-checked: the liveness properties (`Settles`, `DecisionTakesEffect`, `DecisionEndsTask`,
`ChatEnds`) and whatever needs fairness, which the prover cannot do. Every invariant and every action
property the passing runs check is proved. No module uses a RECURSIVE operator; induction over data would be out of the prover's reach.

## 6. Findings

*incident_reject_race* ends in a violation; the doc it contradicts is quoted in `PROJECT.json`. An
approval and a rejection that both passed the snapshot check run side by side. The handlers run, the
rejection's checkpoint comes last and the incident reports that nothing was executed.

Other observations, made while modelling, without a run of their own. Incidents and traces:

- The verdict is audited before its checkpoint and the first event of its key stays. After a crash in
  between, another verdict can be given and followed; the audit log has the first.
- A process that stops in the middle of a run leaves status `running`, which no endpoint accepts.
- A retry after a disconnect may call a handler that is still running (`README.md:684` leaves idempotency
  to the handlers).
- `networkops_pending_approvals` counts interrupted workflow spans, and a disconnect makes one too, so
  `DashboardIsTrue` excludes them. The other direction does not hold: when the run of a decision fails at
  the approval, its span is the latest and failed, and the incident that still waits is not counted. A client that leaves while the stream waits at a yield leaves a
  workflow span running. Approval waits are paired first in, first out (`observability/metrics.py:311`),
  whichever approval was answered.

EmbeddedOps and identity:

- Task ids begin again after a restart while artifacts are kept; the first task of the new process fails
  on the old files and its record stays RUNNING.
- The approval node makes its request again when it is resumed (`packs/embeddedops/agents/workflow.py:173`),
  so the approval never expires. When a patch does not compile, the simulation of the attempt before stays
  in the state (`:238`) and the debugger reads it.
- A lookup judges a session it read before a refresh extended it, and writes EXPIRED over a session whose
  new token has just been given out. In Redis the session can vanish between that read and the write
  (`auth/identity.py:408`).

Chat and agent graphs:

- An answer may reach the client and not be in the history. The history stands in the order in which
  streams ended: when two requests of a session overlap, the later one may be remembered first
  (`packs/networkops/api/router.py:104`).
- The supervisor's clause that skips the repair agent cannot be reached; `errors["repair"]` is written when
  the diagnosis fails even if no repair was asked for. A run needs at most 9 hand-overs, so the default
  limit of 12 is never met. The default checker accepts whatever the default writer produces.

Platform:

- A registration that fails at a capability keeps the earlier ones and can never be repeated.
- `CapabilityResolver` matches metadata on any version of a name and returns what `get` returns for it,
  which may be another version, with other metadata or without a handler.
- A DENY rule counts as coverage of a tool. `EmbeddedServices` builds its registry without a policy engine
  (`Gated`). A plan without targets raises before `aggregate_effect`'s own default is reached.
- The default patcher leaves surplus closing braces; the simulator's log does not depend on the source and
  the default diagnosis never patches a failed simulation.

Governance and digital twin:

- When an audit entry suppresses the failures of a trace, the counts and the risk score can fall. A
  synchronisation between a failed span and its later audit event records the failure under both.
- An event of high risk is itself a high-risk operation of the next assessment. Offset paging of the
  console can skip items. Nothing in the shipped application calls the three operations.
- Propagation ignores the status of devices and links and treats slow and lossy links as failed;
  `ImpactAnalyzer` compares only the fault's id, so it may score a study of another network. A device that
  names a service twice is counted twice.

## 7. What is not modelled

- *Evaluation:* offline scoring of recorded cases; pure functions without a state, nothing depends on them.
- *Legacy tokens:* signed and verified without a store.
- *Latencies and averages of the metrics, deployment reports, console views and listing endpoints:* they
  read and keep no state.
- *Storage back ends, retrieval contents, Renode and Wokwi, assembly of the HTTP application,
  configuration:* SQL, HTTP, file formats and wiring. What the modelled parts rely on is in the modules
  that use them; a verdict of Renode or Wokwi is one free choice.
- *Front ends and demos:* user interfaces and scripted demonstrations.
- *Credentials, redaction, prompts, answers, report texts, error texts:* contents that no property here
  tells apart.
- *The effect of a plan inside the incident model:* the constant `Effect`; PolicyEngine shows what it is.

## 8. Plan

| step | modules | abstract specification | to prove |
|---|---|---|---|
| 1 done | IncidentThread, IncidentService, IncidentSafety | IncidentLifecycle, refined when clients take turns | types, approval, RBAC chain, lifecycle, backed results, audited verdicts |
| 2 done | IdentitySessions, ApiKeys | SessionLifecycle | types, refinement, reuse, logout, lifetimes, keys |
| 3 done | EmbeddedTask | next: EmbeddedLifecycle | types, evidence of a passed design, earned completion, logged attempts; record, thread, files and manifest in agreement when nothing races or fails |
| 4 done | IncidentTrace, TraceMetrics | | types, saved is traced, one trace, closed and final spans, a true dashboard when clients take turns |
| 5 done | PolicyEngine, CapabilityRegistry, PackRegistry, ValidationLoop, Platform | no effect laxer than a rule that speaks of the plan | strictest wins, backed reports, usable packs |
| 6 done | AgentWorkflow, DiagnosisWorkflow, MultiAgentWorkflow, ChatService | | delivered history, sound answers, agents accounted for, budgets |
| 7 partly | DigitalTwin, Governance done; next: Evaluation | paths that avoid a fault | done: synchronisation, reports, risk, exact propagation, consistent impact |

The order follows what a mistake would cost: who may act, what was done, what is remembered, what is
reported.
