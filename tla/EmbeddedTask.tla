---------------------------- MODULE EmbeddedTask ----------------------------
(***************************************************************************)
(* The EmbeddedOps task API over one task id: requests that create the     *)
(* task or decide its approval, the workflow runs they drive, the          *)
(* checkpoint and the task record of the process, and the artifact files,  *)
(* which outlive it.                                                       *)
(*                                                                         *)
(* The endpoints run in a pool of threads and nothing serialises two of    *)
(* them.  Task ids count from one in every process, so the id of this      *)
(* module is the one the first creation of each process receives.          *)
(***************************************************************************)
EXTENDS Integers, Sequences, FiniteSets

CONSTANTS
  Requests,      \* slots for HTTP requests: each is used once
  MaxFix,        \* max_fix_iterations
  Registries,    \* the sets of capabilities a process may resolve
  Clients,       \* the most requests in flight at once
  Faults         \* the kinds of fault that may happen

ASSUME FixAssumption == MaxFix \in Nat \ {0} /\ Clients \in Nat \ {0}
ASSUME RegistryAssumption == Registries \subseteq SUBSET {"mcu_catalog_lookup", "esp32_compile"}
ASSUME EmbeddedFaultAssumption == Faults \subseteq {"raise", "restart"}

VARIABLES
  capabilities,  \* what the registry of this process resolves
  task,          \* the task record of the process
  ckpt,          \* the latest checkpoint of the task's thread
  issued,        \* this process has given out the task id
  files,         \* the artifact files of the task
  manifest,      \* the artifacts its manifest.json lists
  run            \* what each request asked and where its run is

vars == <<capabilities, task, ckpt, issued, files, manifest, run>>

Nodes == {"none", "Initialize", "HardwareAgent", "FirmwareAgent", "Approval",
          "Simulation", "DebugAgent", "Finish", "END"}
ValidationStates == {"none", "CREATED", "GENERATED", "COMPILE_FAILED",
                     "SIMULATION_FAILED", "RETRYING", "PASSED", "FAILED"}
Verdicts == {"none", "passed", "SIMULATION_FAILURE", "INFRASTRUCTURE_ERROR"}
TaskStatuses == {"none", "RUNNING", "AWAITING_APPROVAL", "COMPLETED", "FAILED"}
Decisions == {"none", "approve", "reject"}

\* Firmware is known by its version: 0 is none, 1 the generated one, the k-th
\* patch is k + 1, the last one made when the budget is already spent.
Versions == 0 .. MaxFix + 2
Threads == [next       : Nodes,
            vstate     : ValidationStates,
            iteration  : 0 .. MaxFix,
            designed   : BOOLEAN,
            firmware   : Versions,
            decision   : Decisions,
            binary     : Versions,   \* the version the last compile accepted
            simulation : Verdicts]   \* the last simulation that ran

NoThread == [next |-> "none", vstate |-> "none", iteration |-> 0, designed |-> FALSE,
             firmware |-> 0, decision |-> "none", binary |-> 0, simulation |-> "none"]

\* An artifact is its kind and the attempt or patch its name counts.
Names == {"hardware_design", "firmware", "compile", "simulation"} \X (0 .. MaxFix + 1)

Asks   == {"none", "create", "approve", "reject"}
Phases == {"idle", "accepted", "running", "saving", "writing", "listing",
           "recording", "syncing", "reporting", "closed"}
Runs   == [pc     : Phases,
           ask    : Asks,
           resume : Decisions,   \* the resume value the run still carries
           st     : Threads,     \* the state the run carries
           todo   : Seq(Names),  \* the artifacts its node still has to save
           seen   : SUBSET Names]
NoRun  == [pc |-> "idle", ask |-> "none", resume |-> "none", st |-> NoThread,
           todo |-> <<>>, seen |-> {}]

NoTask == [status |-> "none", vstate |-> "none"]

TypeOK ==
  /\ capabilities \in Registries
  /\ task \in [status : TaskStatuses, vstate : ValidationStates]
  /\ ckpt \in Threads
  /\ issued \in BOOLEAN
  /\ files \subseteq Names
  /\ manifest \subseteq Names
  /\ run \in [Requests -> Runs]

Init ==
  /\ capabilities \in Registries
  /\ task = NoTask
  /\ ckpt = NoThread
  /\ issued = FALSE
  /\ files = {}
  /\ manifest = {}
  /\ run = [r \in Requests |-> NoRun]

(***************************************************************************)
(* Requests.                                                               *)
(***************************************************************************)
Update(r, x) == run' = [run EXCEPT ![r] = x]
Over(r) == [NoRun EXCEPT !.pc = "closed", !.ask = run[r].ask]

Live(r)   == run[r].pc \notin {"idle", "closed"}
MayAsk(r) == Cardinality({q \in Requests : Live(q)}) < Clients

CreateTask(r) ==
  /\ run[r].pc = "idle" /\ MayAsk(r) /\ ~issued
  /\ issued' = TRUE
  /\ task' = [NoTask EXCEPT !.status = "RUNNING"]
  /\ Update(r, [NoRun EXCEPT !.pc = "accepted", !.ask = "create"])
  /\ UNCHANGED <<capabilities, ckpt, files, manifest>>

\* A task that is unknown (404) or whose thread has nothing to do (409) is refused.
DecideApproval(r, decision) ==
  /\ run[r].pc = "idle" /\ MayAsk(r)
  /\ task.status # "none"
  /\ ckpt.next \notin {"none", "END"}
  /\ Update(r, [NoRun EXCEPT !.pc = "accepted", !.ask = decision])
  /\ UNCHANGED <<capabilities, task, ckpt, issued, files, manifest>>

\* invoke: a new thread starts with its input; a resume loads the checkpoint, and
\* only its first node can be the one that waits for the value.
Begin(r) ==
  /\ run[r].pc = "accepted"
  /\ \/ /\ run[r].ask = "create"
        /\ ckpt' = [NoThread EXCEPT !.next = "Initialize"]
        /\ Update(r, [run[r] EXCEPT !.pc = "running", !.st = ckpt'])
     \/ /\ run[r].ask # "create"
        /\ Update(r, [run[r] EXCEPT
             !.pc = IF ckpt.next = "END" THEN "syncing" ELSE "running",
             !.st = ckpt,
             !.resume = IF ckpt.next = "Approval" THEN run[r].ask ELSE "none"])
        /\ UNCHANGED ckpt
  /\ UNCHANGED <<capabilities, task, issued, files, manifest>>

(***************************************************************************)
(* Nodes.  A node computes its update, saves its artifacts one by one and  *)
(* returns; then its checkpoint is put, over whatever another run has put. *)
(***************************************************************************)
At(r, node) == run[r].pc = "running" /\ run[r].st.next = node

Put(r, st) ==
  /\ ckpt' = st
  /\ Update(r, [run[r] EXCEPT !.st = st,
                              !.pc = IF st.next = "END" THEN "syncing" ELSE "running"])
  /\ UNCHANGED <<capabilities, task, issued, files, manifest>>

\* The artifacts of the update come first; an update without any is put at once.
Return(r, st, names) ==
  \/ names = <<>> /\ Put(r, st)
  \/ /\ names # <<>>
     /\ Update(r, [run[r] EXCEPT !.pc = "saving", !.st = st, !.todo = names])
     /\ UNCHANGED <<capabilities, task, ckpt, issued, files, manifest>>

\* An exception answers 500; neither the checkpoint nor the task record moves.
Raise(r) ==
  /\ Update(r, Over(r))
  /\ UNCHANGED <<capabilities, task, ckpt, issued, files, manifest>>

Initialize(r) ==
  /\ At(r, "Initialize")
  /\ Return(r, [NoThread EXCEPT !.next = "HardwareAgent", !.vstate = "CREATED"], <<>>)

\* A missing capability fails the task, but the edge to FirmwareAgent is fixed.
HardwareAgent(r) ==
  LET st == [run[r].st EXCEPT !.next = "FirmwareAgent"] IN
  /\ At(r, "HardwareAgent")
  /\ \/ /\ "mcu_catalog_lookup" \in capabilities
        /\ Return(r, [st EXCEPT !.designed = TRUE, !.vstate = "CREATED"],
                  <<<<"hardware_design", 0>>>>)
     \/ /\ "mcu_catalog_lookup" \notin capabilities
        /\ Return(r, [st EXCEPT !.vstate = "FAILED"], <<>>)

FirmwareAgent(r) ==
  LET st == run[r].st IN
  /\ At(r, "FirmwareAgent")
  /\ \/ /\ st.designed
        /\ Return(r, [st EXCEPT !.firmware = 1, !.vstate = "GENERATED", !.next = "Approval"],
                  <<<<"firmware", 0>>>>)
     \/ ~st.designed /\ Raise(r)

\* The approval request is made anew when the node runs again to take the answer,
\* so its age never reaches the time to live.
Approval(r) ==
  LET decision == run[r].resume IN
  /\ At(r, "Approval") /\ decision # "none"
  /\ Return(r, [run[r].st EXCEPT !.decision = decision, !.next = "Simulation"], <<>>)

Interrupt(r) ==
  /\ At(r, "Approval") /\ run[r].resume = "none"
  /\ Update(r, [run[r] EXCEPT !.pc = "syncing"])
  /\ UNCHANGED <<capabilities, task, ckpt, issued, files, manifest>>

\* route_after_simulation.
Routed(st) ==
  [st EXCEPT !.next = IF \/ st.vstate \in {"PASSED", "FAILED"}
                         \/ st.simulation = "INFRASTRUCTURE_ERROR"
                      THEN "Finish" ELSE "DebugAgent"]

\* run_verification_pass: what the backend may answer for the firmware of a state.
\* A compile error leaves the simulation of an earlier attempt in the state.
CompileFailed(st) == [st EXCEPT !.vstate = "COMPILE_FAILED", !.binary = 0]
Simulated(st, verdict) ==
  [st EXCEPT !.vstate     = IF verdict = "passed" THEN "PASSED" ELSE "SIMULATION_FAILED",
             !.binary     = st.firmware,
             !.simulation = verdict]

\* Defect: the decision is not looked at.
Simulation_NoDecision(r) ==
  LET st      == run[r].st
      attempt == st.iteration + 1
  IN /\ At(r, "Simulation")
     /\ \/ Return(r, Routed(CompileFailed(st)), <<<<"compile", attempt>>>>)
        \/ \E verdict \in Verdicts \ {"none"} :
             Return(r, Routed(Simulated(st, verdict)),
                    <<<<"compile", attempt>>, <<"simulation", attempt>>>>)

Simulation(r) ==
  LET st      == run[r].st
      attempt == st.iteration + 1
  IN /\ At(r, "Simulation")
     /\ \/ /\ st.decision # "approve" \/ "esp32_compile" \notin capabilities
           /\ Return(r, Routed([st EXCEPT !.vstate = "FAILED"]), <<>>)
        \/ /\ st.decision = "approve" /\ "esp32_compile" \in capabilities
           /\ \/ Return(r, Routed(CompileFailed(st)), <<<<"compile", attempt>>>>)
              \/ \E verdict \in Verdicts \ {"none"} :
                   Return(r, Routed(Simulated(st, verdict)),
                          <<<<"compile", attempt>>, <<"simulation", attempt>>>>)

\* Defect: one patch too many is tried.
MayRetry_OneMore(st) == st.iteration <= MaxFix

\* Whether a patch is within the budget.
MayRetry(st) == st.iteration + 1 <= MaxFix

\* Defect: the patched source is not saved.
DebugAgent_NoSave(r) ==
  LET st      == run[r].st
      patched == [st EXCEPT !.firmware = st.iteration + 2]
  IN /\ At(r, "DebugAgent")
     /\ \/ /\ MayRetry(st)
           /\ Return(r, [patched EXCEPT !.iteration = st.iteration + 1, !.vstate = "RETRYING",
                                        !.next = "Simulation"], <<>>)
        \/ Return(r, [st EXCEPT !.vstate = "FAILED", !.next = "Finish"], <<>>)

\* The diagnosis may find a patch, which replaces the firmware even when the budget
\* does not allow another attempt.
DebugAgent(r) ==
  LET st      == run[r].st
      patched == [st EXCEPT !.firmware = st.iteration + 2]
  IN /\ At(r, "DebugAgent")
     /\ \/ /\ MayRetry(st)
           /\ Return(r, [patched EXCEPT !.iteration = st.iteration + 1, !.vstate = "RETRYING",
                                        !.next = "Simulation"],
                     <<<<"firmware", st.iteration + 1>>>>)
        \/ /\ ~MayRetry(st)
           /\ Return(r, [patched EXCEPT !.vstate = "FAILED", !.next = "Finish"], <<>>)
        \/ Return(r, [st EXCEPT !.vstate = "FAILED", !.next = "Finish"], <<>>)

\* Defect: a failed simulation stays the state of a finished thread.
Finish_KeepState(r) == At(r, "Finish") /\ Return(r, [run[r].st EXCEPT !.next = "END"], <<>>)

Finish(r) ==
  LET st == run[r].st IN
  /\ At(r, "Finish")
  /\ Return(r, [st EXCEPT !.next   = "END",
                          !.vstate = IF st.vstate = "PASSED" THEN "PASSED" ELSE "FAILED"], <<>>)

(***************************************************************************)
(* FileSystemArtifactStore.save: the name must be free, the file is        *)
(* written, and the manifest is read, extended and written back.           *)
(***************************************************************************)
CheckName(r) ==
  /\ run[r].pc = "saving" /\ run[r].todo # <<>>
  /\ IF Head(run[r].todo) \in files
     THEN Raise(r)
     ELSE /\ Update(r, [run[r] EXCEPT !.pc = "writing"])
          /\ UNCHANGED <<capabilities, task, ckpt, issued, files, manifest>>

WriteFile(r) ==
  /\ run[r].pc = "writing"
  /\ files' = files \union {Head(run[r].todo)}
  /\ Update(r, [run[r] EXCEPT !.pc = "listing"])
  /\ UNCHANGED <<capabilities, task, ckpt, issued, manifest>>

ReadManifest(r) ==
  /\ run[r].pc = "listing"
  /\ Update(r, [run[r] EXCEPT !.pc = "recording", !.seen = manifest])
  /\ UNCHANGED <<capabilities, task, ckpt, issued, files, manifest>>

\* Defect: the manifest is written with the new artifact alone.
WriteManifest_NoMerge(r) ==
  /\ run[r].pc = "recording"
  /\ manifest' = {Head(run[r].todo)}
  /\ Update(r, [run[r] EXCEPT !.pc = "saving", !.todo = Tail(run[r].todo), !.seen = {}])
  /\ UNCHANGED <<capabilities, task, ckpt, issued, files>>

WriteManifest(r) ==
  /\ run[r].pc = "recording"
  /\ manifest' = run[r].seen \union {Head(run[r].todo)}
  /\ Update(r, [run[r] EXCEPT !.pc = "saving", !.todo = Tail(run[r].todo), !.seen = {}])
  /\ UNCHANGED <<capabilities, task, ckpt, issued, files>>

\* All artifacts of the node are saved.
Commit(r) == run[r].pc = "saving" /\ run[r].todo = <<>> /\ Put(r, run[r].st)

(***************************************************************************)
(* _sync_task_status reads the thread, then updates the task record.       *)
(***************************************************************************)
ReadThread(r) ==
  /\ run[r].pc = "syncing"
  /\ Update(r, [run[r] EXCEPT !.pc = "reporting", !.st = ckpt])
  /\ UNCHANGED <<capabilities, task, ckpt, issued, files, manifest>>

\* Defect: any finished thread completes its task.
SyncedTask_AlwaysCompleted(st) ==
  IF st.next # "END" THEN [task EXCEPT !.status = "AWAITING_APPROVAL"]
  ELSE [status |-> "COMPLETED", vstate |-> st.vstate]

SyncedTask(st) ==
  IF st.next # "END" THEN [task EXCEPT !.status = "AWAITING_APPROVAL"]
  ELSE [status |-> IF st.vstate = "PASSED" THEN "COMPLETED"
                   ELSE IF st.vstate = "FAILED" THEN "FAILED" ELSE "RUNNING",
        vstate |-> st.vstate]

UpdateStatus(r) ==
  /\ run[r].pc = "reporting"
  /\ task' = SyncedTask(run[r].st)
  /\ Update(r, Over(r))
  /\ UNCHANGED <<capabilities, ckpt, issued, files, manifest>>

(***************************************************************************)
(* Faults.                                                                 *)
(***************************************************************************)

\* A callback, the backend or the disk fails inside a node.
Fail(r) ==
  /\ "raise" \in Faults
  /\ run[r].pc \in {"running", "saving", "writing", "listing", "recording"}
  /\ Raise(r)

\* The process dies and another starts: only the artifacts are left.
Restart ==
  /\ "restart" \in Faults
  /\ issued
  /\ capabilities' \in Registries
  /\ task' = NoTask /\ ckpt' = NoThread /\ issued' = FALSE
  /\ run' = [r \in Requests |-> IF Live(r) THEN [NoRun EXCEPT !.pc = "closed"]
                                           ELSE [run[r] EXCEPT !.ask = "none"]]
  /\ UNCHANGED <<files, manifest>>

Ask(r) == \/ CreateTask(r)
          \/ \E decision \in {"approve", "reject"} : DecideApproval(r, decision)

Step(r) == \/ Begin(r) \/ Initialize(r) \/ HardwareAgent(r) \/ FirmwareAgent(r)
           \/ Approval(r) \/ Interrupt(r) \/ Simulation(r) \/ DebugAgent(r) \/ Finish(r)
           \/ CheckName(r) \/ WriteFile(r) \/ ReadManifest(r) \/ WriteManifest(r)
           \/ Commit(r) \/ ReadThread(r) \/ UpdateStatus(r)

Next == \/ \E r \in Requests : Ask(r) \/ Step(r) \/ Fail(r)
        \/ Restart

Spec == Init /\ [][Next]_vars

\* A request that runs is driven by its thread; nobody has to ask.
FairSpec == Spec /\ \A r \in Requests : WF_vars(Step(r))

-----------------------------------------------------------------------------
(***************************************************************************)
(* What the task API must do.                                              *)
(***************************************************************************)

\* A design that passed was approved, the binary that was simulated is that of the
\* firmware it keeps, and the logs of that attempt were saved: in the checkpoint
\* and in every run, whatever ran beside it (workflow.py:193-245).
PassedIsVerified ==
  \A st \in {ckpt} \union {run[r].st : r \in {q \in Requests : run[q].todo = <<>>}} :
    st.vstate = "PASSED" =>
      /\ st.decision = "approve"
      /\ st.simulation = "passed" /\ st.binary = st.firmware
      /\ {<<"compile", st.iteration + 1>>, <<"simulation", st.iteration + 1>>} \subseteq files

\* A task is reported as completed only after a person approved it and an attempt
\* within the budget compiled and simulated (api.py:155-165).
CompletedIsEarned ==
  task.status = "COMPLETED" =>
    /\ task.vstate = "PASSED"
    /\ \E r \in Requests : run[r].ask = "approve"
    /\ \E n \in 1 .. MaxFix + 1 : {<<"compile", n>>, <<"simulation", n>>} \subseteq files

\* The loop tries the generated firmware and at most MaxFix patches, and the
\* artifacts name every attempt in turn: no log is missing below the last one.
AttemptsAreLogged ==
  \A n \in 1 .. MaxFix + 1 :
    <<"compile", n>> \in files =>
      /\ n > 1 => {<<"compile", n - 1>>, <<"firmware", n - 1>>} \subseteq files
      /\ <<"hardware_design", 0>> \in files /\ <<"firmware", 0>> \in files

\* With no request in flight the task record tells where its thread is: waiting for
\* a person, or over with the thread's verdict (api.py:148-177).
StatusAgrees ==
  (\A r \in Requests : ~Live(r)) /\ task.status # "none" =>
    \/ task.status = "AWAITING_APPROVAL" /\ ckpt.next = "Approval"
    \/ task.status = "COMPLETED" /\ ckpt.next = "END" /\ ckpt.vstate = "PASSED"
    \/ task.status = "FAILED" /\ ckpt.next = "END" /\ ckpt.vstate = "FAILED"

\* With no request in flight the manifest lists exactly the files there are.
ManifestIsComplete == (\A r \in Requests : ~Live(r)) => manifest = files

\* A decision that the API took ends the task.
DecisionEndsTask ==
  \A r \in Requests :
    (run[r].pc = "accepted" /\ run[r].ask \in {"approve", "reject"})
      ~> task.status \in {"COMPLETED", "FAILED"}

=============================================================================
