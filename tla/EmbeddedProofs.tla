--------------------------- MODULE EmbeddedProofs ---------------------------
(***************************************************************************)
(* Type correctness of the EmbeddedOps task API, the evidence behind a     *)
(* design that passed, and what stands behind a completed task and the     *)
(* logs of its attempts, for every set of requests, every budget and every *)
(* registry, whatever the races, failures and restarts.  And, when clients *)
(* take turns and nothing fails, that the record, the thread, the files    *)
(* and the manifest agree.                                                 *)
(*                                                                         *)
(* The first argument: a state passes only in the Simulation node, which   *)
(* looks at its decision and names its logs; from there it can only        *)
(* finish, and its logs are either saved or still to be saved by the run   *)
(* that holds it.                                                          *)
(***************************************************************************)
EXTENDS EmbeddedTask, SequenceTheorems, FiniteSetTheorems, TLAPS

Entries(s) == {s[i] : i \in DOMAIN s}
Logs(st)   == {<<"compile", st.iteration + 1>>, <<"simulation", st.iteration + 1>>}

\* What a passed state shows, the logs apart.
PassedOK(st) == st.vstate = "PASSED" =>
                  /\ st.decision = "approve" /\ st.simulation = "passed"
                  /\ st.binary = st.firmware
                  /\ st.next \in {"Finish", "END"}

Logged(st, saved) == st.vstate = "PASSED" => Logs(st) \subseteq saved

\* A run holds the evidence of its state, saved or still to be saved.
Fits(x, saved) ==
  /\ PassedOK(x.st)
  /\ Logged(x.st, saved \union Entries(x.todo))
  /\ x.pc \in {"writing", "listing", "recording"} => x.todo # <<>>
  /\ x.pc \in {"listing", "recording"} => Head(x.todo) \in saved
  /\ x.pc \notin {"saving", "writing", "listing", "recording"} => x.todo = <<>>

\* The strengthening that is inductive.
IInv == /\ TypeOK
        /\ PassedOK(ckpt) /\ Logged(ckpt, files)
        /\ \A r \in Requests : Fits(run[r], files)

Tasks == [status : TaskStatuses, vstate : ValidationStates]

-----------------------------------------------------------------------------
LEMMA NoRunOK == /\ NoRun \in Runs /\ NoThread \in Threads /\ NoTask \in Tasks
                 /\ NoThread.vstate = "none" /\ NoRun.st.vstate = "none"
                 /\ NoRun.todo = <<>> /\ NoRun.pc = "idle" /\ NoTask.vstate = "none"
BY FixAssumption
   DEF NoRun, Runs, NoThread, Threads, Phases, Asks, Decisions, Nodes, ValidationStates,
       Versions, Verdicts, NoTask, Tasks, TaskStatuses

\* A sequence has its head and the entries of its tail.
LEMMA HeadAndTail ==
  ASSUME NEW S, NEW s \in Seq(S), s # <<>>
  PROVE  /\ Head(s) \in S /\ Tail(s) \in Seq(S)
         /\ Entries(s) \subseteq {Head(s)} \union Entries(Tail(s))
<1>1. Len(s) \in Nat \ {0} /\ Head(s) = s[1] /\ Head(s) \in S
  BY EmptySeq
<1>2. Tail(s) \in Seq(S) /\ Len(Tail(s)) = Len(s) - 1
      /\ \A i \in 1 .. Len(s) - 1 : Tail(s)[i] = s[i + 1]
  BY <1>1
<1>3. ASSUME NEW i \in DOMAIN s PROVE s[i] \in {Head(s)} \union Entries(Tail(s))
  <2>1. CASE i = 1
    BY <1>1, <2>1
  <2>2. CASE i # 1
    <3>1. i - 1 \in DOMAIN Tail(s) /\ Tail(s)[i - 1] = s[i]
      BY <1>1, <1>2, <2>2
    <3> QED BY <3>1 DEF Entries
  <2> QED BY <2>1, <2>2
<1> QED BY <1>1, <1>2, <1>3 DEF Entries

\* More files are never less evidence.
LEMMA FitsMore ==
  ASSUME NEW x \in Runs, NEW saved, NEW more, Fits(x, saved), saved \subseteq more
  PROVE  Fits(x, more)
BY DEF Fits, Logged

\* A request updates its own run and, at most, what all requests share.
LEMMA UpdateOK ==
  ASSUME IInv, NEW r \in Requests, NEW x \in Runs, Update(r, x), Fits(x, files'),
         files \subseteq files', files' \subseteq Names, manifest' \subseteq Names,
         ckpt' \in Threads, PassedOK(ckpt'), Logged(ckpt', files'),
         capabilities' = capabilities, task' \in Tasks, issued' \in BOOLEAN
  PROVE  IInv'
<1>1. TypeOK'
  BY DEF IInv, TypeOK, Update, Tasks
<1>2. (PassedOK(ckpt) /\ Logged(ckpt, files))'
  BY DEF PassedOK, Logged, Logs
<1>3. ASSUME NEW q \in Requests PROVE Fits(run'[q], files')
  <2>1. CASE q = r
    BY <2>1 DEF IInv, TypeOK, Update
  <2>2. CASE q # r
    <3>1. run'[q] = run[q] /\ run[q] \in Runs /\ Fits(run[q], files)
      BY <2>2 DEF IInv, TypeOK, Update
    <3> QED BY <3>1, FitsMore
  <2> QED BY <2>1, <2>2
<1>4. (\A q \in Requests : Fits(run[q], files))'
  BY <1>3 DEF Fits, PassedOK, Logged, Logs, Entries
<1> QED BY <1>1, <1>2, <1>4 DEF IInv

\* A run that is over keeps only what it asked.
LEMMA OverOK ==
  ASSUME IInv, NEW r \in Requests, NEW saved
  PROVE  Over(r) \in Runs /\ Fits(Over(r), saved)
<1>1. run[r].ask \in Asks
  BY DEF IInv, TypeOK, Runs
<1>2. Over(r) \in Runs
  BY <1>1, NoRunOK DEF Over, Runs, Phases
<1>3. Over(r).st.vstate = "none" /\ Over(r).todo = <<>> /\ Over(r).pc = "closed"
  BY NoRunOK DEF Over, Runs
<1> QED BY <1>2, <1>3 DEF Fits, PassedOK, Logged

LEMMA RaiseStep == ASSUME IInv, NEW r \in Requests, Raise(r) PROVE IInv'
BY OverOK, UpdateOK DEF Raise, IInv, TypeOK, Tasks

\* A checkpoint is put when all its artifacts are saved.
LEMMA PutOK ==
  ASSUME IInv, NEW r \in Requests, NEW st \in Threads, Put(r, st), run[r].todo = <<>>,
         PassedOK(st), Logged(st, files)
  PROVE  IInv'
<1> DEFINE x == [run[r] EXCEPT !.st = st, !.pc = IF st.next = "END" THEN "syncing" ELSE "running"]
<1>1. run[r] \in Runs
  BY DEF IInv, TypeOK
<1>2. x \in Runs /\ x.st = st /\ x.todo = <<>> /\ x.pc \in {"syncing", "running"}
  BY <1>1 DEF Runs, Phases
<1>3. Fits(x, files)
  BY <1>2 DEF Fits, Logged
<1>4. Update(r, x) /\ ckpt' = st /\ UNCHANGED <<capabilities, task, issued, files, manifest>>
  BY DEF Put
<1> HIDE DEF x
<1> QED BY <1>2, <1>3, <1>4, UpdateOK DEF IInv, TypeOK, Tasks

\* A node returns what it found, with the names of what it must save first.
LEMMA ReturnOK ==
  ASSUME IInv, NEW r \in Requests, NEW st \in Threads, NEW names \in Seq(Names),
         run[r].pc = "running", Return(r, st, names),
         PassedOK(st), Logged(st, files \union Entries(names))
  PROVE  IInv'
<1>1. run[r] \in Runs /\ run[r].todo = <<>>
  BY DEF IInv, TypeOK, Fits
<1>2. CASE names = <<>> /\ Put(r, st)
  <2>1. Entries(<<>>) = {}
    BY DEF Entries
  <2> QED BY <1>1, <1>2, <2>1, PutOK DEF Logged
<1>3. CASE /\ Update(r, [run[r] EXCEPT !.pc = "saving", !.st = st, !.todo = names])
           /\ UNCHANGED <<capabilities, task, ckpt, issued, files, manifest>>
  <2> DEFINE x == [run[r] EXCEPT !.pc = "saving", !.st = st, !.todo = names]
  <2>1. x \in Runs /\ x.st = st /\ x.todo = names /\ x.pc = "saving"
    BY <1>1 DEF Runs, Phases
  <2>2. Fits(x, files)
    BY <2>1 DEF Fits
  <2>3. Update(r, x) /\ UNCHANGED <<capabilities, task, ckpt, issued, files, manifest>>
    BY <1>3
  <2> HIDE DEF x
  <2> QED BY <2>1, <2>2, <2>3, UpdateOK DEF IInv, TypeOK, Tasks
<1> QED BY <1>2, <1>3 DEF Return

-----------------------------------------------------------------------------
\* Requests: what they start with is no state that passed.
LEMMA CreateStep == ASSUME IInv, NEW r \in Requests, CreateTask(r) PROVE IInv'
<1> DEFINE x == [NoRun EXCEPT !.pc = "accepted", !.ask = "create"]
<1>1. x \in Runs /\ x.pc = "accepted" /\ x.todo = <<>> /\ x.st.vstate = "none"
  BY NoRunOK DEF Runs, Phases, Asks
<1>2. Fits(x, files)
  BY <1>1 DEF Fits, PassedOK, Logged
<1>3. task' \in Tasks
  BY NoRunOK DEF CreateTask, Tasks, TaskStatuses
<1>4. Update(r, x) /\ issued' = TRUE /\ UNCHANGED <<capabilities, ckpt, files, manifest>>
  BY DEF CreateTask
<1> HIDE DEF x
<1> QED BY <1>1, <1>2, <1>3, <1>4, UpdateOK DEF IInv, TypeOK

LEMMA DecideStep ==
  ASSUME IInv, NEW r \in Requests, NEW decision \in {"approve", "reject"},
         DecideApproval(r, decision)
  PROVE  IInv'
<1> DEFINE x == [NoRun EXCEPT !.pc = "accepted", !.ask = decision]
<1>1. x \in Runs /\ x.pc = "accepted" /\ x.todo = <<>> /\ x.st.vstate = "none"
  BY NoRunOK DEF Runs, Phases, Asks
<1>2. Fits(x, files)
  BY <1>1 DEF Fits, PassedOK, Logged
<1>3. Update(r, x) /\ UNCHANGED <<capabilities, task, ckpt, issued, files, manifest>>
  BY DEF DecideApproval
<1> HIDE DEF x
<1> QED BY <1>1, <1>2, <1>3, UpdateOK DEF IInv, TypeOK, Tasks

LEMMA BeginStep == ASSUME IInv, NEW r \in Requests, Begin(r) PROVE IInv'
<1> USE DEF Begin
<1>1. run[r] \in Runs /\ run[r].todo = <<>>
  BY DEF IInv, TypeOK, Fits
<1>2. CASE run[r].ask = "create"
  <2> DEFINE st == [NoThread EXCEPT !.next = "Initialize"]
             x  == [run[r] EXCEPT !.pc = "running", !.st = st]
  <2>1. st \in Threads /\ st.vstate = "none"
    BY NoRunOK DEF Threads, Nodes
  <2>2. ckpt' = st /\ Update(r, x) /\ UNCHANGED <<capabilities, task, issued, files, manifest>>
    BY <1>2
  <2> HIDE DEF st
  <2>3. x \in Runs /\ x.pc = "running" /\ x.todo = <<>> /\ x.st = st
    BY <1>1, <2>1 DEF Runs, Phases
  <2>4. Fits(x, files) /\ PassedOK(st) /\ Logged(st, files)
    BY <2>1, <2>3 DEF Fits, PassedOK, Logged
  <2> HIDE DEF x
  <2> QED BY <2>1, <2>2, <2>3, <2>4, UpdateOK DEF IInv, TypeOK, Tasks
<1>3. CASE run[r].ask # "create"
  <2> DEFINE x == [run[r] EXCEPT
             !.pc = IF ckpt.next = "END" THEN "syncing" ELSE "running",
             !.st = ckpt,
             !.resume = IF ckpt.next = "Approval" THEN run[r].ask ELSE "none"]
  <2>1. run[r].ask \in {"approve", "reject", "none"}
    BY <1>1, <1>3 DEF Runs, Asks
  <2>2. /\ x \in Runs /\ x.pc \in {"syncing", "running"} /\ x.todo = <<>> /\ x.st = ckpt
    BY <1>1, <2>1 DEF Runs, Phases, Decisions, IInv, TypeOK
  <2>3. Fits(x, files)
    BY <2>2 DEF Fits, IInv, Logged
  <2>4. Update(r, x) /\ UNCHANGED <<capabilities, task, ckpt, issued, files, manifest>>
    BY <1>3
  <2> HIDE DEF x
  <2> QED BY <2>2, <2>3, <2>4, UpdateOK DEF IInv, TypeOK, Tasks
<1> QED BY <1>2, <1>3

-----------------------------------------------------------------------------
\* Nodes.  Only Simulation passes a state, and it takes none that has passed before.
LEMMA AtOK ==
  ASSUME IInv, NEW r \in Requests, NEW node, At(r, node)
  PROVE  /\ run[r] \in Runs /\ run[r].st \in Threads /\ run[r].pc = "running"
         /\ PassedOK(run[r].st) /\ Logged(run[r].st, files) /\ run[r].st.next = node
<1>1. run[r] \in Runs /\ Fits(run[r], files) /\ run[r].pc = "running"
  BY DEF IInv, TypeOK, At
<1>2. Entries(<<>>) = {}
  BY DEF Entries
<1> QED BY <1>1, <1>2 DEF Fits, Runs, At, Logged

\* The versions nodes make, and the names of a node that saves nothing.
LEMMA MadeOK == 0 \in Versions /\ 1 \in Versions /\ <<>> \in Seq(Names) /\ Entries(<<>>) = {}
<1>1. 0 \in Versions /\ 1 \in Versions
  BY FixAssumption DEF Versions
<1>2. Entries(<<>>) = {}
  BY DEF Entries
<1> QED BY <1>1, <1>2

\* A node whose state has not passed owes no evidence.
LEMMA UnpassedOK ==
  ASSUME IInv, NEW r \in Requests, NEW st \in Threads, NEW names \in Seq(Names),
         run[r].pc = "running", Return(r, st, names), st.vstate # "PASSED"
  PROVE  IInv'
BY ReturnOK DEF PassedOK, Logged

LEMMA InitializeStep == ASSUME IInv, NEW r \in Requests, Initialize(r) PROVE IInv'
<1> DEFINE st == [NoThread EXCEPT !.next = "HardwareAgent", !.vstate = "CREATED"]
<1>1. st \in Threads /\ st.vstate = "CREATED"
  BY NoRunOK DEF Threads, Nodes, ValidationStates
<1>2. Return(r, st, <<>>) /\ run[r].pc = "running"
  BY DEF Initialize, At
<1> HIDE DEF st
<1> QED BY <1>1, <1>2, MadeOK, UnpassedOK

LEMMA HardwareStep == ASSUME IInv, NEW r \in Requests, HardwareAgent(r) PROVE IInv'
<1>1. At(r, "HardwareAgent")
  BY DEF HardwareAgent
<1>2. run[r].st \in Threads /\ run[r].pc = "running"
  BY <1>1, AtOK
<1> DEFINE st == [run[r].st EXCEPT !.next = "FirmwareAgent", !.designed = TRUE,
                                   !.vstate = "CREATED"]
           sf == [run[r].st EXCEPT !.next = "FirmwareAgent", !.vstate = "FAILED"]
<1>3. st \in Threads /\ sf \in Threads /\ st.vstate = "CREATED" /\ sf.vstate = "FAILED"
  BY <1>2 DEF Threads, Nodes, ValidationStates
<1>4. \/ Return(r, st, <<<<"hardware_design", 0>>>>) \/ Return(r, sf, <<>>)
  BY <1>2 DEF HardwareAgent, Threads
<1>5. <<<<"hardware_design", 0>>>> \in Seq(Names) /\ <<>> \in Seq(Names)
  BY FixAssumption DEF Names
<1> HIDE DEF st, sf
<1> QED BY <1>2, <1>3, <1>4, <1>5, UnpassedOK

LEMMA FirmwareStep == ASSUME IInv, NEW r \in Requests, FirmwareAgent(r) PROVE IInv'
<1>1. At(r, "FirmwareAgent")
  BY DEF FirmwareAgent
<1>2. run[r].st \in Threads /\ run[r].pc = "running"
  BY <1>1, AtOK
<1> DEFINE st == [run[r].st EXCEPT !.firmware = 1, !.vstate = "GENERATED", !.next = "Approval"]
<1>3. st \in Threads /\ st.vstate = "GENERATED"
  BY <1>2, MadeOK DEF Threads, Nodes, ValidationStates
<1>4. Return(r, st, <<<<"firmware", 0>>>>) \/ Raise(r)
  BY DEF FirmwareAgent
<1>5. <<<<"firmware", 0>>>> \in Seq(Names)
  BY FixAssumption DEF Names
<1> HIDE DEF st
<1> QED BY <1>2, <1>3, <1>4, <1>5, UnpassedOK, RaiseStep

LEMMA ApprovalStep == ASSUME IInv, NEW r \in Requests, Approval(r) PROVE IInv'
<1>1. At(r, "Approval")
  BY DEF Approval
<1>2. run[r] \in Runs /\ run[r].st \in Threads /\ run[r].pc = "running"
      /\ run[r].st.vstate # "PASSED"
  BY <1>1, AtOK DEF PassedOK
<1> DEFINE st == [run[r].st EXCEPT !.decision = run[r].resume, !.next = "Simulation"]
<1>3. st \in Threads /\ st.vstate # "PASSED"
  BY <1>2 DEF Runs, Threads, Nodes
<1>4. Return(r, st, <<>>)
  BY DEF Approval
<1> HIDE DEF st
<1> QED BY <1>2, <1>3, <1>4, MadeOK, UnpassedOK

LEMMA InterruptStep == ASSUME IInv, NEW r \in Requests, Interrupt(r) PROVE IInv'
<1> DEFINE x == [run[r] EXCEPT !.pc = "syncing"]
<1>1. run[r] \in Runs /\ Fits(run[r], files) /\ run[r].pc = "running"
  BY DEF IInv, TypeOK, Interrupt, At
<1>2. x \in Runs /\ x.pc = "syncing" /\ x.todo = run[r].todo /\ x.st = run[r].st
  BY <1>1 DEF Runs, Phases
<1>3. Fits(x, files)
  BY <1>1, <1>2 DEF Fits
<1>4. Update(r, x) /\ UNCHANGED <<capabilities, task, ckpt, issued, files, manifest>>
  BY DEF Interrupt
<1> HIDE DEF x
<1> QED BY <1>2, <1>3, <1>4, UpdateOK DEF IInv, TypeOK, Tasks

\* A compile error, and the routing of a state.
LEMMA CompileFailedOK ==
  ASSUME NEW st \in Threads
  PROVE  Routed(CompileFailed(st)) \in Threads
         /\ Routed(CompileFailed(st)).vstate = "COMPILE_FAILED"
BY MadeOK DEF Routed, CompileFailed, Threads, Nodes, ValidationStates

LEMMA SimulatedOK ==
  ASSUME NEW st \in Threads, NEW verdict \in Verdicts \ {"none"}, st.decision = "approve"
  PROVE  /\ Routed(Simulated(st, verdict)) \in Threads
         /\ PassedOK(Routed(Simulated(st, verdict)))
         /\ Routed(Simulated(st, verdict)).iteration = st.iteration
<1> DEFINE done == Simulated(st, verdict)
<1>1. /\ done \in Threads /\ done.decision = "approve" /\ done.simulation = verdict
      /\ done.binary = done.firmware /\ done.iteration = st.iteration
      /\ done.vstate = IF verdict = "passed" THEN "PASSED" ELSE "SIMULATION_FAILED"
  BY DEF Simulated, Threads, ValidationStates, Verdicts
<1> HIDE DEF done
<1>2. /\ Routed(done) \in Threads /\ PassedOK(Routed(done))
      /\ Routed(done).iteration = st.iteration
  BY <1>1 DEF Routed, Threads, Nodes, PassedOK
<1> QED BY <1>2 DEF done

LEMMA SimulationStep == ASSUME IInv, NEW r \in Requests, Simulation(r) PROVE IInv'
<1> DEFINE st == run[r].st
           attempt == st.iteration + 1
           failed == Routed([st EXCEPT !.vstate = "FAILED"])
<1>1. At(r, "Simulation")
  BY DEF Simulation
<1>2. st \in Threads /\ run[r].pc = "running"
  BY <1>1, AtOK
<1>3. /\ <<"compile", attempt>> \in Names /\ <<"simulation", attempt>> \in Names
  BY <1>2, FixAssumption DEF Threads, Names
<1> HIDE DEF attempt
<1>4. CASE Return(r, failed, <<>>)
  <2>1. failed \in Threads /\ failed.vstate = "FAILED"
    BY <1>2 DEF Routed, Threads, Nodes, ValidationStates
  <2> HIDE DEF failed
  <2> QED BY <1>2, <1>4, <2>1, MadeOK, UnpassedOK
<1>5. CASE Return(r, Routed(CompileFailed(st)), <<<<"compile", attempt>>>>)
  BY <1>2, <1>3, <1>5, CompileFailedOK, UnpassedOK
<1>6. ASSUME NEW verdict \in Verdicts \ {"none"}, st.decision = "approve",
             Return(r, Routed(Simulated(st, verdict)),
                    <<<<"compile", attempt>>, <<"simulation", attempt>>>>)
      PROVE  IInv'
  <2> DEFINE done  == Routed(Simulated(st, verdict))
             names == <<<<"compile", attempt>>, <<"simulation", attempt>>>>
  <2>1. done \in Threads /\ PassedOK(done) /\ done.iteration = st.iteration
    BY <1>2, <1>6, SimulatedOK
  <2>2. names \in Seq(Names) /\ names[1] = <<"compile", attempt>>
        /\ names[2] = <<"simulation", attempt>> /\ DOMAIN names = {1, 2}
    BY <1>3
  <2>3. {<<"compile", attempt>>, <<"simulation", attempt>>} \subseteq Entries(names)
    BY <2>2 DEF Entries
  <2>4. Logged(done, files \union Entries(names))
    BY <2>1, <2>3 DEF Logged, Logs, attempt
  <2> HIDE DEF done, names, st
  <2>5. Return(r, done, names)
    BY <1>6 DEF done, names
  <2> QED BY <1>2, <2>1, <2>2, <2>4, <2>5, ReturnOK
<1> QED BY <1>4, <1>5, <1>6 DEF Simulation, attempt

LEMMA DebugStep == ASSUME IInv, NEW r \in Requests, DebugAgent(r) PROVE IInv'
<1> DEFINE st == run[r].st
           retried == [st EXCEPT !.firmware = st.iteration + 2, !.iteration = st.iteration + 1,
                                 !.vstate = "RETRYING", !.next = "Simulation"]
           spent == [st EXCEPT !.firmware = st.iteration + 2, !.vstate = "FAILED",
                               !.next = "Finish"]
           stuck == [st EXCEPT !.vstate = "FAILED", !.next = "Finish"]
           names == <<<<"firmware", st.iteration + 1>>>>
<1>1. At(r, "DebugAgent")
  BY DEF DebugAgent
<1>2. st \in Threads /\ run[r].pc = "running" /\ st.iteration \in 0 .. MaxFix
  BY <1>1, AtOK DEF Threads
<1>3. st.iteration + 2 \in Versions /\ names \in Seq(Names)
  BY <1>2, FixAssumption DEF Versions, Names
<1>4. /\ spent \in Threads /\ spent.vstate = "FAILED"
      /\ stuck \in Threads /\ stuck.vstate = "FAILED"
  BY <1>2, <1>3 DEF Threads, Nodes, ValidationStates
<1>5. ASSUME MayRetry(st) PROVE retried \in Threads /\ retried.vstate = "RETRYING"
  <2>1. st.iteration + 1 \in 0 .. MaxFix
    BY <1>2, <1>5, FixAssumption DEF MayRetry
  <2> QED BY <1>2, <1>3, <2>1 DEF Threads, Nodes, ValidationStates
<1>6. \/ MayRetry(st) /\ Return(r, retried, names)
      \/ Return(r, spent, <<>>) \/ Return(r, stuck, <<>>)
  BY <1>2 DEF DebugAgent, Threads
<1> HIDE DEF retried, spent, stuck, names
<1> QED BY <1>2, <1>3, <1>4, <1>5, <1>6, MadeOK, UnpassedOK

\* The state that passed is the state that ends.
LEMMA FinishStep == ASSUME IInv, NEW r \in Requests, Finish(r) PROVE IInv'
<1> DEFINE st == run[r].st
           over == [st EXCEPT !.next = "END",
                              !.vstate = IF st.vstate = "PASSED" THEN "PASSED" ELSE "FAILED"]
<1>1. At(r, "Finish")
  BY DEF Finish
<1>2. st \in Threads /\ run[r].pc = "running" /\ PassedOK(st) /\ Logged(st, files)
  BY <1>1, AtOK
<1>3. over \in Threads /\ PassedOK(over) /\ Logged(over, files)
  BY <1>2 DEF Threads, Nodes, ValidationStates, PassedOK, Logged, Logs
<1>4. Return(r, over, <<>>)
  BY DEF Finish
<1> HIDE DEF over
<1>5. Logged(over, files \union Entries(<<>>))
  BY <1>3 DEF Logged
<1> QED BY <1>2, <1>3, <1>4, <1>5, MadeOK, ReturnOK

-----------------------------------------------------------------------------
\* Saving: what is still to be saved shrinks only by what is saved.
LEMMA CheckStep == ASSUME IInv, NEW r \in Requests, CheckName(r) PROVE IInv'
<1> DEFINE x == [run[r] EXCEPT !.pc = "writing"]
<1>1. run[r] \in Runs /\ Fits(run[r], files) /\ run[r].todo # <<>>
  BY DEF IInv, TypeOK, CheckName
<1>2. x \in Runs /\ x.pc = "writing" /\ x.todo = run[r].todo /\ x.st = run[r].st
  BY <1>1 DEF Runs, Phases
<1>3. Fits(x, files)
  BY <1>1, <1>2 DEF Fits
<1>4. \/ Raise(r)
      \/ Update(r, x) /\ UNCHANGED <<capabilities, task, ckpt, issued, files, manifest>>
  BY DEF CheckName
<1> HIDE DEF x
<1> QED BY <1>2, <1>3, <1>4, RaiseStep, UpdateOK DEF IInv, TypeOK, Tasks

LEMMA WriteFileStep == ASSUME IInv, NEW r \in Requests, WriteFile(r) PROVE IInv'
<1> DEFINE x == [run[r] EXCEPT !.pc = "listing"]
<1>1. run[r] \in Runs /\ Fits(run[r], files) /\ run[r].todo # <<>>
      /\ files' = files \union {Head(run[r].todo)}
  BY DEF IInv, TypeOK, WriteFile, Fits
<1>2. x \in Runs /\ x.pc = "listing" /\ x.todo = run[r].todo /\ x.st = run[r].st
  BY <1>1 DEF Runs, Phases
<1>3. run[r].todo \in Seq(Names)
  BY <1>1 DEF Runs
<1>4. files \subseteq files' /\ files' \subseteq Names
  BY <1>1, <1>3, HeadAndTail DEF IInv, TypeOK
<1>5. Fits(x, files')
  BY <1>1, <1>2 DEF Fits, Logged
<1>6. Update(r, x) /\ UNCHANGED <<capabilities, task, ckpt, issued, manifest>>
  BY DEF WriteFile
<1>7. Logged(ckpt', files') /\ PassedOK(ckpt')
  BY <1>4, <1>6 DEF IInv, Logged
<1> HIDE DEF x
<1> QED BY <1>2, <1>4, <1>5, <1>6, <1>7, UpdateOK DEF IInv, TypeOK, Tasks

LEMMA ReadManifestStep == ASSUME IInv, NEW r \in Requests, ReadManifest(r) PROVE IInv'
<1> DEFINE x == [run[r] EXCEPT !.pc = "recording", !.seen = manifest]
<1>1. run[r] \in Runs /\ Fits(run[r], files) /\ manifest \subseteq Names
      /\ run[r].pc = "listing"
  BY DEF IInv, TypeOK, ReadManifest
<1>2. x \in Runs /\ x.pc = "recording" /\ x.todo = run[r].todo /\ x.st = run[r].st
  BY <1>1 DEF Runs, Phases
<1>3. Fits(x, files)
  BY <1>1, <1>2 DEF Fits
<1>4. Update(r, x) /\ UNCHANGED <<capabilities, task, ckpt, issued, files, manifest>>
  BY DEF ReadManifest
<1> HIDE DEF x
<1> QED BY <1>2, <1>3, <1>4, UpdateOK DEF IInv, TypeOK, Tasks

LEMMA WriteManifestStep == ASSUME IInv, NEW r \in Requests, WriteManifest(r) PROVE IInv'
<1> DEFINE todo == run[r].todo
           x == [run[r] EXCEPT !.pc = "saving", !.todo = Tail(todo), !.seen = {}]
<1>1. /\ run[r] \in Runs /\ Fits(run[r], files) /\ todo \in Seq(Names) /\ todo # <<>>
      /\ Head(todo) \in files /\ run[r].seen \subseteq Names
  BY DEF IInv, TypeOK, WriteManifest, Runs, Fits
<1>2. /\ Head(todo) \in Names /\ Tail(todo) \in Seq(Names)
      /\ Entries(todo) \subseteq {Head(todo)} \union Entries(Tail(todo))
  BY <1>1, HeadAndTail
<1>3. x \in Runs /\ x.pc = "saving" /\ x.todo = Tail(todo) /\ x.st = run[r].st
  BY <1>1, <1>2 DEF Runs, Phases
<1>4. Fits(x, files)
  BY <1>1, <1>2, <1>3 DEF Fits, Logged
<1>5. manifest' \subseteq Names
  BY <1>1, <1>2 DEF WriteManifest
<1>6. Update(r, x) /\ UNCHANGED <<capabilities, task, ckpt, issued, files>>
  BY DEF WriteManifest
<1> HIDE DEF x
<1> QED BY <1>3, <1>4, <1>5, <1>6, UpdateOK DEF IInv, TypeOK, Tasks

LEMMA CommitStep == ASSUME IInv, NEW r \in Requests, Commit(r) PROVE IInv'
<1>1. run[r].st \in Threads /\ run[r].todo = <<>> /\ Fits(run[r], files)
  BY DEF IInv, TypeOK, Commit, Runs
<1> QED BY <1>1, MadeOK, PutOK DEF Commit, Fits

-----------------------------------------------------------------------------
\* The end of a request, faults.
LEMMA ReadThreadStep == ASSUME IInv, NEW r \in Requests, ReadThread(r) PROVE IInv'
<1> DEFINE x == [run[r] EXCEPT !.pc = "reporting", !.st = ckpt]
<1>1. run[r] \in Runs /\ run[r].todo = <<>> /\ ckpt \in Threads
  BY DEF IInv, TypeOK, ReadThread, Fits
<1>2. x \in Runs /\ x.pc = "reporting" /\ x.todo = <<>> /\ x.st = ckpt
  BY <1>1 DEF Runs, Phases
<1>3. Fits(x, files)
  BY <1>2 DEF Fits, IInv, Logged
<1>4. Update(r, x) /\ UNCHANGED <<capabilities, task, ckpt, issued, files, manifest>>
  BY DEF ReadThread
<1> HIDE DEF x
<1> QED BY <1>2, <1>3, <1>4, UpdateOK DEF IInv, TypeOK, Tasks

LEMMA UpdateStatusStep == ASSUME IInv, NEW r \in Requests, UpdateStatus(r) PROVE IInv'
<1>1. run[r].st.vstate \in ValidationStates /\ task \in Tasks
  BY DEF IInv, TypeOK, Runs, Threads, Tasks
<1>2. task' \in Tasks
  BY <1>1 DEF UpdateStatus, SyncedTask, Tasks, TaskStatuses
<1>3. Update(r, Over(r)) /\ UNCHANGED <<capabilities, ckpt, issued, files, manifest>>
  BY DEF UpdateStatus
<1> QED BY <1>2, <1>3, OverOK, UpdateOK DEF IInv, TypeOK

LEMMA RestartStep == ASSUME IInv, Restart PROVE IInv'
<1> USE DEF Restart
<1> DEFINE dead == [NoRun EXCEPT !.pc = "closed"]
<1>1. dead \in Runs /\ dead.pc = "closed" /\ dead.todo = <<>> /\ dead.st.vstate = "none"
  BY NoRunOK DEF Runs, Phases
<1>2. ASSUME NEW q \in Requests
      PROVE  run'[q] \in Runs /\ Fits(run'[q], files)
  <2>1. CASE run'[q] = dead
    BY <1>1, <2>1 DEF Fits, PassedOK, Logged
  <2>2. CASE run'[q] = [run[q] EXCEPT !.ask = "none"]
    <3>1. run[q] \in Runs /\ Fits(run[q], files)
      BY DEF IInv, TypeOK
    <3>2. /\ run'[q] \in Runs /\ run'[q].pc = run[q].pc
          /\ run'[q].todo = run[q].todo /\ run'[q].st = run[q].st
      BY <2>2, <3>1 DEF Runs, Asks
    <3> QED BY <3>1, <3>2 DEF Fits
  <2> QED BY <2>1, <2>2
<1>3. run' \in [Requests -> Runs]
  BY <1>2
<1>4. TypeOK'
  BY <1>3, NoRunOK DEF IInv, TypeOK, Tasks
<1>5. (PassedOK(ckpt) /\ Logged(ckpt, files))'
  BY NoRunOK DEF PassedOK, Logged
<1>6. (\A r \in Requests : Fits(run[r], files))'
  BY <1>2 DEF Fits, PassedOK, Logged, Logs, Entries
<1> QED BY <1>4, <1>5, <1>6 DEF IInv

-----------------------------------------------------------------------------
LEMMA InitOK == Init => IInv
<1> SUFFICES ASSUME Init PROVE IInv
  OBVIOUS
<1>1. TypeOK
  BY NoRunOK DEF Init, TypeOK, Tasks
<1>2. PassedOK(ckpt) /\ Logged(ckpt, files)
  BY NoRunOK DEF Init, PassedOK, Logged
<1>3. ASSUME NEW r \in Requests PROVE Fits(run[r], files)
  <2>1. run[r] = NoRun
    BY DEF Init
  <2> QED BY <2>1, NoRunOK DEF Fits, PassedOK, Logged
<1> QED BY <1>1, <1>2, <1>3 DEF IInv

LEMMA NextOK == IInv /\ [Next]_vars => IInv'
<1> SUFFICES ASSUME IInv, [Next]_vars PROVE IInv'
  OBVIOUS
<1>1. ASSUME NEW r \in Requests, Ask(r) PROVE IInv'
  BY <1>1, CreateStep, DecideStep DEF Ask
<1>2. ASSUME NEW r \in Requests, Step(r) PROVE IInv'
  BY <1>2, BeginStep, InitializeStep, HardwareStep, FirmwareStep, ApprovalStep,
     InterruptStep, SimulationStep, DebugStep, FinishStep, CheckStep, WriteFileStep,
     ReadManifestStep, WriteManifestStep, CommitStep, ReadThreadStep, UpdateStatusStep
     DEF Step
<1>3. ASSUME NEW r \in Requests, Fail(r) PROVE IInv'
  BY <1>3, RaiseStep DEF Fail
<1>4. CASE Restart
  BY <1>4, RestartStep
<1>5. CASE UNCHANGED vars
  <2>1. TypeOK'
    BY <1>5 DEF vars, IInv, TypeOK
  <2>2. (PassedOK(ckpt) /\ Logged(ckpt, files))'
    BY <1>5 DEF vars, IInv, PassedOK, Logged, Logs
  <2>3. ASSUME NEW r \in Requests PROVE Fits(run'[r], files')
    BY <1>5 DEF vars, IInv
  <2>4. (\A r \in Requests : Fits(run[r], files))'
    BY <2>3 DEF Fits, PassedOK, Logged, Logs, Entries
  <2> QED BY <2>1, <2>2, <2>4 DEF IInv
<1> QED BY <1>1, <1>2, <1>3, <1>4, <1>5 DEF Next

\* The inductive invariant of the task API.
THEOREM EmbeddedInductive == Spec => []IInv
BY InitOK, NextOK, PTL DEF Spec

\* Records, checkpoints, runs and artifacts keep their types: no patch goes over the
\* budget and no artifact has a name that counts beyond it.
THEOREM EmbeddedTypeCorrect == Spec => []TypeOK
<1>1. IInv => TypeOK
  BY DEF IInv
<1> QED BY <1>1, EmbeddedInductive, PTL

\* A design that passed was approved, simulated with the firmware it keeps, and its
\* logs are saved, in the checkpoint and in every run with nothing left to save.
THEOREM PassedEvidence == Spec => []PassedIsVerified
<1>1. ASSUME NEW st, PassedOK(st), Logged(st, files), st.vstate = "PASSED"
      PROVE  /\ st.decision = "approve"
             /\ st.simulation = "passed" /\ st.binary = st.firmware
             /\ {<<"compile", st.iteration + 1>>, <<"simulation", st.iteration + 1>>}
                   \subseteq files
  BY <1>1 DEF PassedOK, Logged, Logs
<1>2. ASSUME IInv, NEW r \in Requests, run[r].todo = <<>>
      PROVE  PassedOK(run[r].st) /\ Logged(run[r].st, files)
  BY <1>2, MadeOK DEF IInv, Fits, Logged
<1>3. IInv => PassedIsVerified
  BY <1>1, <1>2 DEF IInv, PassedIsVerified
<1> QED BY <1>3, EmbeddedInductive, PTL
-----------------------------------------------------------------------------
(***************************************************************************)
(* The completed task and the chain of its attempts.                       *)
(*                                                                         *)
(* The argument: where a state stands in the graph tells which artifacts   *)
(* are saved, or still to be saved by the run that holds it; a log is only *)
(* saved over those of the attempt before.  A decision in a state was the  *)
(* ask of a request, and only a restart forgets it, with every state.      *)
(***************************************************************************)

\* What is saved before the n-th attempt is compiled: the design, the firmware it
\* began with, and the log and the patch of the attempt before.
Base       == {<<"hardware_design", 0>>, <<"firmware", 0>>}
Support(n) == Base \union (IF n > 1 THEN {<<"compile", n - 1>>, <<"firmware", n - 1>>} ELSE {})

\* What a state owes to where it stands in the graph.
Reached(st, saved) ==
  /\ st.next \in {"Initialize", "HardwareAgent", "FirmwareAgent", "Approval"} => st.iteration = 0
  /\ st.designed => <<"hardware_design", 0>> \in saved
  /\ st.next = "Approval" => Base \subseteq saved
  /\ st.next \in {"Simulation", "DebugAgent"} => Support(st.iteration + 1) \subseteq saved
  /\ st.next = "DebugAgent" => <<"compile", st.iteration + 1>> \in saved

\* A log that is still to be saved finds all it needs saved already.
Warranted(todo, saved) ==
  \A n \in 1 .. MaxFix + 1 : <<"compile", n>> \in Entries(todo) => Support(n) \subseteq saved

\* A run has no decision but the one its request asked for.
Asked(x) == /\ x.resume = "approve" => x.ask = "approve"
            /\ x.pc = "idle" => x.ask = "none"
            /\ x.pc \in {"idle", "closed"} =>
                 x.resume # "approve" /\ x.st.decision # "approve"

Story(x, saved) == /\ Reached(x.st, saved \union Entries(x.todo))
                   /\ Warranted(x.todo, saved)
                   /\ Asked(x)

Approved   == \E r \in Requests : run[r].ask = "approve"
Tried(saved) == \E n \in 1 .. MaxFix + 1 : {<<"compile", n>>, <<"simulation", n>>} \subseteq saved
Earned(t, saved) == t.status = "COMPLETED" => t.vstate = "PASSED" /\ Tried(saved)

\* The strengthening behind the completed task and the chain of its attempts.
EInv == /\ IInv
        /\ Reached(ckpt, files) /\ AttemptsAreLogged /\ Earned(task, files)
        /\ ckpt.decision = "approve" \/ task.status = "COMPLETED" => Approved
        /\ \A r \in Requests : /\ Story(run[r], files)
                               /\ run[r].st.decision = "approve" => Approved

\* More files lose no part of the story.
LEMMA StoryMore ==
  ASSUME NEW x \in Runs, NEW saved, NEW more, Story(x, saved), saved \subseteq more
  PROVE  Story(x, more)
BY DEF Story, Reached, Warranted

LEMMA ReachedMore ==
  ASSUME NEW st, NEW saved, NEW more, Reached(st, saved), saved \subseteq more
  PROVE  Reached(st, more)
BY DEF Reached

LEMMA NoThreadStory == /\ \A saved : Reached(NoThread, saved)
                       /\ NoThread.decision = "none" /\ NoRun.resume = "none"
                       /\ NoRun.st = NoThread /\ NoRun.ask = "none" /\ NoTask.status = "none"
BY DEF Reached, NoThread, NoRun, NoTask

\* A request keeps what it asked, so whoever approved is still there.
LEMMA AskKept ==
  ASSUME TypeOK, NEW r \in Requests, NEW x, Update(r, x),
         x.ask = run[r].ask \/ run[r].ask = "none"
  PROVE  /\ Approved => Approved'
         /\ x.ask = "approve" => Approved'
<1>1. run'[r] = x /\ \A q \in Requests : q # r => run'[q] = run[q]
  BY DEF Update, TypeOK
<1>2. ASSUME x.ask = "approve" PROVE Approved'
  BY <1>1, <1>2 DEF Approved
<1>3. ASSUME Approved PROVE Approved'
  <2>1. PICK q \in Requests : run[q].ask = "approve"
    BY <1>3 DEF Approved
  <2>2. run'[q].ask = "approve"
    BY <1>1, <2>1
  <2> QED BY <2>2 DEF Approved
<1> QED BY <1>2, <1>3

\* A step of one request that tells its own story keeps the whole one.
LEMMA KeepOK ==
  ASSUME EInv, IInv', NEW r \in Requests, NEW x \in Runs, Update(r, x), Story(x, files'),
         x.ask = run[r].ask \/ run[r].ask = "none",
         x.st.decision = "approve" => Approved \/ x.ask = "approve",
         files \subseteq files', AttemptsAreLogged',
         Reached(ckpt', files'), ckpt'.decision = "approve" => Approved \/ x.ask = "approve",
         Earned(task', files'), task'.status = "COMPLETED" => Approved
  PROVE  EInv'
<1>1. TypeOK /\ (Approved => Approved') /\ (x.ask = "approve" => Approved')
  BY AskKept DEF EInv, IInv
<1>2. ASSUME NEW q \in Requests
      PROVE  Story(run'[q], files') /\ (run'[q].st.decision = "approve" => Approved')
  <2>1. CASE q = r
    <3>1. run'[q] = x
      BY <1>1, <2>1 DEF Update, TypeOK
    <3> QED BY <1>1, <3>1
  <2>2. CASE q # r
    <3>1. run'[q] = run[q] /\ run[q] \in Runs /\ Story(run[q], files)
      BY <1>1, <2>2 DEF EInv, TypeOK, Update
    <3>2. Story(run[q], files')
      BY <3>1, StoryMore
    <3> QED BY <1>1, <3>1, <3>2 DEF EInv
  <2> QED BY <2>1, <2>2
<1>3. (Reached(ckpt, files) /\ Earned(task, files))'
  BY DEF Reached, Earned, Tried, Support, Base
<1>4. (\A q \in Requests : Story(run[q], files) /\ (run[q].st.decision = "approve" => Approved))'
  BY <1>2 DEF Story, Reached, Warranted, Support, Base, Asked, Entries
<1>5. (ckpt.decision = "approve" \/ task.status = "COMPLETED" => Approved)'
  BY <1>1
<1> QED BY <1>3, <1>4, <1>5 DEF EInv

\* Most steps leave the files and the record alone.
LEMMA QuietOK ==
  ASSUME EInv, IInv', NEW r \in Requests, NEW x \in Runs, Update(r, x), Story(x, files),
         x.ask = run[r].ask \/ run[r].ask = "none",
         x.st.decision = "approve" => Approved \/ x.ask = "approve",
         UNCHANGED <<task, files>>,
         Reached(ckpt', files), ckpt'.decision = "approve" => Approved \/ x.ask = "approve"
  PROVE  EInv'
<1>1. AttemptsAreLogged'
  BY DEF EInv, AttemptsAreLogged
<1>2. Earned(task', files') /\ (task'.status = "COMPLETED" => Approved)
  BY DEF EInv
<1>3. Story(x, files') /\ Reached(ckpt', files') /\ files \subseteq files'
  OBVIOUS
<1> QED BY <1>1, <1>2, <1>3, KeepOK

LEMMA OverStory ==
  ASSUME IInv, NEW r \in Requests, NEW saved
  PROVE  /\ Over(r) \in Runs /\ Story(Over(r), saved)
         /\ Over(r).ask = run[r].ask /\ Over(r).st.decision = "none"
<1>1. Over(r) \in Runs
  BY OverOK
<1>2. /\ Over(r).ask = run[r].ask /\ Over(r).st = NoThread /\ Over(r).pc = "closed"
      /\ Over(r).resume = "none" /\ Over(r).todo = <<>>
  BY NoThreadStory, NoRunOK DEF Over, NoRun
<1>3. Entries(<<>>) = {}
  BY MadeOK
<1> QED BY <1>1, <1>2, <1>3, NoThreadStory DEF Story, Warranted, Asked

LEMMA RaiseTells == ASSUME EInv, NEW r \in Requests, Raise(r) PROVE EInv'
<1>1. IInv /\ IInv'
  BY RaiseStep DEF EInv
<1>2. Update(r, Over(r)) /\ UNCHANGED <<task, files, ckpt>>
  BY DEF Raise
<1> QED BY <1>1, <1>2, OverStory, QuietOK DEF EInv

\* A node's state and what it saves: the story goes on from the files there are.
LEMMA ReturnTells ==
  ASSUME EInv, NEW r \in Requests, NEW st \in Threads, NEW names \in Seq(Names),
         IInv', run[r].pc = "running", Return(r, st, names),
         Reached(st, files \union Entries(names)), Warranted(names, files),
         st.decision = "approve" => Approved
  PROVE  EInv'
<1>1. run[r] \in Runs /\ run[r].todo = <<>> /\ Asked(run[r])
  BY DEF EInv, IInv, TypeOK, Fits, Story
<1>2. Entries(<<>>) = {}
  BY MadeOK
<1>3. CASE names = <<>> /\ Put(r, st)
  <2> DEFINE x == [run[r] EXCEPT !.st = st,
                     !.pc = IF st.next = "END" THEN "syncing" ELSE "running"]
  <2>1. /\ x \in Runs /\ x.st = st /\ x.todo = <<>> /\ x.pc \in {"syncing", "running"}
        /\ x.ask = run[r].ask /\ x.resume = run[r].resume
    BY <1>1 DEF Runs, Phases
  <2>2. Reached(st, files)
    BY <1>2, <1>3
  <2>3. Story(x, files)
    BY <1>1, <1>2, <2>1, <2>2 DEF Story, Warranted, Asked
  <2>4. Update(r, x) /\ ckpt' = st /\ UNCHANGED <<task, files>>
    BY <1>3 DEF Put
  <2> HIDE DEF x
  <2> QED BY <2>1, <2>2, <2>3, <2>4, QuietOK
<1>4. CASE /\ Update(r, [run[r] EXCEPT !.pc = "saving", !.st = st, !.todo = names])
           /\ UNCHANGED <<capabilities, task, ckpt, issued, files, manifest>>
  <2> DEFINE x == [run[r] EXCEPT !.pc = "saving", !.st = st, !.todo = names]
  <2>1. /\ x \in Runs /\ x.st = st /\ x.todo = names /\ x.pc = "saving"
        /\ x.ask = run[r].ask /\ x.resume = run[r].resume
    BY <1>1 DEF Runs, Phases
  <2>2. Story(x, files)
    BY <1>1, <2>1 DEF Story, Asked
  <2>3. Update(r, x) /\ UNCHANGED <<task, files, ckpt>>
    BY <1>4
  <2> HIDE DEF x
  <2> QED BY <2>1, <2>2, <2>3, QuietOK DEF EInv
<1> QED BY <1>3, <1>4 DEF Return

-----------------------------------------------------------------------------
LEMMA CreateTells == ASSUME EInv, NEW r \in Requests, CreateTask(r) PROVE EInv'
<1> DEFINE x == [NoRun EXCEPT !.pc = "accepted", !.ask = "create"]
<1>1. IInv'
  BY CreateStep DEF EInv
<1>2. /\ x \in Runs /\ x.pc = "accepted" /\ x.todo = <<>> /\ x.st = NoThread
      /\ x.ask = "create" /\ x.resume = "none"
  BY NoRunOK, NoThreadStory DEF Runs, Phases, Asks
<1>3. Story(x, files)
  BY <1>2, MadeOK, NoThreadStory DEF Story, Warranted, Asked
<1>4. Update(r, x) /\ UNCHANGED <<files, ckpt>> /\ task'.status = "RUNNING"
  BY NoRunOK DEF CreateTask, Tasks
<1>5. run[r].ask = "none"
  BY DEF CreateTask, EInv, Story, Asked
<1>6. AttemptsAreLogged' /\ Earned(task', files')
  BY <1>4 DEF EInv, AttemptsAreLogged, Earned
<1> HIDE DEF x
<1> QED BY <1>1, <1>2, <1>3, <1>4, <1>5, <1>6, NoThreadStory, KeepOK DEF EInv

LEMMA DecideTells ==
  ASSUME EInv, NEW r \in Requests, NEW decision \in {"approve", "reject"},
         DecideApproval(r, decision)
  PROVE  EInv'
<1> DEFINE x == [NoRun EXCEPT !.pc = "accepted", !.ask = decision]
<1>1. IInv'
  BY DecideStep DEF EInv
<1>2. /\ x \in Runs /\ x.pc = "accepted" /\ x.todo = <<>> /\ x.st = NoThread
      /\ x.resume = "none"
  BY NoRunOK, NoThreadStory DEF Runs, Phases, Asks
<1>3. Story(x, files)
  BY <1>2, MadeOK, NoThreadStory DEF Story, Warranted, Asked
<1>4. Update(r, x) /\ UNCHANGED <<task, files, ckpt>>
  BY DEF DecideApproval
<1>5. run[r].ask = "none"
  BY DEF DecideApproval, EInv, Story, Asked
<1> HIDE DEF x
<1> QED BY <1>1, <1>2, <1>3, <1>4, <1>5, NoThreadStory, QuietOK DEF EInv

LEMMA BeginTells == ASSUME EInv, NEW r \in Requests, Begin(r) PROVE EInv'
<1> USE DEF Begin
<1>1. run[r] \in Runs /\ run[r].todo = <<>> /\ Asked(run[r]) /\ ckpt \in Threads
  BY DEF EInv, IInv, TypeOK, Fits, Story
<1>2. IInv'
  BY BeginStep DEF EInv
<1>3. CASE run[r].ask = "create"
  <2> DEFINE st == [NoThread EXCEPT !.next = "Initialize"]
             x  == [run[r] EXCEPT !.pc = "running", !.st = st]
  <2>1. st \in Threads /\ st.decision = "none" /\ \A saved : Reached(st, saved)
    BY NoRunOK DEF Threads, Nodes, NoThread, Reached
  <2>2. ckpt' = st /\ Update(r, x) /\ UNCHANGED <<task, files>>
    BY <1>3
  <2> HIDE DEF st
  <2>3. /\ x \in Runs /\ x.pc = "running" /\ x.todo = <<>> /\ x.st = st
        /\ x.ask = run[r].ask /\ x.resume = run[r].resume
    BY <1>1, <2>1 DEF Runs, Phases
  <2>4. Story(x, files)
    BY <1>1, <2>1, <2>3, MadeOK DEF Story, Warranted, Asked
  <2> HIDE DEF x
  <2> QED BY <1>2, <2>1, <2>2, <2>3, <2>4, QuietOK
<1>4. CASE run[r].ask # "create"
  <2> DEFINE x == [run[r] EXCEPT
             !.pc = IF ckpt.next = "END" THEN "syncing" ELSE "running",
             !.st = ckpt,
             !.resume = IF ckpt.next = "Approval" THEN run[r].ask ELSE "none"]
  <2>1. run[r].ask \in {"approve", "reject", "none"}
    BY <1>1, <1>4 DEF Runs, Asks
  <2>2. /\ x \in Runs /\ x.pc \in {"syncing", "running"} /\ x.todo = <<>> /\ x.st = ckpt
        /\ x.ask = run[r].ask /\ (x.resume = "approve" => x.ask = "approve")
    BY <1>1, <2>1 DEF Runs, Phases, Decisions
  <2>3. Story(x, files)
    BY <2>2, MadeOK DEF Story, EInv, Warranted, Asked
  <2>4. Update(r, x) /\ UNCHANGED <<task, files, ckpt>>
    BY <1>4
  <2> HIDE DEF x
  <2> QED BY <1>2, <2>2, <2>3, <2>4, QuietOK DEF EInv
<1> QED BY <1>3, <1>4

-----------------------------------------------------------------------------
\* A running node starts from files that bear out where it stands.
LEMMA AtTells ==
  ASSUME EInv, NEW r \in Requests, NEW node, At(r, node)
  PROVE  /\ run[r].st \in Threads /\ run[r].st.next = node /\ run[r].pc = "running"
         /\ Reached(run[r].st, files)
         /\ run[r].st.decision = "approve" => Approved
<1>1. run[r] \in Runs /\ run[r].todo = <<>> /\ Reached(run[r].st, files \union Entries(<<>>))
      /\ (run[r].st.decision = "approve" => Approved)
  BY DEF EInv, IInv, TypeOK, Fits, Story, At
<1> QED BY <1>1, MadeOK DEF At, Runs

\* A node that saves nothing, or nothing but a file of a kind that is no log.
LEMMA NoLogs ==
  /\ Warranted(<<>>, files)
  /\ \A kind \in {"hardware_design", "firmware"}, n \in 0 .. MaxFix + 1 :
       /\ <<<<kind, n>>>> \in Seq(Names) /\ Warranted(<<<<kind, n>>>>, files)
       /\ Entries(<<<<kind, n>>>>) = {<<kind, n>>}
<1>1. Warranted(<<>>, files)
  BY MadeOK DEF Warranted
<1>2. ASSUME NEW kind \in {"hardware_design", "firmware"}, NEW n \in 0 .. MaxFix + 1
      PROVE  /\ <<<<kind, n>>>> \in Seq(Names) /\ Warranted(<<<<kind, n>>>>, files)
             /\ Entries(<<<<kind, n>>>>) = {<<kind, n>>}
  <2>1. <<kind, n>> \in Names
    BY <1>2 DEF Names
  <2>2. <<<<kind, n>>>> \in Seq(Names)
    BY <2>1
  <2>3. Entries(<<<<kind, n>>>>) = {<<kind, n>>}
    BY DEF Entries
  <2>4. \A k : <<"compile", k>> # <<kind, n>>
    BY <1>2
  <2> QED BY <2>2, <2>3, <2>4 DEF Warranted
<1> QED BY <1>1, <1>2

LEMMA InitializeTells == ASSUME EInv, NEW r \in Requests, Initialize(r) PROVE EInv'
<1> DEFINE st == [NoThread EXCEPT !.next = "HardwareAgent", !.vstate = "CREATED"]
<1>1. /\ st \in Threads /\ st.decision = "none" /\ st.next = "HardwareAgent"
      /\ st.iteration = 0 /\ ~st.designed
  BY NoRunOK DEF Threads, Nodes, ValidationStates, NoThread
<1>2. Return(r, st, <<>>) /\ run[r].pc = "running"
  BY DEF Initialize, At
<1>3. IInv'
  BY InitializeStep DEF EInv
<1> HIDE DEF st
<1>4. Reached(st, files \union Entries(<<>>))
  BY <1>1 DEF Reached
<1> QED BY <1>1, <1>2, <1>3, <1>4, MadeOK, NoLogs, ReturnTells

LEMMA HardwareTells == ASSUME EInv, NEW r \in Requests, HardwareAgent(r) PROVE EInv'
<1> DEFINE old == run[r].st
           st == [old EXCEPT !.next = "FirmwareAgent", !.designed = TRUE, !.vstate = "CREATED"]
           sf == [old EXCEPT !.next = "FirmwareAgent", !.vstate = "FAILED"]
           design == <<<<"hardware_design", 0>>>>
<1>1. At(r, "HardwareAgent") /\ IInv'
  BY HardwareStep DEF HardwareAgent, EInv
<1>2. /\ old \in Threads /\ run[r].pc = "running" /\ Reached(old, files)
      /\ old.next = "HardwareAgent" /\ (old.decision = "approve" => Approved)
  BY <1>1, AtTells
<1>3. /\ st \in Threads /\ sf \in Threads
      /\ st.next = "FirmwareAgent" /\ sf.next = "FirmwareAgent"
      /\ st.iteration = old.iteration /\ sf.iteration = old.iteration
      /\ sf.designed = old.designed
      /\ st.decision = old.decision /\ sf.decision = old.decision
  BY <1>2 DEF Threads, Nodes, ValidationStates
<1>4. Return(r, st, design) \/ Return(r, sf, <<>>)
  BY <1>2 DEF HardwareAgent, Threads
<1>5. /\ design \in Seq(Names) /\ Warranted(design, files)
      /\ Entries(design) = {<<"hardware_design", 0>>}
  BY NoLogs, FixAssumption
<1> HIDE DEF st, sf, design, old
<1>6. Reached(st, files \union Entries(design)) /\ Reached(sf, files \union Entries(<<>>))
  BY <1>2, <1>3, <1>5 DEF Reached
<1> QED BY <1>1, <1>2, <1>3, <1>4, <1>5, <1>6, MadeOK, NoLogs, ReturnTells

LEMMA FirmwareTells == ASSUME EInv, NEW r \in Requests, FirmwareAgent(r) PROVE EInv'
<1> DEFINE old == run[r].st
           st == [old EXCEPT !.firmware = 1, !.vstate = "GENERATED", !.next = "Approval"]
           source == <<<<"firmware", 0>>>>
<1>1. At(r, "FirmwareAgent") /\ IInv'
  BY FirmwareStep DEF FirmwareAgent, EInv
<1>2. /\ old \in Threads /\ run[r].pc = "running" /\ Reached(old, files)
      /\ old.next = "FirmwareAgent" /\ (old.decision = "approve" => Approved)
  BY <1>1, AtTells
<1>3. /\ st \in Threads /\ st.next = "Approval" /\ st.iteration = old.iteration
      /\ st.designed = old.designed /\ st.decision = old.decision
  BY <1>2, MadeOK DEF Threads, Nodes, ValidationStates
<1>4. (old.designed /\ Return(r, st, source)) \/ Raise(r)
  BY DEF FirmwareAgent
<1>5. /\ source \in Seq(Names) /\ Warranted(source, files)
      /\ Entries(source) = {<<"firmware", 0>>}
  BY NoLogs, FixAssumption
<1> HIDE DEF st, source, old
<1>6. old.designed => Reached(st, files \union Entries(source))
  BY <1>2, <1>3, <1>5 DEF Reached, Base
<1> QED BY <1>1, <1>2, <1>3, <1>4, <1>5, <1>6, ReturnTells, RaiseTells

\* The decision of a state is the ask of the request whose run takes it.
LEMMA ApprovalTells == ASSUME EInv, NEW r \in Requests, Approval(r) PROVE EInv'
<1> DEFINE old == run[r].st
           st == [old EXCEPT !.decision = run[r].resume, !.next = "Simulation"]
<1>1. At(r, "Approval") /\ IInv'
  BY ApprovalStep DEF Approval, EInv
<1>2. /\ old \in Threads /\ run[r].pc = "running" /\ Reached(old, files)
      /\ old.next = "Approval"
  BY <1>1, AtTells
<1>3. run[r].resume \in Decisions /\ (run[r].resume = "approve" => Approved)
  BY DEF EInv, IInv, TypeOK, Runs, Story, Asked, Approved
<1>4. /\ st \in Threads /\ st.next = "Simulation" /\ st.iteration = old.iteration
      /\ st.designed = old.designed /\ st.decision = run[r].resume
  BY <1>2, <1>3 DEF Threads, Nodes
<1>5. Return(r, st, <<>>)
  BY DEF Approval
<1> HIDE DEF st, old
<1>6. Reached(st, files \union Entries(<<>>))
  BY <1>2, <1>4, MadeOK DEF Reached, Base, Support
<1> QED BY <1>1, <1>2, <1>3, <1>4, <1>5, <1>6, MadeOK, NoLogs, ReturnTells

LEMMA InterruptTells == ASSUME EInv, NEW r \in Requests, Interrupt(r) PROVE EInv'
<1> DEFINE x == [run[r] EXCEPT !.pc = "syncing"]
<1>1. run[r] \in Runs /\ Story(run[r], files) /\ IInv'
  BY InterruptStep DEF EInv, IInv, TypeOK
<1>2. /\ x \in Runs /\ x.pc = "syncing" /\ x.todo = run[r].todo /\ x.st = run[r].st
      /\ x.ask = run[r].ask /\ x.resume = run[r].resume
  BY <1>1 DEF Runs, Phases
<1>3. Story(x, files)
  BY <1>1, <1>2 DEF Story, Asked
<1>4. Update(r, x) /\ UNCHANGED <<task, files, ckpt>>
  BY DEF Interrupt
<1> HIDE DEF x
<1> QED BY <1>1, <1>2, <1>3, <1>4, QuietOK DEF EInv

\* Whatever an attempt brings, its log is saved over those of the one before.
LEMMA AttemptTells ==
  ASSUME EInv, IInv', NEW r \in Requests, At(r, "Simulation"),
         NEW st \in Threads, NEW names \in Seq(Names), Return(r, st, names),
         st.iteration = run[r].st.iteration, st.designed = run[r].st.designed,
         st.decision = run[r].st.decision, st.next \in {"Finish", "DebugAgent"},
         \A n : <<"compile", n>> \in Entries(names) => n = st.iteration + 1,
         st.next = "DebugAgent" => <<"compile", st.iteration + 1>> \in Entries(names)
  PROVE  EInv'
<1>1. /\ Reached(run[r].st, files) /\ run[r].pc = "running"
      /\ run[r].st.next = "Simulation" /\ (run[r].st.decision = "approve" => Approved)
  BY AtTells
<1>2. Support(st.iteration + 1) \subseteq files
  BY <1>1 DEF Reached
<1>3. Warranted(names, files)
  BY <1>2 DEF Warranted
<1>4. Reached(st, files \union Entries(names))
  BY <1>1, <1>2 DEF Reached
<1> QED BY <1>1, <1>3, <1>4, ReturnTells

LEMMA RoutedOK ==
  ASSUME NEW st \in Threads
  PROVE  /\ Routed(st) \in Threads /\ Routed(st).next \in {"Finish", "DebugAgent"}
         /\ Routed(st).iteration = st.iteration /\ Routed(st).designed = st.designed
         /\ Routed(st).decision = st.decision
         /\ st.vstate = "FAILED" => Routed(st).next = "Finish"
BY DEF Routed, Threads, Nodes

LEMMA SimulationTells == ASSUME EInv, NEW r \in Requests, Simulation(r) PROVE EInv'
<1> DEFINE old == run[r].st
           attempt == old.iteration + 1
           failed == [old EXCEPT !.vstate = "FAILED"]
           one == <<<<"compile", attempt>>>>
           two == <<<<"compile", attempt>>, <<"simulation", attempt>>>>
<1>1. At(r, "Simulation") /\ IInv'
  BY SimulationStep DEF Simulation, EInv
<1>2. old \in Threads
  BY <1>1, AtTells
<1>3. <<"compile", attempt>> \in Names /\ <<"simulation", attempt>> \in Names
  BY <1>2, FixAssumption DEF Threads, Names
<1>4. /\ one \in Seq(Names) /\ Entries(one) = {<<"compile", attempt>>}
      /\ two \in Seq(Names)
      /\ Entries(two) = {<<"compile", attempt>>, <<"simulation", attempt>>}
  <2>1. one \in Seq(Names) /\ DOMAIN one = {1} /\ one[1] = <<"compile", attempt>>
    BY <1>3
  <2>2. /\ two \in Seq(Names) /\ DOMAIN two = {1, 2}
        /\ two[1] = <<"compile", attempt>> /\ two[2] = <<"simulation", attempt>>
    BY <1>3
  <2> HIDE DEF one, two
  <2> QED BY <2>1, <2>2 DEF Entries
<1>5. \/ Return(r, Routed(failed), <<>>)
      \/ Return(r, Routed(CompileFailed(old)), one)
      \/ \E verdict \in Verdicts \ {"none"} : Return(r, Routed(Simulated(old, verdict)), two)
  BY DEF Simulation
<1>6. CASE Return(r, Routed(failed), <<>>)
  <2>1. /\ failed \in Threads /\ failed.vstate = "FAILED" /\ failed.iteration = old.iteration
        /\ failed.designed = old.designed /\ failed.decision = old.decision
    BY <1>2 DEF Threads, ValidationStates
  <2> HIDE DEF failed
  <2> QED BY <1>1, <1>6, <2>1, MadeOK, RoutedOK, AttemptTells
<1>7. CASE Return(r, Routed(CompileFailed(old)), one)
  <2> DEFINE st == CompileFailed(old)
  <2>1. /\ st \in Threads /\ st.iteration = old.iteration
        /\ st.designed = old.designed /\ st.decision = old.decision
    BY <1>2, MadeOK DEF CompileFailed, Threads, ValidationStates
  <2>2. Return(r, Routed(st), one)
    BY <1>7
  <2>3. \A n : <<"compile", n>> \in Entries(one) => n = attempt
    BY <1>4
  <2> HIDE DEF st, one
  <2> QED BY <1>1, <1>4, <2>1, <2>2, <2>3, RoutedOK, AttemptTells
<1>8. ASSUME NEW verdict \in Verdicts \ {"none"}, Return(r, Routed(Simulated(old, verdict)), two)
      PROVE  EInv'
  <2> DEFINE st == Simulated(old, verdict)
  <2>1. /\ st \in Threads /\ st.iteration = old.iteration
        /\ st.designed = old.designed /\ st.decision = old.decision
    BY <1>2 DEF Simulated, Threads, ValidationStates, Verdicts
  <2>2. Return(r, Routed(st), two)
    BY <1>8
  <2>3. \A n : <<"compile", n>> \in Entries(two) => n = attempt
    BY <1>4
  <2> HIDE DEF st, two
  <2> QED BY <1>1, <1>4, <2>1, <2>2, <2>3, RoutedOK, AttemptTells
<1> QED BY <1>5, <1>6, <1>7, <1>8

LEMMA DebugTells == ASSUME EInv, NEW r \in Requests, DebugAgent(r) PROVE EInv'
<1> DEFINE old == run[r].st
           k == old.iteration
           retried == [old EXCEPT !.firmware = k + 2, !.iteration = k + 1,
                                  !.vstate = "RETRYING", !.next = "Simulation"]
           spent == [old EXCEPT !.firmware = k + 2, !.vstate = "FAILED", !.next = "Finish"]
           stuck == [old EXCEPT !.vstate = "FAILED", !.next = "Finish"]
           patch == <<<<"firmware", k + 1>>>>
<1>1. At(r, "DebugAgent") /\ IInv'
  BY DebugStep DEF DebugAgent, EInv
<1>2. /\ old \in Threads /\ run[r].pc = "running" /\ Reached(old, files)
      /\ old.next = "DebugAgent" /\ (old.decision = "approve" => Approved)
      /\ k \in 0 .. MaxFix
  BY <1>1, AtTells DEF Threads
<1>3. k + 2 \in Versions /\ k + 1 \in 0 .. MaxFix + 1
  BY <1>2, FixAssumption DEF Versions
<1>4. /\ spent \in Threads /\ spent.next = "Finish" /\ spent.designed = old.designed
      /\ spent.decision = old.decision
      /\ stuck \in Threads /\ stuck.next = "Finish" /\ stuck.designed = old.designed
      /\ stuck.decision = old.decision
  BY <1>2, <1>3 DEF Threads, Nodes, ValidationStates
<1>5. ASSUME MayRetry(old)
      PROVE  /\ retried \in Threads /\ retried.next = "Simulation"
             /\ retried.iteration = k + 1 /\ retried.designed = old.designed
             /\ retried.decision = old.decision
  <2>1. k + 1 \in 0 .. MaxFix
    BY <1>2, <1>5, FixAssumption DEF MayRetry
  <2> QED BY <1>2, <1>3, <2>1 DEF Threads, Nodes, ValidationStates
<1>6. \/ MayRetry(old) /\ Return(r, retried, patch)
      \/ Return(r, spent, <<>>) \/ Return(r, stuck, <<>>)
  BY <1>2 DEF DebugAgent, Threads
<1>7. /\ patch \in Seq(Names) /\ Warranted(patch, files)
      /\ Entries(patch) = {<<"firmware", k + 1>>}
  BY <1>3, NoLogs
<1> HIDE DEF retried, spent, stuck, patch, old
<1>8. Support(k + 2) \subseteq files \union Entries(patch)
  <2>1. Support(k + 1) \subseteq files /\ <<"compile", k + 1>> \in files
    BY <1>2 DEF Reached
  <2>2. Support(k + 2) = Base \union {<<"compile", k + 1>>, <<"firmware", k + 1>>}
    <3>1. k + 2 > 1 /\ (k + 2) - 1 = k + 1
      BY <1>2, FixAssumption
    <3> QED BY <3>1 DEF Support
  <2>3. Base \subseteq files
    BY <2>1 DEF Support
  <2> QED BY <1>7, <2>1, <2>2, <2>3
<1>9. /\ MayRetry(old) => Reached(retried, files \union Entries(patch))
      /\ Reached(spent, files \union Entries(<<>>))
      /\ Reached(stuck, files \union Entries(<<>>))
  <2>1. (k + 1) + 1 = k + 2
    BY <1>2, FixAssumption
  <2> QED BY <1>2, <1>4, <1>5, <1>8, <2>1, MadeOK DEF Reached
<1> QED BY <1>1, <1>2, <1>4, <1>5, <1>6, <1>7, <1>9, MadeOK, NoLogs, ReturnTells

LEMMA FinishTells == ASSUME EInv, NEW r \in Requests, Finish(r) PROVE EInv'
<1> DEFINE old == run[r].st
           over == [old EXCEPT !.next = "END",
                               !.vstate = IF old.vstate = "PASSED" THEN "PASSED" ELSE "FAILED"]
<1>1. At(r, "Finish") /\ IInv'
  BY FinishStep DEF Finish, EInv
<1>2. /\ old \in Threads /\ run[r].pc = "running" /\ Reached(old, files)
      /\ (old.decision = "approve" => Approved)
  BY <1>1, AtTells
<1>3. /\ over \in Threads /\ over.next = "END" /\ over.designed = old.designed
      /\ over.decision = old.decision
  BY <1>2 DEF Threads, Nodes, ValidationStates
<1>4. Return(r, over, <<>>)
  BY DEF Finish
<1> HIDE DEF over, old
<1>5. Reached(over, files \union Entries(<<>>))
  BY <1>2, <1>3 DEF Reached
<1> QED BY <1>1, <1>2, <1>3, <1>4, <1>5, MadeOK, NoLogs, ReturnTells

-----------------------------------------------------------------------------
\* Saving: a log is written only over what warrants it.
LEMMA CheckTells == ASSUME EInv, NEW r \in Requests, CheckName(r) PROVE EInv'
<1> DEFINE x == [run[r] EXCEPT !.pc = "writing"]
<1>1. run[r] \in Runs /\ Story(run[r], files) /\ IInv'
  BY CheckStep DEF EInv, IInv, TypeOK
<1>2. /\ x \in Runs /\ x.pc = "writing" /\ x.todo = run[r].todo /\ x.st = run[r].st
      /\ x.ask = run[r].ask /\ x.resume = run[r].resume
  BY <1>1 DEF Runs, Phases
<1>3. Story(x, files)
  BY <1>1, <1>2 DEF Story, Asked
<1>4. Raise(r) \/ (Update(r, x) /\ UNCHANGED <<task, files, ckpt>>)
  BY DEF CheckName
<1> HIDE DEF x
<1> QED BY <1>1, <1>2, <1>3, <1>4, RaiseTells, QuietOK DEF EInv

LEMMA WriteFileTells == ASSUME EInv, NEW r \in Requests, WriteFile(r) PROVE EInv'
<1> DEFINE x == [run[r] EXCEPT !.pc = "listing"]
           todo == run[r].todo
<1>1. /\ run[r] \in Runs /\ Story(run[r], files) /\ todo # <<>> /\ todo \in Seq(Names)
      /\ files' = files \union {Head(todo)} /\ IInv'
  BY WriteFileStep DEF EInv, IInv, TypeOK, WriteFile, Fits, Runs
<1>2. /\ x \in Runs /\ x.pc = "listing" /\ x.todo = todo /\ x.st = run[r].st
      /\ x.ask = run[r].ask /\ x.resume = run[r].resume
  BY <1>1 DEF Runs, Phases
<1>3. Story(x, files)
  BY <1>1, <1>2 DEF Story, Asked
<1>4. Story(x, files')
  BY <1>1, <1>2, <1>3, StoryMore
<1>5. Update(r, x) /\ UNCHANGED <<task, ckpt>>
  BY DEF WriteFile
<1>6. Head(todo) \in Entries(todo)
  BY <1>1, EmptySeq DEF Entries
<1>7. AttemptsAreLogged'
  <2>1. ASSUME NEW n \in 1 .. MaxFix + 1, <<"compile", n>> \in files'
        PROVE  Support(n) \subseteq files
    <3>1. CASE <<"compile", n>> \in files
      BY <3>1 DEF EInv, AttemptsAreLogged, Support, Base
    <3>2. CASE <<"compile", n>> = Head(todo)
      BY <1>1, <1>6, <3>2 DEF Story, Warranted
    <3> QED BY <1>1, <2>1, <3>1, <3>2
  <2>2. ASSUME NEW n \in 1 .. MaxFix + 1, <<"compile", n>> \in files'
        PROVE  /\ n > 1 => {<<"compile", n - 1>>, <<"firmware", n - 1>>} \subseteq files'
               /\ <<"hardware_design", 0>> \in files' /\ <<"firmware", 0>> \in files'
    BY <1>1, <2>1, <2>2 DEF Support, Base
  <2> QED BY <2>2 DEF AttemptsAreLogged
<1>8. Reached(ckpt', files') /\ files \subseteq files'
  BY <1>1, <1>5, ReachedMore DEF EInv
<1>9. Earned(task', files') /\ (task'.status = "COMPLETED" => Approved)
  BY <1>1, <1>5 DEF EInv, Earned, Tried
<1> HIDE DEF x, todo
<1> QED BY <1>1, <1>2, <1>4, <1>5, <1>7, <1>8, <1>9, KeepOK DEF EInv

LEMMA ReadManifestTells == ASSUME EInv, NEW r \in Requests, ReadManifest(r) PROVE EInv'
<1> DEFINE x == [run[r] EXCEPT !.pc = "recording", !.seen = manifest]
<1>1. run[r] \in Runs /\ Story(run[r], files) /\ manifest \subseteq Names /\ IInv'
  BY ReadManifestStep DEF EInv, IInv, TypeOK
<1>2. /\ x \in Runs /\ x.pc = "recording" /\ x.todo = run[r].todo /\ x.st = run[r].st
      /\ x.ask = run[r].ask /\ x.resume = run[r].resume
  BY <1>1 DEF Runs, Phases
<1>3. Story(x, files)
  BY <1>1, <1>2 DEF Story, Asked
<1>4. Update(r, x) /\ UNCHANGED <<task, files, ckpt>>
  BY DEF ReadManifest
<1> HIDE DEF x
<1> QED BY <1>1, <1>2, <1>3, <1>4, QuietOK DEF EInv

\* The tail holds nothing that the whole did not.
LEMMA TailEntries ==
  ASSUME NEW S, NEW s \in Seq(S), s # <<>>
  PROVE  Entries(Tail(s)) \subseteq Entries(s)
<1>1. Len(s) \in Nat \ {0}
  BY EmptySeq
<1>2. Tail(s) \in Seq(S) /\ Len(Tail(s)) = Len(s) - 1
      /\ \A i \in 1 .. Len(s) - 1 : Tail(s)[i] = s[i + 1]
  BY <1>1
<1>3. ASSUME NEW i \in DOMAIN Tail(s) PROVE i + 1 \in DOMAIN s /\ Tail(s)[i] = s[i + 1]
  BY <1>1, <1>2
<1> QED BY <1>3 DEF Entries

LEMMA WriteManifestTells == ASSUME EInv, NEW r \in Requests, WriteManifest(r) PROVE EInv'
<1> DEFINE todo == run[r].todo
           x == [run[r] EXCEPT !.pc = "saving", !.todo = Tail(todo), !.seen = {}]
<1>1. /\ run[r] \in Runs /\ Story(run[r], files) /\ todo \in Seq(Names) /\ todo # <<>>
      /\ Head(todo) \in files /\ IInv'
  BY WriteManifestStep DEF EInv, IInv, TypeOK, WriteManifest, Runs, Fits
<1>2. /\ Tail(todo) \in Seq(Names) /\ Entries(Tail(todo)) \subseteq Entries(todo)
      /\ Entries(todo) \subseteq {Head(todo)} \union Entries(Tail(todo))
  BY <1>1, HeadAndTail, TailEntries
<1>3. /\ x \in Runs /\ x.pc = "saving" /\ x.todo = Tail(todo) /\ x.st = run[r].st
      /\ x.ask = run[r].ask /\ x.resume = run[r].resume
  BY <1>1, <1>2 DEF Runs, Phases
<1>4. Reached(x.st, files \union Entries(x.todo))
  BY <1>1, <1>2, <1>3, ReachedMore DEF Story
<1>5. Story(x, files)
  BY <1>1, <1>2, <1>3, <1>4 DEF Story, Warranted, Asked
<1>6. Update(r, x) /\ UNCHANGED <<task, files, ckpt>>
  BY DEF WriteManifest
<1> HIDE DEF x
<1> QED BY <1>1, <1>3, <1>5, <1>6, QuietOK DEF EInv

LEMMA CommitTells == ASSUME EInv, NEW r \in Requests, Commit(r) PROVE EInv'
<1> DEFINE st == run[r].st
           x == [run[r] EXCEPT !.st = st, !.pc = IF st.next = "END" THEN "syncing" ELSE "running"]
<1>1. /\ run[r] \in Runs /\ Story(run[r], files) /\ run[r].todo = <<>>
      /\ (st.decision = "approve" => Approved) /\ IInv' /\ run[r].pc = "saving"
  BY CommitStep DEF EInv, IInv, TypeOK, Commit
<1>2. /\ x \in Runs /\ x.pc \in {"syncing", "running"} /\ x.todo = <<>> /\ x.st = st
      /\ x.ask = run[r].ask /\ x.resume = run[r].resume
  BY <1>1 DEF Runs, Phases
<1>3. Story(x, files) /\ Reached(st, files)
  BY <1>1, <1>2, MadeOK DEF Story, Asked
<1>4. Update(r, x) /\ ckpt' = st /\ UNCHANGED <<task, files>>
  BY DEF Commit, Put
<1> HIDE DEF x, st
<1> QED BY <1>1, <1>2, <1>3, <1>4, QuietOK DEF EInv

-----------------------------------------------------------------------------
LEMMA ReadThreadTells == ASSUME EInv, NEW r \in Requests, ReadThread(r) PROVE EInv'
<1> DEFINE x == [run[r] EXCEPT !.pc = "reporting", !.st = ckpt]
<1>1. /\ run[r] \in Runs /\ run[r].todo = <<>> /\ ckpt \in Threads /\ IInv'
      /\ Story(run[r], files)
  BY ReadThreadStep DEF EInv, IInv, TypeOK, ReadThread, Fits
<1>2. /\ x \in Runs /\ x.pc = "reporting" /\ x.todo = <<>> /\ x.st = ckpt
      /\ x.ask = run[r].ask /\ x.resume = run[r].resume
  BY <1>1 DEF Runs, Phases
<1>3. Story(x, files)
  BY <1>1, <1>2, MadeOK DEF Story, Asked, Warranted, EInv
<1>4. Update(r, x) /\ UNCHANGED <<task, files, ckpt>>
  BY DEF ReadThread
<1> HIDE DEF x
<1> QED BY <1>1, <1>2, <1>3, <1>4, QuietOK DEF EInv

\* A record is completed by a thread that passed, which shows an approved attempt.
LEMMA UpdateStatusTells == ASSUME EInv, NEW r \in Requests, UpdateStatus(r) PROVE EInv'
<1> DEFINE st == run[r].st
<1>1. /\ st \in Threads /\ PassedOK(st) /\ Logged(st, files) /\ IInv' /\ task \in Tasks
      /\ (st.decision = "approve" => Approved)
  BY UpdateStatusStep, MadeOK DEF EInv, IInv, TypeOK, Runs, Fits, UpdateStatus, Logged, Tasks
<1>2. /\ Update(r, Over(r)) /\ UNCHANGED <<files, ckpt>> /\ task' = SyncedTask(st)
  BY DEF UpdateStatus
<1>3. task'.status = "COMPLETED" => st.vstate = "PASSED" /\ task'.vstate = "PASSED"
  BY <1>1, <1>2 DEF SyncedTask, Tasks
<1>4. st.vstate = "PASSED" => Tried(files)
  <2>1. st.iteration + 1 \in 1 .. MaxFix + 1
    BY <1>1, FixAssumption DEF Threads
  <2> QED BY <1>1, <2>1 DEF Logged, Logs, Tried
<1>5. Earned(task', files') /\ (task'.status = "COMPLETED" => Approved)
  BY <1>1, <1>2, <1>3, <1>4 DEF Earned, PassedOK
<1>6. AttemptsAreLogged'
  BY <1>2 DEF EInv, AttemptsAreLogged
<1> HIDE DEF st
<1> QED BY <1>1, <1>2, <1>5, <1>6, OverStory, KeepOK DEF EInv

\* A restart forgets every decision with everything that was decided.
LEMMA RestartTells == ASSUME EInv, Restart PROVE EInv'
<1> USE DEF Restart
<1> DEFINE dead == [NoRun EXCEPT !.pc = "closed"]
<1>1. /\ dead.st = NoThread /\ dead.todo = <<>> /\ dead.resume = "none"
      /\ dead.pc = "closed" /\ dead.ask = "none"
  BY NoRunOK, NoThreadStory DEF Runs
<1>2. IInv'
  BY RestartStep DEF EInv
<1>3. ASSUME NEW q \in Requests
      PROVE  Story(run'[q], files) /\ run'[q].st.decision # "approve"
  <2>1. CASE run'[q] = dead
    BY <1>1, <2>1, NoThreadStory, MadeOK DEF Story, Warranted, Asked
  <2>2. CASE ~Live(q) /\ run'[q] = [run[q] EXCEPT !.ask = "none"]
    <3>1. run[q] \in Runs /\ Story(run[q], files) /\ run[q].pc \in {"idle", "closed"}
      BY <2>2 DEF EInv, IInv, TypeOK, Live
    <3>2. /\ run'[q].pc = run[q].pc /\ run'[q].ask = "none" /\ run'[q].st = run[q].st
          /\ run'[q].todo = run[q].todo /\ run'[q].resume = run[q].resume
      BY <2>2, <3>1 DEF Runs
    <3> QED BY <3>1, <3>2 DEF Story, Asked
  <2> QED BY <2>1, <2>2
<1>4. (\A q \in Requests : Story(run[q], files) /\ (run[q].st.decision = "approve" => Approved))'
  BY <1>3 DEF Story, Reached, Warranted, Support, Base, Asked, Entries
<1>5. (Reached(ckpt, files) /\ AttemptsAreLogged /\ Earned(task, files))'
  BY NoThreadStory DEF EInv, Reached, AttemptsAreLogged, Earned, Support, Base
<1>6. (ckpt.decision = "approve" \/ task.status = "COMPLETED" => Approved)'
  BY NoThreadStory
<1> QED BY <1>2, <1>4, <1>5, <1>6 DEF EInv

LEMMA InitTells == Init => EInv
<1> SUFFICES ASSUME Init PROVE EInv
  OBVIOUS
<1>1. IInv
  BY InitOK
<1>2. Reached(ckpt, files) /\ AttemptsAreLogged /\ Earned(task, files)
  BY NoThreadStory DEF Init, AttemptsAreLogged, Earned
<1>3. ASSUME NEW r \in Requests
      PROVE  Story(run[r], files) /\ run[r].st.decision # "approve"
  <2>1. run[r] = NoRun
    BY DEF Init
  <2> QED BY <2>1, NoRunOK, NoThreadStory, MadeOK DEF Story, Warranted, Asked
<1>4. ckpt.decision = "none" /\ task.status = "none"
  BY NoThreadStory DEF Init
<1> QED BY <1>1, <1>2, <1>3, <1>4 DEF EInv

LEMMA NextTells == EInv /\ [Next]_vars => EInv'
<1> SUFFICES ASSUME EInv, [Next]_vars PROVE EInv'
  OBVIOUS
<1>1. ASSUME NEW r \in Requests, Ask(r) PROVE EInv'
  BY <1>1, CreateTells, DecideTells DEF Ask
<1>2. ASSUME NEW r \in Requests, Step(r) PROVE EInv'
  BY <1>2, BeginTells, InitializeTells, HardwareTells, FirmwareTells, ApprovalTells,
     InterruptTells, SimulationTells, DebugTells, FinishTells, CheckTells, WriteFileTells,
     ReadManifestTells, WriteManifestTells, CommitTells, ReadThreadTells, UpdateStatusTells
     DEF Step
<1>3. ASSUME NEW r \in Requests, Fail(r) PROVE EInv'
  BY <1>3, RaiseTells DEF Fail
<1>4. CASE Restart
  BY <1>4, RestartTells
<1>5. CASE UNCHANGED vars
  <2>1. IInv'
    BY NextOK DEF EInv
  <2>2. UNCHANGED <<ckpt, files, task, run>>
    BY <1>5 DEF vars
  <2>3. (Reached(ckpt, files) /\ AttemptsAreLogged /\ Earned(task, files))'
    BY <2>2 DEF EInv, Reached, AttemptsAreLogged, Earned, Tried, Support, Base
  <2>4. Approved' = Approved
    BY <2>2 DEF Approved
  <2>5. ASSUME NEW r \in Requests
        PROVE  Story(run'[r], files') /\ (run'[r].st.decision = "approve" => Approved')
    BY <2>2, <2>4 DEF EInv
  <2>6. (\A r \in Requests : Story(run[r], files)
                               /\ (run[r].st.decision = "approve" => Approved))'
    BY <2>5 DEF Story, Reached, Warranted, Support, Base, Asked, Entries
  <2>7. (ckpt.decision = "approve" \/ task.status = "COMPLETED" => Approved)'
    BY <2>2, <2>4 DEF EInv
  <2> QED BY <2>1, <2>3, <2>6, <2>7 DEF EInv
<1> QED BY <1>1, <1>2, <1>3, <1>4, <1>5 DEF Next

\* The invariant behind the two theorems below.
THEOREM EmbeddedStory == Spec => []EInv
BY InitTells, NextTells, PTL DEF Spec

\* A completed task was approved by a request of this process and an attempt within
\* the budget compiled and simulated, whatever raced and whatever failed.
THEOREM CompletedEarned == Spec => []CompletedIsEarned
<1>1. EInv => CompletedIsEarned
  BY DEF EInv, Earned, Tried, Approved, CompletedIsEarned
<1> QED BY <1>1, EmbeddedStory, PTL

\* No log is missing below the last one, over restarts that keep the artifacts.
THEOREM AttemptsLogged == Spec => []AttemptsAreLogged
<1>1. EInv => AttemptsAreLogged
  BY DEF EInv
<1> QED BY <1>1, EmbeddedStory, PTL

-----------------------------------------------------------------------------
(***************************************************************************)
(* Clients that take turns while nothing fails, with the capabilities the  *)
(* pack declares: the record, the thread, the files and the manifest agree *)
(* whenever no request is in flight.                                       *)
(*                                                                         *)
(* The argument: one request is in flight at a time, so nothing else moves *)
(* what it works on.  Where its state stands tells which names are free,   *)
(* so that no artifact is refused and every request reaches the record.    *)
(***************************************************************************)
Orderly == /\ Clients = 1 /\ IsFiniteSet(Requests) /\ Faults = {}
           /\ \A c \in Registries : {"mcu_catalog_lookup", "esp32_compile"} \subseteq c

\* The names a state still has to use are free.
Free(st, saved) ==
  /\ st.next \in {"Initialize", "HardwareAgent"} => saved = {}
  /\ st.next = "FirmwareAgent" => st.designed /\ saved \subseteq {<<"hardware_design", 0>>}
  /\ st.next \notin {"Simulation", "DebugAgent", "Finish", "END"} => st.iteration = 0
  /\ st.next \in {"Approval", "Simulation", "DebugAgent"} =>
       \A n \in 0 .. MaxFix + 1 :
         /\ n > st.iteration => <<"firmware", n>> \notin saved
         /\ n > st.iteration + (IF st.next = "DebugAgent" THEN 1 ELSE 0) =>
              {<<"compile", n>>, <<"simulation", n>>} \intersect saved = {}

\* A node names one artifact or two, none of which is there yet.
Due(x, saved) ==
  /\ Len(x.todo) <= 2 /\ (Len(x.todo) = 2 => x.todo[1] # x.todo[2])
  /\ x.pc \in {"saving", "writing"} => Entries(x.todo) \intersect saved = {}
  /\ x.pc \in {"listing", "recording"} => Entries(Tail(x.todo)) \intersect saved = {}

\* The thread waits for a person or is over.
Parked(st, saved) == \/ st.next = "Approval" /\ Free(st, saved)
                     \/ st.next = "END" /\ st.vstate \in {"PASSED", "FAILED"}

\* The request in flight and what it finds: the checkpoint, the files and the manifest.
OnCourse(x, st, saved, listed) ==
  /\ x.pc = "accepted" =>
       IF x.ask = "create" THEN saved = {}
       ELSE x.ask # "none" /\ st.next = "Approval" /\ Free(st, saved)
  /\ x.pc = "running" => x.st = st
  /\ x.pc \in {"running", "saving", "writing", "listing", "recording"} =>
       /\ x.st.next \notin {"none", "END"}
       /\ Free(x.st, saved \union Entries(x.todo)) /\ Due(x, saved)
  /\ x.pc \in {"syncing", "reporting"} => Parked(st, saved)
  /\ x.pc = "reporting" => x.st = st
  /\ IF x.pc \in {"listing", "recording"} THEN saved = listed \union {Head(x.todo)}
                                          ELSE saved = listed
  /\ x.pc = "recording" => x.seen = listed

Untouched == task.status = "none" /\ ~issued /\ files = {}
Settled   == /\ issued /\ Parked(ckpt, files)
             /\ task.status = IF ckpt.next = "Approval" THEN "AWAITING_APPROVAL"
                              ELSE IF ckpt.vstate = "PASSED" THEN "COMPLETED" ELSE "FAILED"

\* The strengthening that is inductive when clients take turns and nothing fails.
QInv == /\ Orderly /\ IInv
        /\ \A q, r \in Requests : Live(q) /\ Live(r) => q = r
        /\ \A r \in Requests : Live(r) => OnCourse(run[r], ckpt, files, manifest) /\ issued
        /\ (\A r \in Requests : ~Live(r)) => files = manifest /\ (Untouched \/ Settled)

\* Whoever may ask is alone.
LEMMA Alone ==
  ASSUME Orderly, NEW r \in Requests, MayAsk(r)
  PROVE  \A q \in Requests : ~Live(q)
<1> DEFINE live == {q \in Requests : Live(q)}
<1>1. IsFiniteSet(live)
  BY FS_Subset DEF Orderly
<1>2. Cardinality(live) \in Nat /\ Cardinality(live) < 1
  BY <1>1, FS_CardinalityType DEF MayAsk, Orderly
<1>3. live = {}
  BY <1>1, <1>2, FS_EmptySet
<1> QED BY <1>3

\* A step of the request in flight, or of the one that becomes it.
LEMMA CourseOK ==
  ASSUME QInv, IInv', NEW r \in Requests, NEW x \in Runs, Update(r, x),
         Live(r) \/ \A q \in Requests : ~Live(q),
         x.pc \notin {"idle", "closed"} => OnCourse(x, ckpt', files', manifest') /\ issued',
         x.pc \in {"idle", "closed"} => files' = manifest' /\ Settled'
  PROVE  QInv'
<1>1. run'[r] = x /\ \A q \in Requests : q # r => run'[q] = run[q]
  BY DEF Update, QInv, IInv, TypeOK
<1>2. \A q \in Requests : q # r => ~Live(q)
  BY DEF QInv
<1>3. \A q \in Requests : q # r => ~Live(q)'
  BY <1>1, <1>2 DEF Live
<1>4. Live(r)' <=> x.pc \notin {"idle", "closed"}
  BY <1>1 DEF Live
<1>5. OnCourse(x, ckpt', files', manifest') => OnCourse(run[r], ckpt, files, manifest)'
  BY <1>1
<1>6. Orderly'
  BY DEF QInv, Orderly
<1> QED BY <1>3, <1>4, <1>5, <1>6 DEF QInv

LEMMA FreeNothing == /\ \A st : st.iteration = 0 /\ st.next = "Initialize" => Free(st, {})
                     /\ \A st, saved : st.next \in {"Finish", "END"} => Free(st, saved)
BY DEF Free

\* A request in flight leaves the ones that are not as they are.
LEMMA MoveOK ==
  ASSUME QInv, IInv', NEW r \in Requests, Live(r), NEW x \in Runs, Update(r, x),
         x.pc \notin {"idle", "closed"}, OnCourse(x, ckpt', files', manifest'), issued' = issued
  PROVE  QInv'
<1>1. issued'
  BY DEF QInv
<1> QED BY <1>1, CourseOK

LEMMA QCreate == ASSUME QInv, NEW r \in Requests, CreateTask(r) PROVE QInv'
<1> DEFINE x == [NoRun EXCEPT !.pc = "accepted", !.ask = "create"]
<1>1. IInv' /\ \A q \in Requests : ~Live(q)
  BY CreateStep, Alone DEF QInv, CreateTask
<1>2. files = manifest /\ files = {}
  BY <1>1 DEF QInv, Untouched, Settled, CreateTask
<1>3. x \in Runs /\ x.pc = "accepted" /\ x.ask = "create"
  BY NoRunOK DEF Runs, Phases, Asks
<1>4. Update(r, x) /\ UNCHANGED <<files, manifest>> /\ issued'
  BY DEF CreateTask
<1> HIDE DEF x
<1>5. OnCourse(x, ckpt', files', manifest')
  BY <1>2, <1>3, <1>4 DEF OnCourse
<1> QED BY <1>1, <1>3, <1>4, <1>5, CourseOK

LEMMA QDecide ==
  ASSUME QInv, NEW r \in Requests, NEW decision \in {"approve", "reject"},
         DecideApproval(r, decision)
  PROVE  QInv'
<1> DEFINE x == [NoRun EXCEPT !.pc = "accepted", !.ask = decision]
<1>1. IInv' /\ \A q \in Requests : ~Live(q)
  BY DecideStep, Alone DEF QInv, DecideApproval
<1>2. files = manifest /\ ckpt.next = "Approval" /\ Free(ckpt, files) /\ issued
  BY <1>1 DEF QInv, Untouched, Settled, Parked, DecideApproval
<1>3. x \in Runs /\ x.pc = "accepted" /\ x.ask = decision
  BY NoRunOK DEF Runs, Phases, Asks
<1>4. Update(r, x) /\ UNCHANGED <<files, manifest, ckpt, issued>>
  BY DEF DecideApproval
<1> HIDE DEF x
<1>5. OnCourse(x, ckpt', files', manifest')
  BY <1>2, <1>3, <1>4 DEF OnCourse, Free
<1> QED BY <1>1, <1>2, <1>3, <1>4, <1>5, CourseOK

LEMMA QBegin == ASSUME QInv, NEW r \in Requests, Begin(r) PROVE QInv'
<1>1. /\ IInv' /\ Live(r) /\ OnCourse(run[r], ckpt, files, manifest) /\ run[r] \in Runs /\ run[r].pc = "accepted"
      /\ run[r].todo = <<>> /\ ckpt \in Threads
  BY BeginStep DEF QInv, IInv, TypeOK, Begin, Live, Fits
<1>2. Entries(<<>>) = {} /\ Len(<<>>) = 0
  BY MadeOK
<1>3. files = manifest
  BY <1>1 DEF OnCourse
<1>4. CASE run[r].ask = "create"
  <2> DEFINE st == [NoThread EXCEPT !.next = "Initialize"]
             x  == [run[r] EXCEPT !.pc = "running", !.st = st]
  <2>1. st \in Threads /\ st.next = "Initialize" /\ st.iteration = 0
    BY NoRunOK DEF Threads, Nodes, NoThread
  <2>2. /\ ckpt' = st /\ Update(r, x) /\ UNCHANGED <<files, manifest, issued>>
        /\ files = {}
    BY <1>1, <1>4 DEF Begin, OnCourse
  <2> HIDE DEF st
  <2>3. x \in Runs /\ x.pc = "running" /\ x.st = st /\ x.todo = <<>>
    BY <1>1, <2>1 DEF Runs, Phases
  <2> HIDE DEF x
  <2>4. OnCourse(x, ckpt', files', manifest')
    BY <1>2, <1>3, <2>1, <2>2, <2>3 DEF OnCourse, Free, Due
  <2> QED BY <1>1, <2>2, <2>3, <2>4, MoveOK
<1>5. CASE run[r].ask # "create"
  <2> DEFINE x == [run[r] EXCEPT
             !.pc = IF ckpt.next = "END" THEN "syncing" ELSE "running",
             !.st = ckpt,
             !.resume = IF ckpt.next = "Approval" THEN run[r].ask ELSE "none"]
  <2>1. /\ ckpt.next = "Approval" /\ Free(ckpt, files)
        /\ Update(r, x) /\ UNCHANGED <<ckpt, files, manifest, issued>>
        /\ run[r].ask \in Decisions
    BY <1>1, <1>5 DEF Begin, OnCourse, Runs, Asks, Decisions
  <2>2. x \in Runs /\ x.pc = "running" /\ x.st = ckpt /\ x.todo = <<>>
    BY <1>1, <2>1 DEF Runs, Phases
  <2> HIDE DEF x
  <2>3. OnCourse(x, ckpt', files', manifest')
    BY <1>2, <1>3, <2>1, <2>2 DEF OnCourse, Free, Due
  <2> QED BY <1>1, <2>1, <2>2, <2>3, MoveOK
<1> QED BY <1>4, <1>5

-----------------------------------------------------------------------------
\* Where a node begins.
LEMMA QAt ==
  ASSUME QInv, NEW r \in Requests, NEW node, At(r, node)
  PROVE  /\ Live(r) /\ run[r] \in Runs /\ run[r].st \in Threads /\ run[r].st.next = node
         /\ run[r].pc = "running" /\ run[r].todo = <<>>
         /\ Free(run[r].st, files) /\ files = manifest /\ capabilities \in Registries
<1>1. /\ run[r] \in Runs /\ run[r].todo = <<>> /\ run[r].pc = "running" /\ Live(r)
      /\ run[r].st.next = node /\ OnCourse(run[r], ckpt, files, manifest) /\ capabilities \in Registries
  BY DEF QInv, IInv, TypeOK, At, Live, Fits
<1>2. files \union Entries(run[r].todo) = files
  BY <1>1, MadeOK
<1> QED BY <1>1, <1>2 DEF OnCourse, Runs

\* The capabilities are all there.
LEMMA Equipped == QInv => {"mcu_catalog_lookup", "esp32_compile"} \subseteq capabilities
BY DEF QInv, Orderly, IInv, TypeOK

\* What a node returns: a state to go on with, and at most two names that are not used.
Passed(st, names, saved) ==
  /\ st.next # "none" /\ (st.next = "END" => names = <<>> /\ st.vstate \in {"PASSED", "FAILED"})
  /\ Len(names) <= 2 /\ (Len(names) = 2 => names[1] # names[2])
  /\ Entries(names) \intersect saved = {} /\ Free(st, saved \union Entries(names))

\* A node goes on to a state whose names are free, once its own are used.
LEMMA QReturn ==
  ASSUME QInv, IInv', NEW r \in Requests, NEW node, At(r, node),
         NEW st \in Threads, NEW names \in Seq(Names), Return(r, st, names), Passed(st, names, files)
  PROVE  QInv'
<1>1. Live(r) /\ run[r] \in Runs /\ run[r].todo = <<>> /\ files = manifest
  BY QAt
<1>2. Entries(<<>>) = {} /\ Len(<<>>) = 0
  BY MadeOK
<1> USE DEF Passed
<1>3. CASE names = <<>> /\ Put(r, st)
  <2> DEFINE x == [run[r] EXCEPT !.st = st,
                     !.pc = IF st.next = "END" THEN "syncing" ELSE "running"]
  <2>1. /\ x \in Runs /\ x.st = st /\ x.todo = <<>>
        /\ x.pc = IF st.next = "END" THEN "syncing" ELSE "running"
    BY <1>1 DEF Runs, Phases
  <2>2. Update(r, x) /\ ckpt' = st /\ UNCHANGED <<issued, files, manifest>>
    BY <1>3 DEF Put
  <2>3. Free(st, files) /\ files \union Entries(<<>>) = files
    BY <1>2, <1>3
  <2> HIDE DEF x
  <2>4. OnCourse(x, ckpt', files', manifest')
    BY <1>1, <1>2, <2>1, <2>2, <2>3 DEF OnCourse, Free, Due, Parked
  <2> QED BY <1>1, <2>1, <2>2, <2>4, MoveOK
<1>4. CASE /\ names # <<>>
           /\ Update(r, [run[r] EXCEPT !.pc = "saving", !.st = st, !.todo = names])
           /\ UNCHANGED <<capabilities, task, ckpt, issued, files, manifest>>
  <2> DEFINE x == [run[r] EXCEPT !.pc = "saving", !.st = st, !.todo = names]
  <2>1. x \in Runs /\ x.st = st /\ x.todo = names /\ x.pc = "saving"
    BY <1>1 DEF Runs, Phases
  <2>2. Update(r, x) /\ UNCHANGED <<issued, files, manifest>>
    BY <1>4
  <2> HIDE DEF x
  <2>3. OnCourse(x, ckpt', files', manifest')
    BY <1>1, <1>4, <2>1, <2>2 DEF OnCourse, Due
  <2> QED BY <1>1, <2>1, <2>2, <2>3, MoveOK
<1> QED BY <1>3, <1>4 DEF Return

\* A node that saves nothing, and one that saves one artifact.
LEMMA QPass ==
  ASSUME QInv, IInv', NEW r \in Requests, NEW node, At(r, node),
         NEW st \in Threads, Return(r, st, <<>>), st.next # "none",
         st.next = "END" => st.vstate \in {"PASSED", "FAILED"}, Free(st, files)
  PROVE  QInv'
<1> DEFINE names == <<>>
<1>1. /\ names \in Seq(Names) /\ Len(names) = 0 /\ Entries(names) = {} /\ names = <<>>
      /\ Return(r, st, names)
  BY MadeOK
<1> HIDE DEF names
<1>2. files \union Entries(names) = files /\ Entries(names) \intersect files = {}
  BY <1>1
<1>3. Passed(st, names, files)
  BY <1>1, <1>2 DEF Passed
<1> QED BY <1>1, <1>3, QReturn

LEMMA QSave ==
  ASSUME QInv, IInv', NEW r \in Requests, NEW node, At(r, node),
         NEW st \in Threads, NEW name \in Names, Return(r, st, <<name>>),
         st.next \notin {"none", "END"}, name \notin files, Free(st, files \union {name})
  PROVE  QInv'
<1> DEFINE names == <<name>>
<1>1. names \in Seq(Names) /\ Len(names) = 1 /\ Return(r, st, names)
  OBVIOUS
<1>2. Entries(names) = {name}
  BY DEF Entries
<1> HIDE DEF names
<1>3. Passed(st, names, files)
  BY <1>1, <1>2 DEF Passed
<1> QED BY <1>1, <1>3, QReturn

LEMMA QInitialize == ASSUME QInv, NEW r \in Requests, Initialize(r) PROVE QInv'
<1> DEFINE st == [NoThread EXCEPT !.next = "HardwareAgent", !.vstate = "CREATED"]
<1>1. At(r, "Initialize") /\ Return(r, st, <<>>) /\ IInv'
  BY InitializeStep DEF Initialize, QInv
<1>2. st \in Threads /\ st.next = "HardwareAgent" /\ st.iteration = 0
  BY NoRunOK DEF Threads, Nodes, ValidationStates, NoThread
<1>3. files = {}
  BY <1>1, QAt DEF Free
<1> HIDE DEF st
<1>4. Free(st, files)
  BY <1>2, <1>3 DEF Free
<1> QED BY <1>1, <1>2, <1>4, QPass

LEMMA QHardware == ASSUME QInv, NEW r \in Requests, HardwareAgent(r) PROVE QInv'
<1> DEFINE old == run[r].st
           st == [old EXCEPT !.next = "FirmwareAgent", !.designed = TRUE, !.vstate = "CREATED"]
           design == <<"hardware_design", 0>>
<1>1. At(r, "HardwareAgent") /\ IInv'
  BY HardwareStep DEF HardwareAgent, QInv
<1>2. old \in Threads /\ old.iteration = 0 /\ files = {}
  BY <1>1, QAt DEF Free
<1>3. Return(r, st, <<design>>)
  BY <1>2, Equipped DEF HardwareAgent, Threads
<1>4. st \in Threads /\ st.next = "FirmwareAgent" /\ st.designed /\ st.iteration = 0
  BY <1>2 DEF Threads, Nodes, ValidationStates
<1>5. design \in Names /\ design \notin files
  BY <1>2, FixAssumption DEF Names
<1> HIDE DEF st, old
<1>6. Free(st, files \union {design})
  BY <1>2, <1>4 DEF Free
<1> HIDE DEF design
<1> QED BY <1>1, <1>3, <1>4, <1>5, <1>6, QSave

LEMMA QFirmware == ASSUME QInv, NEW r \in Requests, FirmwareAgent(r) PROVE QInv'
<1> DEFINE old == run[r].st
           st == [old EXCEPT !.firmware = 1, !.vstate = "GENERATED", !.next = "Approval"]
           source == <<"firmware", 0>>
<1>1. At(r, "FirmwareAgent") /\ IInv'
  BY FirmwareStep DEF FirmwareAgent, QInv
<1>2. old \in Threads /\ old.iteration = 0 /\ old.designed /\ files \subseteq {<<"hardware_design", 0>>}
  BY <1>1, QAt DEF Free
<1>3. Return(r, st, <<source>>)
  BY <1>2 DEF FirmwareAgent
<1>4. st \in Threads /\ st.next = "Approval" /\ st.iteration = 0
  BY <1>2, MadeOK DEF Threads, Nodes, ValidationStates
<1>5. source \in Names /\ source \notin files
  BY <1>2, FixAssumption DEF Names
<1> HIDE DEF st, old
<1>6. Free(st, files \union {source})
  BY <1>2, <1>4 DEF Free
<1> HIDE DEF source
<1> QED BY <1>1, <1>3, <1>4, <1>5, <1>6, QSave

LEMMA QApproval == ASSUME QInv, NEW r \in Requests, Approval(r) PROVE QInv'
<1> DEFINE old == run[r].st
           st == [old EXCEPT !.decision = run[r].resume, !.next = "Simulation"]
<1>1. At(r, "Approval") /\ IInv' /\ Return(r, st, <<>>)
  BY ApprovalStep DEF Approval, QInv
<1>2. old \in Threads /\ old.next = "Approval" /\ Free(old, files) /\ run[r] \in Runs
  BY <1>1, QAt
<1>3. st \in Threads /\ st.next = "Simulation" /\ st.iteration = old.iteration
  BY <1>2 DEF Threads, Nodes, Runs
<1> HIDE DEF st, old
<1>4. Free(st, files)
  BY <1>2, <1>3 DEF Free
<1> QED BY <1>1, <1>3, <1>4, QPass

LEMMA QInterrupt == ASSUME QInv, NEW r \in Requests, Interrupt(r) PROVE QInv'
<1> DEFINE x == [run[r] EXCEPT !.pc = "syncing"]
<1>1. /\ At(r, "Approval") /\ IInv' /\ Update(r, x)
      /\ UNCHANGED <<ckpt, issued, files, manifest>>
  BY InterruptStep DEF Interrupt, QInv
<1>2. /\ Live(r) /\ run[r] \in Runs /\ files = manifest /\ run[r].pc = "running"
      /\ run[r].st.next = "Approval" /\ Free(run[r].st, files)
  BY <1>1, QAt
<1>3. run[r].st = ckpt
  BY <1>2 DEF QInv, OnCourse
<1>4. x \in Runs /\ x.pc = "syncing"
  BY <1>2 DEF Runs, Phases
<1> HIDE DEF x
<1>5. OnCourse(x, ckpt', files', manifest')
  BY <1>1, <1>2, <1>3, <1>4 DEF OnCourse, Parked, Free
<1> QED BY <1>1, <1>2, <1>4, <1>5, MoveOK

LEMMA QSimulation == ASSUME QInv, NEW r \in Requests, Simulation(r) PROVE QInv'
<1> DEFINE old == run[r].st
           attempt == old.iteration + 1
           failed == [old EXCEPT !.vstate = "FAILED"]
           compiled == <<"compile", attempt>>
           simulated == <<"simulation", attempt>>
           both == <<compiled, simulated>>
<1>1. At(r, "Simulation") /\ IInv'
  BY SimulationStep DEF Simulation, QInv
<1>2. old \in Threads /\ old.next = "Simulation" /\ Free(old, files)
  BY <1>1, QAt
<1>3. attempt \in 1 .. MaxFix + 1 /\ old.iteration \in 0 .. MaxFix
  BY <1>2, FixAssumption DEF Threads
<1>4. \A n \in 0 .. MaxFix + 1 : n > old.iteration =>
        /\ <<"firmware", n>> \notin files
        /\ <<"compile", n>> \notin files /\ <<"simulation", n>> \notin files
  BY <1>2, <1>3 DEF Free
<1>5. /\ compiled \in Names /\ simulated \in Names /\ compiled # simulated
      /\ compiled \notin files /\ simulated \notin files
  <2>1. attempt \in 0 .. MaxFix + 1 /\ attempt > old.iteration
    BY <1>3, FixAssumption
  <2>2. /\ <<"compile", attempt>> \in Names /\ <<"simulation", attempt>> \in Names
        /\ <<"compile", attempt>> # <<"simulation", attempt>>
    BY <2>1 DEF Names
  <2>3. <<"compile", attempt>> \notin files /\ <<"simulation", attempt>> \notin files
    BY <1>4, <2>1
  <2> QED BY <2>2, <2>3
<1>6. ASSUME NEW st, NEW saved, st.iteration = old.iteration, st.next \in {"Finish", "DebugAgent"},
             saved \subseteq files \union {compiled, simulated}
      PROVE  Free(st, saved)
  <2>1. CASE st.next = "Finish"
    BY <2>1, FreeNothing
  <2>2. CASE st.next = "DebugAgent"
    <3>1. \A n \in 0 .. MaxFix + 1 : n > old.iteration => <<"firmware", n>> \notin saved
      BY <1>4, <1>6
    <3>2. ASSUME NEW n \in 0 .. MaxFix + 1, n > old.iteration + 1
          PROVE  <<"compile", n>> \notin saved /\ <<"simulation", n>> \notin saved
      <4>1. n > old.iteration /\ n # attempt
        BY <1>3, <3>2
      <4>2. <<"compile", n>> \notin files /\ <<"simulation", n>> \notin files
        BY <1>4, <4>1
      <4>3. <<"compile", n>> \notin {compiled, simulated} /\ <<"simulation", n>> \notin {compiled, simulated}
        BY <4>1
      <4> QED BY <1>6, <4>2, <4>3
    <3>3. \A n \in 0 .. MaxFix + 1 : n > old.iteration + 1 => {<<"compile", n>>, <<"simulation", n>>} \intersect saved = {}
      BY <3>2
    <3> QED BY <1>6, <2>2, <3>1, <3>3 DEF Free
  <2> QED BY <1>6, <2>1, <2>2
<1>7. \/ Return(r, Routed(failed), <<>>)
      \/ Return(r, Routed(CompileFailed(old)), <<compiled>>)
      \/ \E verdict \in Verdicts \ {"none"} : Return(r, Routed(Simulated(old, verdict)), both)
  BY DEF Simulation
<1>8. CASE Return(r, Routed(failed), <<>>)
  <2>1. failed \in Threads /\ failed.iteration = old.iteration
    BY <1>2 DEF Threads, ValidationStates
  <2> HIDE DEF failed, compiled, simulated
  <2>2. Free(Routed(failed), files)
    BY <1>6, <2>1, RoutedOK
  <2>3. Routed(failed) \in Threads /\ Routed(failed).next \in {"Finish", "DebugAgent"}
    BY <2>1, RoutedOK
  <2> QED BY <1>1, <1>8, <2>2, <2>3, QPass
<1>9. CASE Return(r, Routed(CompileFailed(old)), <<compiled>>)
  <2> DEFINE st == CompileFailed(old)
  <2>1. st \in Threads /\ st.iteration = old.iteration
    BY <1>2, MadeOK DEF CompileFailed, Threads, ValidationStates
  <2>2. Return(r, Routed(st), <<compiled>>)
    BY <1>9
  <2> HIDE DEF compiled, simulated, st
  <2>3. Routed(st) \in Threads /\ Routed(st).next \in {"Finish", "DebugAgent"}
    BY <2>1, RoutedOK
  <2>4. Free(Routed(st), files \union {compiled})
    BY <1>6, <2>1, RoutedOK
  <2> QED BY <1>1, <1>5, <2>2, <2>3, <2>4, QSave
<1>10. ASSUME NEW verdict \in Verdicts \ {"none"}, Return(r, Routed(Simulated(old, verdict)), both)
       PROVE  QInv'
  <2> DEFINE st == Simulated(old, verdict)
  <2>1. st \in Threads /\ st.iteration = old.iteration
    BY <1>2 DEF Simulated, Threads, ValidationStates, Verdicts
  <2>2. Return(r, Routed(st), both)
    BY <1>10
  <2> HIDE DEF compiled, simulated, st
  <2>3. Routed(st) \in Threads /\ Routed(st).next \in {"Finish", "DebugAgent"}
    BY <2>1, RoutedOK
  <2>4. /\ both \in Seq(Names) /\ Len(both) = 2 /\ DOMAIN both = {1, 2}
        /\ both[1] = compiled /\ both[2] = simulated
    BY <1>5
  <2> HIDE DEF both
  <2>5. Entries(both) = {compiled, simulated}
    BY <2>4 DEF Entries
  <2>6. Free(Routed(st), files \union Entries(both))
    BY <1>6, <2>1, <2>5, RoutedOK
  <2>7. Passed(Routed(st), both, files)
    BY <1>5, <2>3, <2>4, <2>5, <2>6 DEF Passed
  <2> QED BY <1>1, <2>2, <2>3, <2>4, <2>7, QReturn
<1> QED BY <1>7, <1>8, <1>9, <1>10

LEMMA QDebug == ASSUME QInv, NEW r \in Requests, DebugAgent(r) PROVE QInv'
<1> DEFINE old == run[r].st
           retried == [old EXCEPT !.firmware = old.iteration + 2, !.iteration = old.iteration + 1,
                                  !.vstate = "RETRYING", !.next = "Simulation"]
           spent == [old EXCEPT !.firmware = old.iteration + 2, !.vstate = "FAILED",
                                !.next = "Finish"]
           stuck == [old EXCEPT !.vstate = "FAILED", !.next = "Finish"]
           source == <<"firmware", old.iteration + 1>>
<1>1. At(r, "DebugAgent") /\ IInv'
  BY DebugStep DEF DebugAgent, QInv
<1>2. /\ old \in Threads /\ old.next = "DebugAgent" /\ Free(old, files)
      /\ old.iteration \in 0 .. MaxFix
  BY <1>1, QAt DEF Threads
<1>3. /\ old.iteration + 1 \in 0 .. MaxFix + 1 /\ old.iteration + 1 > old.iteration
      /\ old.iteration + 2 \in Versions
  BY <1>2, FixAssumption DEF Versions
<1>4. \A n \in 0 .. MaxFix + 1 :
        /\ n > old.iteration => <<"firmware", n>> \notin files
        /\ n > old.iteration + 1 => {<<"compile", n>>, <<"simulation", n>>} \intersect files = {}
  BY <1>2 DEF Free
<1>5. source \in Names /\ source \notin files
  BY <1>3, <1>4 DEF Names
<1>6. /\ spent \in Threads /\ spent.next = "Finish"
      /\ stuck \in Threads /\ stuck.next = "Finish"
  BY <1>2, <1>3 DEF Threads, Nodes, ValidationStates
<1>7. ASSUME MayRetry(old)
      PROVE  retried \in Threads /\ retried.next = "Simulation" /\ retried.iteration = old.iteration + 1
  <2>1. old.iteration + 1 \in 0 .. MaxFix
    BY <1>2, <1>7, FixAssumption DEF MayRetry
  <2> QED BY <1>2, <1>3, <2>1 DEF Threads, Nodes, ValidationStates
<1>8. \/ MayRetry(old) /\ Return(r, retried, <<source>>)
      \/ Return(r, spent, <<>>) \/ Return(r, stuck, <<>>)
  BY <1>2 DEF DebugAgent, Threads
<1> HIDE DEF retried, spent, stuck
<1>9. CASE MayRetry(old) /\ Return(r, retried, <<source>>)
  <2>1. ASSUME NEW n \in 0 .. MaxFix + 1, n > old.iteration + 1
        PROVE  /\ <<"firmware", n>> \notin files \union {source}
               /\ {<<"compile", n>>, <<"simulation", n>>} \intersect (files \union {source}) = {}
    <3>1. n > old.iteration /\ <<"firmware", n>> # source
      BY <1>2, <2>1
    <3>2. /\ <<"firmware", n>> \notin files
          /\ {<<"compile", n>>, <<"simulation", n>>} \intersect files = {}
      BY <1>4, <2>1, <3>1
    <3>3. <<"compile", n>> # source /\ <<"simulation", n>> # source
      OBVIOUS
    <3> QED BY <3>1, <3>2, <3>3
  <2> HIDE DEF source
  <2> DEFINE saved == files \union {source}
             k == retried.iteration
  <2>2. \A n \in 0 .. MaxFix + 1 : n > k =>
          <<"firmware", n>> \notin saved /\ {<<"compile", n>>, <<"simulation", n>>} \intersect saved = {}
    BY <1>7, <1>9, <2>1
  <2>3. k \in Int /\ k + 0 = k /\ retried.next = "Simulation"
    BY <1>7, <1>9 DEF Threads
  <2>4. Free(retried, saved)
    BY <2>2, <2>3 DEF Free
  <2> QED BY <1>1, <1>5, <1>7, <1>9, <2>4, QSave
<1>10. Free(spent, files) /\ Free(stuck, files)
  BY <1>6, FreeNothing
<1> QED BY <1>1, <1>6, <1>8, <1>9, <1>10, QPass

LEMMA QFinish == ASSUME QInv, NEW r \in Requests, Finish(r) PROVE QInv'
<1> DEFINE old == run[r].st
           over == [old EXCEPT !.next = "END",
                               !.vstate = IF old.vstate = "PASSED" THEN "PASSED" ELSE "FAILED"]
<1>1. At(r, "Finish") /\ IInv' /\ Return(r, over, <<>>)
  BY FinishStep DEF Finish, QInv
<1>2. old \in Threads
  BY <1>1, QAt
<1>3. over \in Threads /\ over.next = "END" /\ over.vstate \in {"PASSED", "FAILED"}
  BY <1>2 DEF Threads, Nodes, ValidationStates
<1> HIDE DEF over
<1>4. Free(over, files)
  BY <1>3, FreeNothing
<1> QED BY <1>1, <1>3, <1>4, QPass

-----------------------------------------------------------------------------
\* Saving: no name is taken, and the manifest is behind by what is being listed.
LEMMA TailFresh ==
  ASSUME NEW S, NEW s \in Seq(S), s # <<>>, Len(s) <= 2, Len(s) = 2 => s[1] # s[2]
  PROVE  /\ Entries(s) = {Head(s)} \union Entries(Tail(s)) /\ Head(s) \notin Entries(Tail(s))
         /\ Len(Tail(s)) <= 1 /\ Tail(s) \in Seq(S)
<1>1. Len(s) \in Nat \ {0} /\ Head(s) = s[1] /\ DOMAIN s = 1 .. Len(s)
  BY EmptySeq
<1>2. Tail(s) \in Seq(S) /\ Len(Tail(s)) = Len(s) - 1
      /\ \A i \in 1 .. Len(s) - 1 : Tail(s)[i] = s[i + 1]
  BY <1>1
<1>3. Head(s) \in Entries(s)
  BY <1>1 DEF Entries
<1>4. ASSUME NEW i \in DOMAIN Tail(s) PROVE Tail(s)[i] # Head(s)
  <2>1. i = 1 /\ Len(s) = 2 /\ Tail(s)[i] = s[2]
    BY <1>1, <1>2
  <2> QED BY <1>1, <2>1
<1>5. Head(s) \notin Entries(Tail(s))
  BY <1>4 DEF Entries
<1> QED BY <1>1, <1>2, <1>3, <1>5, HeadAndTail, TailEntries

\* What a run that saves stands on.
LEMMA QSaves ==
  ASSUME QInv, NEW r \in Requests, run[r].pc \in {"saving", "writing", "listing", "recording"}
  PROVE  /\ Live(r) /\ run[r] \in Runs /\ run[r].todo \in Seq(Names) /\ run[r].st \in Threads
         /\ OnCourse(run[r], ckpt, files, manifest)
         /\ run[r].st.next \notin {"none", "END"}
         /\ Free(run[r].st, files \union Entries(run[r].todo)) /\ Due(run[r], files)
         /\ run[r].pc \in {"writing", "listing", "recording"} => run[r].todo # <<>>
         /\ run[r].todo # <<>> =>
              /\ Entries(run[r].todo) = {Head(run[r].todo)} \union Entries(Tail(run[r].todo))
              /\ Head(run[r].todo) \notin Entries(Tail(run[r].todo))
              /\ Len(Tail(run[r].todo)) <= 1 /\ Tail(run[r].todo) \in Seq(Names)
<1>1. Live(r) /\ run[r] \in Runs /\ Fits(run[r], files) /\ OnCourse(run[r], ckpt, files, manifest)
  BY DEF QInv, IInv, TypeOK, Live
<1>2. run[r].todo \in Seq(Names) /\ run[r].st \in Threads
  BY <1>1 DEF Runs
<1>3. /\ run[r].st.next \notin {"none", "END"}
      /\ Free(run[r].st, files \union Entries(run[r].todo)) /\ Due(run[r], files)
      /\ run[r].pc \in {"writing", "listing", "recording"} => run[r].todo # <<>>
  BY <1>1 DEF OnCourse, Fits
<1>4. Len(run[r].todo) <= 2 /\ (Len(run[r].todo) = 2 => run[r].todo[1] # run[r].todo[2])
  BY <1>3 DEF Due
<1> QED BY <1>1, <1>2, <1>3, <1>4, TailFresh

LEMMA QCheck == ASSUME QInv, NEW r \in Requests, CheckName(r) PROVE QInv'
<1> DEFINE x == [run[r] EXCEPT !.pc = "writing"]
<1>1. IInv' /\ run[r].pc = "saving" /\ run[r].todo # <<>>
  BY CheckStep DEF QInv, CheckName
<1>2. /\ Live(r) /\ run[r] \in Runs /\ Due(run[r], files) /\ OnCourse(run[r], ckpt, files, manifest)
      /\ Head(run[r].todo) \in Entries(run[r].todo)
  BY <1>1, QSaves
<1>3. Head(run[r].todo) \notin files
  BY <1>1, <1>2 DEF Due
<1>4. Update(r, x) /\ UNCHANGED <<ckpt, issued, files, manifest>>
  BY <1>3 DEF CheckName
<1>5. x \in Runs /\ x.pc = "writing" /\ x.todo = run[r].todo /\ x.st = run[r].st
  BY <1>2 DEF Runs, Phases
<1> HIDE DEF x
<1>6. Due(x, files)
  BY <1>1, <1>2, <1>5 DEF Due
<1>7. OnCourse(x, ckpt', files', manifest')
  BY <1>1, <1>2, <1>4, <1>5, <1>6 DEF OnCourse
<1> QED BY <1>1, <1>2, <1>4, <1>5, <1>7, MoveOK

LEMMA QWriteFile == ASSUME QInv, NEW r \in Requests, WriteFile(r) PROVE QInv'
<1> DEFINE x == [run[r] EXCEPT !.pc = "listing"]
           todo == run[r].todo
<1>1. /\ IInv' /\ run[r].pc = "writing" /\ Update(r, x) /\ UNCHANGED <<ckpt, issued, manifest>>
      /\ files' = files \union {Head(todo)}
  BY WriteFileStep DEF QInv, WriteFile
<1>2. /\ Live(r) /\ run[r] \in Runs /\ Due(run[r], files) /\ OnCourse(run[r], ckpt, files, manifest)
      /\ run[r].st.next \notin {"none", "END"} /\ Free(run[r].st, files \union Entries(todo))
      /\ Entries(todo) = {Head(todo)} \union Entries(Tail(todo))
      /\ Head(todo) \notin Entries(Tail(todo))
  BY <1>1, QSaves
<1>3. x \in Runs /\ x.pc = "listing" /\ x.todo = todo /\ x.st = run[r].st
  BY <1>2 DEF Runs, Phases
<1>4. files = manifest
  BY <1>1, <1>2 DEF OnCourse
<1>5. Entries(todo) \intersect files = {} /\ Len(todo) <= 2 /\ (Len(todo) = 2 => todo[1] # todo[2])
  BY <1>1, <1>2 DEF Due
<1>6. Entries(Tail(todo)) \intersect files' = {} /\ files' \union Entries(todo) = files \union Entries(todo)
  BY <1>1, <1>2, <1>5
<1>7. Free(x.st, files' \union Entries(x.todo))
  BY <1>2, <1>3, <1>6
<1> HIDE DEF x
<1>8. Due(x, files')
  BY <1>3, <1>5, <1>6 DEF Due
<1>9. OnCourse(x, ckpt', files', manifest')
  BY <1>1, <1>2, <1>3, <1>4, <1>7, <1>8 DEF OnCourse
<1> QED BY <1>1, <1>2, <1>3, <1>9, MoveOK

LEMMA QReadManifest == ASSUME QInv, NEW r \in Requests, ReadManifest(r) PROVE QInv'
<1> DEFINE x == [run[r] EXCEPT !.pc = "recording", !.seen = manifest]
<1>1. /\ IInv' /\ run[r].pc = "listing" /\ Update(r, x) /\ UNCHANGED <<ckpt, issued, files, manifest>>
  BY ReadManifestStep DEF QInv, ReadManifest
<1>2. /\ Live(r) /\ run[r] \in Runs /\ Due(run[r], files) /\ OnCourse(run[r], ckpt, files, manifest)
      /\ manifest \subseteq Names
  BY <1>1, QSaves DEF QInv, IInv, TypeOK
<1>3. x \in Runs /\ x.pc = "recording" /\ x.todo = run[r].todo /\ x.st = run[r].st /\ x.seen = manifest
  BY <1>2 DEF Runs, Phases
<1> HIDE DEF x
<1>4. Due(x, files)
  BY <1>1, <1>2, <1>3 DEF Due
<1>5. OnCourse(x, ckpt', files', manifest')
  BY <1>1, <1>2, <1>3, <1>4 DEF OnCourse
<1> QED BY <1>1, <1>2, <1>3, <1>5, MoveOK

LEMMA QWriteManifest == ASSUME QInv, NEW r \in Requests, WriteManifest(r) PROVE QInv'
<1> DEFINE todo == run[r].todo
           x == [run[r] EXCEPT !.pc = "saving", !.todo = Tail(todo), !.seen = {}]
<1>1. /\ IInv' /\ run[r].pc = "recording" /\ Update(r, x) /\ UNCHANGED <<ckpt, issued, files>>
      /\ manifest' = run[r].seen \union {Head(todo)}
  BY WriteManifestStep DEF QInv, WriteManifest
<1>2. /\ Live(r) /\ run[r] \in Runs /\ Due(run[r], files) /\ OnCourse(run[r], ckpt, files, manifest)
      /\ run[r].st.next \notin {"none", "END"} /\ Free(run[r].st, files \union Entries(todo))
      /\ Entries(todo) = {Head(todo)} \union Entries(Tail(todo))
      /\ Len(Tail(todo)) <= 1 /\ Tail(todo) \in Seq(Names)
  BY <1>1, QSaves
<1>3. x \in Runs /\ x.pc = "saving" /\ x.todo = Tail(todo) /\ x.st = run[r].st
  BY <1>2 DEF Runs, Phases
<1>4. files = manifest \union {Head(todo)} /\ run[r].seen = manifest
  BY <1>1, <1>2 DEF OnCourse
<1>5. Entries(Tail(todo)) \intersect files = {}
  BY <1>1, <1>2 DEF Due
<1>6. files' = manifest' /\ files' = files /\ files \union Entries(Tail(todo)) = files \union Entries(todo)
  BY <1>1, <1>2, <1>4
<1>7. Free(x.st, files' \union Entries(x.todo))
  BY <1>2, <1>3, <1>6
<1>8. Len(Tail(todo)) <= 2 /\ Len(Tail(todo)) # 2
  <2> DEFINE n == Len(Tail(todo))
  <2>1. n \in Nat /\ n <= 1
    BY <1>2
  <2> HIDE DEF n
  <2>2. n <= 2 /\ n # 2
    BY <2>1
  <2> QED BY <2>2 DEF n
<1> HIDE DEF x
<1>9. Due(x, files')
  BY <1>3, <1>5, <1>6, <1>8 DEF Due
<1>10. OnCourse(x, ckpt', files', manifest')
  BY <1>2, <1>3, <1>6, <1>7, <1>9 DEF OnCourse
<1> QED BY <1>1, <1>2, <1>3, <1>10, MoveOK

LEMMA QCommit == ASSUME QInv, NEW r \in Requests, Commit(r) PROVE QInv'
<1> DEFINE x == [run[r] EXCEPT !.st = run[r].st,
                   !.pc = IF run[r].st.next = "END" THEN "syncing" ELSE "running"]
<1>1. /\ IInv' /\ run[r].pc = "saving" /\ run[r].todo = <<>> /\ Update(r, x)
      /\ ckpt' = run[r].st /\ UNCHANGED <<issued, files, manifest>>
  BY CommitStep DEF QInv, Commit, Put
<1>2. /\ Live(r) /\ run[r] \in Runs /\ Due(run[r], files) /\ OnCourse(run[r], ckpt, files, manifest)
      /\ run[r].st.next \notin {"none", "END"} /\ Free(run[r].st, files \union Entries(run[r].todo))
  BY <1>1, QSaves
<1>3. x \in Runs /\ x.pc = "running" /\ x.todo = run[r].todo /\ x.st = run[r].st
  BY <1>2 DEF Runs, Phases
<1>4. files = manifest
  BY <1>1, <1>2 DEF OnCourse
<1> HIDE DEF x
<1>5. Due(x, files)
  BY <1>2, <1>3 DEF Due
<1>6. OnCourse(x, ckpt', files', manifest')
  BY <1>1, <1>2, <1>3, <1>4, <1>5 DEF OnCourse
<1> QED BY <1>1, <1>2, <1>3, <1>6, MoveOK

-----------------------------------------------------------------------------
\* The end of a request.
LEMMA QReadThread == ASSUME QInv, NEW r \in Requests, ReadThread(r) PROVE QInv'
<1> DEFINE x == [run[r] EXCEPT !.pc = "reporting", !.st = ckpt]
<1>1. /\ IInv' /\ run[r].pc = "syncing" /\ Update(r, x)
      /\ UNCHANGED <<ckpt, issued, files, manifest>>
  BY ReadThreadStep DEF QInv, ReadThread
<1>2. /\ Live(r) /\ run[r] \in Runs /\ OnCourse(run[r], ckpt, files, manifest) /\ ckpt \in Threads
  BY <1>1 DEF QInv, IInv, TypeOK, Live
<1>3. x \in Runs /\ x.pc = "reporting" /\ x.st = ckpt
  BY <1>2 DEF Runs, Phases
<1>4. Parked(ckpt, files) /\ files = manifest
  BY <1>1, <1>2 DEF OnCourse
<1> HIDE DEF x
<1>5. OnCourse(x, ckpt', files', manifest')
  BY <1>1, <1>3, <1>4 DEF OnCourse
<1> QED BY <1>1, <1>2, <1>3, <1>5, MoveOK

LEMMA QUpdateStatus == ASSUME QInv, NEW r \in Requests, UpdateStatus(r) PROVE QInv'
<1> DEFINE x == Over(r)
<1>1. /\ IInv' /\ run[r].pc = "reporting" /\ Update(r, x) /\ task' = SyncedTask(run[r].st)
      /\ UNCHANGED <<ckpt, issued, files, manifest>>
  BY UpdateStatusStep DEF QInv, UpdateStatus
<1>2. /\ Live(r) /\ run[r] \in Runs /\ OnCourse(run[r], ckpt, files, manifest) /\ issued
      /\ task \in Tasks
  BY <1>1 DEF QInv, IInv, TypeOK, Live, Tasks
<1>3. Parked(ckpt, files) /\ files = manifest /\ run[r].st = ckpt
  BY <1>1, <1>2 DEF OnCourse
<1>4. x \in Runs /\ x.pc = "closed"
  BY OverOK, NoRunOK DEF Over, QInv, Runs
<1>5. ASSUME ckpt.next = "Approval" PROVE Settled'
  <2>1. task'.status = "AWAITING_APPROVAL"
    BY <1>1, <1>2, <1>3, <1>5 DEF SyncedTask, Tasks
  <2> QED BY <1>1, <1>2, <1>3, <1>5, <2>1 DEF Settled
<1>6. ASSUME ckpt.next = "END", ckpt.vstate \in {"PASSED", "FAILED"} PROVE Settled'
  <2>1. task'.status = IF ckpt.vstate = "PASSED" THEN "COMPLETED" ELSE "FAILED"
    BY <1>1, <1>3, <1>6 DEF SyncedTask
  <2> QED BY <1>1, <1>2, <1>3, <1>6, <2>1 DEF Settled
<1>7. files' = manifest' /\ Settled'
  BY <1>1, <1>3, <1>5, <1>6 DEF Parked
<1> HIDE DEF x
<1> QED BY <1>1, <1>2, <1>4, <1>7, CourseOK

-----------------------------------------------------------------------------
LEMMA InitQuiet == Orderly /\ Init => QInv
<1> SUFFICES ASSUME Orderly, Init PROVE QInv
  OBVIOUS
<1>1. IInv
  BY InitOK
<1>2. \A r \in Requests : ~Live(r)
  BY NoRunOK DEF Init, Live
<1>3. files = manifest /\ Untouched
  BY DEF Init, Untouched, NoTask
<1> QED BY <1>1, <1>2, <1>3 DEF QInv

LEMMA NextQuiet == QInv /\ [Next]_vars => QInv'
<1> SUFFICES ASSUME QInv, [Next]_vars PROVE QInv'
  OBVIOUS
<1>1. ASSUME NEW r \in Requests, Ask(r) PROVE QInv'
  BY <1>1, QCreate, QDecide DEF Ask
<1>2. ASSUME NEW r \in Requests, Step(r) PROVE QInv'
  BY <1>2, QBegin, QInitialize, QHardware, QFirmware, QApproval, QInterrupt, QSimulation,
     QDebug, QFinish, QCheck, QWriteFile, QReadManifest, QWriteManifest, QCommit,
     QReadThread, QUpdateStatus
     DEF Step
<1>3. ASSUME NEW r \in Requests, Fail(r) PROVE QInv'
  BY <1>3 DEF Fail, QInv, Orderly
<1>4. CASE Restart
  BY <1>4 DEF Restart, QInv, Orderly
<1>5. CASE UNCHANGED vars
  <2>1. IInv' /\ Orderly'
    BY NextOK DEF QInv, Orderly
  <2>2. /\ run' = run /\ ckpt' = ckpt /\ files' = files /\ manifest' = manifest
        /\ issued' = issued /\ task' = task
    BY <1>5 DEF vars
  <2>3. \A r \in Requests : Live(r)' <=> Live(r)
    BY <2>2 DEF Live
  <2>4. ASSUME NEW r \in Requests, Live(r)
        PROVE  (OnCourse(run[r], ckpt, files, manifest) /\ issued)'
    BY <2>2, <2>4 DEF QInv
  <2>5. (Untouched' <=> Untouched) /\ (Settled' <=> Settled)
    BY <2>2 DEF Untouched, Settled
  <2> QED BY <2>1, <2>2, <2>3, <2>4, <2>5 DEF QInv
<1> QED BY <1>1, <1>2, <1>3, <1>4, <1>5 DEF Next

\* The invariant behind the two theorems below.
THEOREM EmbeddedQuiet == Orderly /\ Spec => []QInv
BY InitQuiet, NextQuiet, PTL DEF Spec

\* With clients that take turns and no failure, the task record tells where the thread is
\* whenever no request is in flight: it waits for a person, or it is over with its verdict.
THEOREM StatusAgreed == Orderly /\ Spec => []StatusAgrees
<1>1. QInv => StatusAgrees
  BY DEF QInv, Untouched, Settled, Parked, StatusAgrees
<1> QED BY <1>1, EmbeddedQuiet, PTL

\* With clients that take turns and no failure, the manifest lists the files there are
\* whenever no request is in flight: no artifact is refused and none is listed alone.
THEOREM ManifestCompleted == Orderly /\ Spec => []ManifestIsComplete
<1>1. QInv => ManifestIsComplete
  BY DEF QInv, ManifestIsComplete
<1> QED BY <1>1, EmbeddedQuiet, PTL
=============================================================================
