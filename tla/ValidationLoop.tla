---------------------------- MODULE ValidationLoop ----------------------------
(***************************************************************************)
(* Verification loops side by side: compile, simulate, debug, retry, each  *)
(* a run of ValidationLoop over some task with the in-process simulator    *)
(* and one artifact store.  A save is one step here; EmbeddedTask has the  *)
(* steps it is made of.                                                    *)
(***************************************************************************)
EXTENDS Integers, FiniteSets, Sequences

CONSTANTS
    Callers,    \* slots for runs of the loop, each used once
    Tasks,
    MaxFix,     \* max_fix_iterations
    Firmwares,  \* the sources a run may begin with or a callback may return
    NoPatch     \* a diagnosis without a patched firmware

ASSUME LoopAssumption == MaxFix \in Nat \ {0}
ASSUME TasksAssumption == Tasks # {}
ASSUME FirmwareAssumption ==
    Firmwares \subseteq [errors : SUBSET {"main", "error", "open", "close"}, hangs : BOOLEAN]

VARIABLES
    loop,    \* the runs
    files,   \* the logs in the artifact store
    reports  \* the report.json files

States == {"CREATED", "GENERATED", "COMPILE_RUNNING", "COMPILE_FAILED", "SIMULATION_RUNNING",
           "SIMULATION_FAILED", "DEBUGGING", "RETRYING", "PASSED", "FAILED"}
Categories == {"none", "COMPILE_ERROR", "SIMULATION_FAILURE", "INFRASTRUCTURE_ERROR"}

\* A log is named by its kind and attempt; by is the run that wrote it.
Files == [task : Tasks, kind : {"compile", "simulation"}, attempt : 1..(MaxFix + 2), by : Callers]

\* Patching lets errors go but never makes a source hang or stop hanging.
Sources == [errors : SUBSET {"main", "error", "open", "close"}, hangs : BOOLEAN]
Loops == [pc         : {"idle", "compile", "simulate", "debug", "report", "done", "raised"},
          task       : Tasks,
          machine    : States \cup {"illegal"},
          firmware   : Sources,
          meets      : BOOLEAN,  \* the device's log has what the test cases expect
          attempt    : 0..(MaxFix + 2),
          iterations : 0..(MaxFix + 1),
          category   : Categories]
Reports == [task : Tasks, by : Callers, state : States, iterations : 0..(MaxFix + 1),
            category : Categories, logs : SUBSET Files]

LoopInit ==
    /\ loop \in [Callers -> {[pc |-> "idle", task |-> CHOOSE t \in Tasks : TRUE,
                              machine |-> "CREATED", meets |-> TRUE, attempt |-> 0,
                              firmware |-> [errors |-> {}, hangs |-> FALSE],
                              iterations |-> 0, category |-> "none"]}]
    /\ files = {}
    /\ reports = {}

Transitions ==
    [s \in States |->
        CASE s = "CREATED"            -> {"GENERATED"}
          [] s = "GENERATED"          -> {"COMPILE_RUNNING"}
          [] s = "COMPILE_RUNNING"    -> {"COMPILE_FAILED", "SIMULATION_RUNNING"}
          [] s = "COMPILE_FAILED"     -> {"DEBUGGING"}
          [] s = "SIMULATION_RUNNING" -> {"SIMULATION_FAILED", "PASSED"}
          [] s = "SIMULATION_FAILED"  -> {"DEBUGGING", "FAILED"}
          [] s = "DEBUGGING"          -> {"RETRYING", "FAILED"}
          [] s = "RETRYING"           -> {"COMPILE_RUNNING"}
          [] OTHER                    -> {}]

\* _advance, target after target: InvalidStateTransition at the first that is not allowed.
Advance(from, path) ==
    IF \A i \in DOMAIN path :
         path[i] \in Transitions[IF i = 1 THEN from ELSE path[i - 1]]
    THEN path[Len(path)] ELSE "illegal"

Raised(it) == [it EXCEPT !.pc = "raised"]
\* The step of a run that went through path and goes on at pc.
Moved(it, path, pc) ==
    LET state == Advance(it.machine, path)
    IN  [it EXCEPT !.machine = state, !.pc = IF state = "illegal" THEN "raised" ELSE pc]

Set(c, it) == loop' = [loop EXCEPT ![c] = it]

\* save: a name that is taken raises FileExistsError.
Save(c, it, kind, next) ==
    IF \E f \in files : f.task = it.task /\ f.kind = kind /\ f.attempt = it.attempt
    THEN Set(c, Raised(it)) /\ UNCHANGED files
    ELSE /\ Set(c, next)
         /\ files' = files \cup {[task |-> it.task, kind |-> kind, attempt |-> it.attempt, by |-> c]}

Start(c) ==
    /\ loop[c].pc = "idle"
    /\ \E t \in Tasks, f \in Firmwares, m \in BOOLEAN :
         Set(c, [loop[c] EXCEPT !.pc = "compile", !.task = t, !.machine = "GENERATED",
                                !.firmware = f, !.meets = m])
    /\ UNCHANGED <<files, reports>>

\* Any error of the source fails the compilation.
Compile(c) ==
    /\ loop[c].pc = "compile"
    /\ LET it == [loop[c] EXCEPT !.attempt = @ + 1]
           failed == [it EXCEPT !.category = "COMPILE_ERROR"]
       IN  Save(c, it, "compile",
                IF it.firmware.errors # {}
                THEN Moved(failed, <<"COMPILE_RUNNING", "COMPILE_FAILED">>, "debug")
                ELSE Moved(it, <<"COMPILE_RUNNING", "SIMULATION_RUNNING">>, "simulate"))
    /\ UNCHANGED reports

\* The serial log is the device's: what the source does but hang does not show in it.
Simulate(c) ==
    /\ loop[c].pc = "simulate"
    /\ LET it == loop[c]
           failed(category) == [it EXCEPT !.category = category]
       IN  Save(c, it, "simulation",
                IF it.firmware.hangs
                THEN Moved(failed("INFRASTRUCTURE_ERROR"), <<"SIMULATION_FAILED", "FAILED">>, "report")
                ELSE IF it.meets
                THEN Moved(failed("none"), <<"PASSED">>, "report")
                ELSE Moved(failed("SIMULATION_FAILURE"), <<"SIMULATION_FAILED">>, "debug"))
    /\ UNCHANGED reports

\* _patched: main is added, #error lines go, missing braces close.  Braces that are too
\* many count as a change that leaves them there; a source without errors has no patch.
DefaultPatch(firmware) ==
    IF firmware.errors = {} THEN NoPatch ELSE [firmware EXCEPT !.errors = @ \cap {"close"}]

\* run_debug_agent: the default patcher's answer, or that of a callback, which may be any.
Patches(firmware) == Firmwares \cup {NoPatch, DefaultPatch(firmware)}

\* Defect: the iteration counts before the budget is looked at.
Debug_CountFirst(c) ==
    /\ loop[c].pc = "debug"
    /\ \E patch \in Patches(loop[c].firmware) :
         Set(c, IF patch = NoPatch \/ loop[c].iterations >= MaxFix
                THEN Moved([loop[c] EXCEPT !.iterations = @ + 1], <<"DEBUGGING", "FAILED">>, "report")
                ELSE Moved([loop[c] EXCEPT !.iterations = @ + 1, !.firmware = patch],
                           <<"DEBUGGING", "RETRYING">>, "compile"))
    /\ UNCHANGED <<files, reports>>

\* _debug_cycle: a patch that comes when the budget is spent is not tried.
Debug(c) ==
    /\ loop[c].pc = "debug"
    /\ \E patch \in Patches(loop[c].firmware) :
         Set(c, IF patch = NoPatch \/ loop[c].iterations >= MaxFix
                THEN Moved(loop[c], <<"DEBUGGING", "FAILED">>, "report")
                ELSE Moved([loop[c] EXCEPT !.iterations = @ + 1, !.firmware = patch],
                           <<"DEBUGGING", "RETRYING">>, "compile"))
    /\ UNCHANGED <<files, reports>>

\* The backend or the callback raises, and nobody catches it.
Raise(c) ==
    /\ loop[c].pc \in {"compile", "simulate", "debug"}
    /\ Set(c, Raised(loop[c]))
    /\ UNCHANGED <<files, reports>>

Report(c) ==
    /\ loop[c].pc = "report"
    /\ IF \E r \in reports : r.task = loop[c].task
       THEN Set(c, Raised(loop[c])) /\ UNCHANGED reports
       ELSE /\ Set(c, [loop[c] EXCEPT !.pc = "done"])
            /\ reports' = reports \cup
                 {[task |-> loop[c].task, by |-> c, state |-> loop[c].machine,
                   iterations |-> loop[c].iterations, category |-> loop[c].category,
                   logs |-> {f \in files : f.by = c}]}
    /\ UNCHANGED files

LoopStep(c) == Start(c) \/ Compile(c) \/ Simulate(c) \/ Debug(c) \/ Raise(c) \/ Report(c)

================================================================================
