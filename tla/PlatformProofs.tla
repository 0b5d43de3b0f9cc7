---------------------------- MODULE PlatformProofs ----------------------------
(***************************************************************************)
(* Three results on the platform's processes, for any number of runs,      *)
(* tasks, packs, rules and restarts.  A report backs what it says: each    *)
(* run carries, with its attempt, exactly the logs it wrote, and what it   *)
(* will report follows from where it is.  And the strictest rule wins: the *)
(* effect of a plan is a maximum, which neither order nor spread changes.  *)
(* And a pack on record is whole: the registries only grow until the       *)
(* process ends, past gates that let nothing else through.                 *)
(***************************************************************************)
EXTENDS Platform, FiniteSetTheorems, TLAPS

(***************************************************************************)
(* Verification loops                                                      *)
(***************************************************************************)

Logs(c) == {f \in files : f.by = c}
Logged(logs, kind, n) == \E f \in logs : f.kind = kind /\ f.attempt = n

UnderWay == {"compile", "simulate", "debug", "report"}

\* What a run and its logs have in common, by the step it is at.
RunOK(it, logs) ==
    /\ it.iterations <= MaxFix
    /\ it.pc = "idle" => it.attempt = 0 /\ it.iterations = 0
    /\ it.pc = "compile" => it.attempt = it.iterations
    /\ it.pc \in {"simulate", "debug", "report"} => it.attempt = it.iterations + 1
    /\ \A f \in logs : f.task = it.task /\ f.attempt \in 1..it.attempt
    /\ it.pc \in UnderWay => \A n \in 1..it.attempt : Logged(logs, "compile", n)
    /\ it.pc = "simulate" => ~Logged(logs, "simulation", it.attempt)
    /\ it.pc \in {"debug", "report"} =>
          (Logged(logs, "simulation", it.attempt) <=> it.category # "COMPILE_ERROR")
    /\ it.pc = "debug" => it.category # "none"
    /\ it.pc = "report" => it.machine = (IF it.category = "none" THEN "PASSED" ELSE "FAILED")

LoopInv ==
    /\ loop \in [Callers -> Loops]
    /\ files \subseteq Files
    /\ \A c \in Callers : RunOK(loop[c], Logs(c))
    /\ ReportIsBacked

LEMMA Bounds == MaxFix \in Nat /\ MaxFix > 0
BY LoopAssumption

LEMMA RaisedOK ==
    ASSUME NEW it \in Loops, NEW logs, it.iterations <= MaxFix,
           \A f \in logs : f.task = it.task /\ f.attempt \in 1..it.attempt
    PROVE  Raised(it) \in Loops /\ RunOK(Raised(it), logs)
BY DEF Raised, Loops, RunOK, UnderWay

\* A run that went through path is where the path ends, or it raised on the way.
LEMMA MovedOK ==
    ASSUME NEW it \in Loops, NEW logs, NEW path, path[Len(path)] \in States, NEW pc \in UnderWay,
           it.iterations <= MaxFix,
           \A f \in logs : f.task = it.task /\ f.attempt \in 1..it.attempt,
           RunOK([it EXCEPT !.machine = path[Len(path)], !.pc = pc], logs)
    PROVE  Moved(it, path, pc) \in Loops /\ RunOK(Moved(it, path, pc), logs)
<1>1. path[Len(path)] # "illegal"
  BY DEF States
<1>2. CASE Advance(it.machine, path) = path[Len(path)]
  <2>1. Moved(it, path, pc) = [it EXCEPT !.machine = path[Len(path)], !.pc = pc]
    BY <1>1, <1>2 DEF Moved
  <2>2. [it EXCEPT !.machine = path[Len(path)], !.pc = pc] \in Loops
    BY DEF Loops, UnderWay
  <2> QED
    BY <2>1, <2>2
<1>3. CASE Advance(it.machine, path) = "illegal"
  <2>1. Moved(it, path, pc) = [it EXCEPT !.machine = "illegal", !.pc = "raised"]
    BY <1>3 DEF Moved
  <2>2. RunOK([it EXCEPT !.machine = "illegal", !.pc = "raised"], logs)
    BY DEF Loops, RunOK, UnderWay
  <2>3. [it EXCEPT !.machine = "illegal", !.pc = "raised"] \in Loops
    BY DEF Loops
  <2> QED
    BY <2>1, <2>2, <2>3
<1> QED
  BY <1>2, <1>3 DEF Advance

\* A step of run c that leaves the artifacts alone.
LEMMA SetOK ==
    ASSUME LoopInv, NEW c \in Callers, NEW it \in Loops, RunOK(it, Logs(c)),
           Set(c, it), UNCHANGED <<files, reports>>
    PROVE  LoopInv'
<1>1. loop' \in [Callers -> Loops] /\ files' \subseteq Files
  BY DEF LoopInv, Set
<1>2. \A d \in Callers : RunOK(loop[d], Logs(d))'
  BY DEF LoopInv, Set, Logs, RunOK, Logged
<1>3. ReportIsBacked'
  BY DEF LoopInv, ReportIsBacked
<1> QED
  BY <1>1, <1>2, <1>3 DEF LoopInv

\* A step of run c that saves a log, or finds its name taken.
LEMMA SaveOK ==
    ASSUME LoopInv, NEW c \in Callers, NEW kind \in {"compile", "simulation"},
           NEW it \in Loops, it.task = loop[c].task, it.attempt \in 1..(MaxFix + 2),
           it.iterations <= MaxFix,
           \A f \in Logs(c) : f.task = it.task /\ f.attempt \in 1..it.attempt,
           NEW next \in Loops,
           \A log \in Files :
               log.kind = kind /\ log.attempt = it.attempt /\ log.task = it.task
               => RunOK(next, Logs(c) \cup {log}),
           Save(c, it, kind, next), UNCHANGED reports
    PROVE  LoopInv'
<1>1. CASE \E f \in files : f.task = it.task /\ f.kind = kind /\ f.attempt = it.attempt
  <2>1. Set(c, Raised(it)) /\ UNCHANGED files
    BY <1>1 DEF Save
  <2>2. Raised(it) \in Loops /\ RunOK(Raised(it), Logs(c))
    BY RaisedOK
  <2> QED
    BY <2>1, <2>2, SetOK
<1>2. CASE ~\E f \in files : f.task = it.task /\ f.kind = kind /\ f.attempt = it.attempt
  <2> DEFINE log == [task |-> it.task, kind |-> kind, attempt |-> it.attempt, by |-> c]
  <2>1. Set(c, next) /\ files' = files \cup {log}
    BY <1>2 DEF Save
  <2>2. log \in Files
    BY DEF Files, Loops
  <2>3. Logs(c)' = Logs(c) \cup {log} /\ \A d \in Callers \ {c} : Logs(d)' = Logs(d)
    BY <2>1 DEF Logs
  <2>4. loop' \in [Callers -> Loops] /\ files' \subseteq Files
    BY <2>1, <2>2 DEF LoopInv, Set
  <2>5. loop'[c] = next /\ \A d \in Callers \ {c} : loop'[d] = loop[d]
    BY <2>1 DEF LoopInv, Set
  <2>6. RunOK(loop[c], Logs(c))'
    BY <2>2, <2>3, <2>5
  <2>7. \A d \in Callers \ {c} : RunOK(loop[d], Logs(d))'
    BY <2>3, <2>5 DEF LoopInv
  <2>8. ReportIsBacked'
    BY <2>1 DEF LoopInv, ReportIsBacked
  <2> QED
    BY <2>4, <2>6, <2>7, <2>8 DEF LoopInv
<1> QED
  BY <1>1, <1>2

LEMMA StartOK == \A c \in Callers : LoopInv /\ Start(c) => LoopInv'
<1> SUFFICES ASSUME NEW c \in Callers, LoopInv, Start(c) PROVE LoopInv'
  OBVIOUS
<1>1. PICK t \in Tasks, f \in Firmwares, m \in BOOLEAN :
        Set(c, [loop[c] EXCEPT !.pc = "compile", !.task = t, !.machine = "GENERATED",
                               !.firmware = f, !.meets = m])
  BY DEF Start
<1> DEFINE it == [loop[c] EXCEPT !.pc = "compile", !.task = t, !.machine = "GENERATED",
                                 !.firmware = f, !.meets = m]
<1>2. loop[c] \in Loops /\ loop[c].pc = "idle" /\ RunOK(loop[c], Logs(c))
  BY DEF LoopInv, Start
<1>3. it \in Loops
  BY <1>2, FirmwareAssumption DEF Loops, States, Sources
<1>4. /\ it.pc = "compile" /\ it.attempt = 0 /\ it.iterations = 0
      /\ loop[c].attempt = 0
  BY <1>2 DEF Loops, RunOK
<1>5. Logs(c) = {}
  BY <1>2, <1>4 DEF RunOK
<1>6. RunOK(it, Logs(c))
  BY <1>4, <1>5, Bounds DEF RunOK, UnderWay
<1> QED
  BY <1>1, <1>3, <1>6, SetOK DEF Start

\* The run as it tries its next attempt, and what the compile log adds to its logs.
Tried(was, it) == it = [was EXCEPT !.attempt = @ + 1]

LEMMA Attempt ==
    ASSUME NEW was \in Loops, was.pc = "compile", NEW old, RunOK(was, old),
           NEW it, Tried(was, it)
    PROVE  /\ it \in Loops /\ it.task = was.task /\ it.attempt \in 1..(MaxFix + 2)
           /\ it.iterations <= MaxFix /\ it.attempt = it.iterations + 1
           /\ was.attempt \in Nat /\ it.attempt = was.attempt + 1
           /\ \A f \in old : f.task = it.task /\ f.attempt \in 1..was.attempt
           /\ \A n \in 1..was.attempt : Logged(old, "compile", n)
<1>1. /\ was.attempt = was.iterations /\ was.iterations \in 0..MaxFix
      /\ \A f \in old : f.task = was.task /\ f.attempt \in 1..was.attempt
      /\ \A n \in 1..was.attempt : Logged(old, "compile", n)
  BY DEF RunOK, Loops, UnderWay
<1>2. /\ it \in Loops /\ it.task = was.task /\ it.iterations = was.iterations
      /\ it.attempt = was.attempt + 1
  BY <1>1, Bounds DEF Loops, Tried
<1> QED
  BY <1>1, <1>2, Bounds

LEMMA CompileLogged ==
    ASSUME NEW n \in Nat, NEW task, NEW old,
           \A f \in old : f.task = task /\ f.attempt \in 1..n,
           \A k \in 1..n : Logged(old, "compile", k),
           NEW log, log.kind = "compile", log.attempt = n + 1, log.task = task
    PROVE  /\ \A f \in old \cup {log} : f.task = task /\ f.attempt \in 1..(n + 1)
           /\ \A k \in 1..(n + 1) : Logged(old \cup {log}, "compile", k)
           /\ ~Logged(old \cup {log}, "simulation", n + 1)
<1>1. \A f \in old \cup {log} : f.task = task /\ f.attempt \in 1..(n + 1)
  OBVIOUS
<1>2. \A k \in 1..(n + 1) : Logged(old \cup {log}, "compile", k)
  BY DEF Logged
<1>3. ~Logged(old \cup {log}, "simulation", n + 1)
  BY DEF Logged
<1> QED
  BY <1>1, <1>2, <1>3

LEMMA CompileFailed ==
    ASSUME NEW it \in Loops, NEW logs, it.iterations <= MaxFix, it.attempt = it.iterations + 1,
           \A f \in logs : f.task = it.task /\ f.attempt \in 1..it.attempt,
           \A n \in 1..it.attempt : Logged(logs, "compile", n),
           ~Logged(logs, "simulation", it.attempt)
    PROVE  LET failed == [it EXCEPT !.category = "COMPILE_ERROR"]
               next == Moved(failed, <<"COMPILE_RUNNING", "COMPILE_FAILED">>, "debug")
           IN  next \in Loops /\ RunOK(next, logs)
<1> DEFINE failed == [it EXCEPT !.category = "COMPILE_ERROR"]
<1>1. /\ failed \in Loops /\ failed.iterations = it.iterations /\ failed.attempt = it.attempt
      /\ failed.task = it.task
  BY DEF Loops, Categories
<1>2. RunOK([failed EXCEPT !.machine = "COMPILE_FAILED", !.pc = "debug"], logs)
  BY DEF RunOK, Loops, UnderWay
<1>3. /\ <<"COMPILE_RUNNING", "COMPILE_FAILED">>[Len(<<"COMPILE_RUNNING", "COMPILE_FAILED">>)]
            = "COMPILE_FAILED"
      /\ "COMPILE_FAILED" \in States /\ "debug" \in UnderWay
  BY DEF States, UnderWay
<1> HIDE DEF failed
<1> QED
  BY <1>1, <1>2, <1>3, MovedOK DEF failed

LEMMA CompilePassed ==
    ASSUME NEW it \in Loops, NEW logs, it.iterations <= MaxFix, it.attempt = it.iterations + 1,
           \A f \in logs : f.task = it.task /\ f.attempt \in 1..it.attempt,
           \A n \in 1..it.attempt : Logged(logs, "compile", n),
           ~Logged(logs, "simulation", it.attempt)
    PROVE  LET next == Moved(it, <<"COMPILE_RUNNING", "SIMULATION_RUNNING">>, "simulate")
           IN  next \in Loops /\ RunOK(next, logs)
<1>1. RunOK([it EXCEPT !.machine = "SIMULATION_RUNNING", !.pc = "simulate"], logs)
  BY DEF RunOK, Loops, UnderWay
<1>2. /\ <<"COMPILE_RUNNING", "SIMULATION_RUNNING">>[
              Len(<<"COMPILE_RUNNING", "SIMULATION_RUNNING">>)] = "SIMULATION_RUNNING"
      /\ "SIMULATION_RUNNING" \in States /\ "simulate" \in UnderWay
  BY DEF States, UnderWay
<1> QED
  BY <1>1, <1>2, MovedOK

LEMMA CompileOK == \A c \in Callers : LoopInv /\ Compile(c) => LoopInv'
<1> SUFFICES ASSUME NEW c \in Callers, LoopInv, Compile(c) PROVE LoopInv'
  OBVIOUS
<1>1. loop[c] \in Loops /\ loop[c].pc = "compile" /\ RunOK(loop[c], Logs(c))
  BY DEF LoopInv, Compile
<1>2. PICK it : Tried(loop[c], it)
  BY DEF Tried
<1>3. /\ it \in Loops /\ it.task = loop[c].task /\ it.attempt \in 1..(MaxFix + 2)
      /\ it.iterations <= MaxFix /\ it.attempt = it.iterations + 1
      /\ loop[c].attempt \in Nat /\ it.attempt = loop[c].attempt + 1
      /\ \A f \in Logs(c) : f.task = it.task /\ f.attempt \in 1..loop[c].attempt
      /\ \A n \in 1..loop[c].attempt : Logged(Logs(c), "compile", n)
  BY <1>1, <1>2, Attempt
<1>4. PICK next : next =
        IF it.firmware.errors # {}
        THEN Moved([it EXCEPT !.category = "COMPILE_ERROR"], <<"COMPILE_RUNNING", "COMPILE_FAILED">>,
                   "debug")
        ELSE Moved(it, <<"COMPILE_RUNNING", "SIMULATION_RUNNING">>, "simulate")
  OBVIOUS
<1>5. Save(c, it, "compile", next) /\ UNCHANGED reports
  BY <1>2, <1>4 DEF Compile, Tried
<1>6. ASSUME NEW log \in Files, log.kind = "compile", log.attempt = it.attempt, log.task = it.task
      PROVE  next \in Loops /\ RunOK(next, Logs(c) \cup {log})
  <2>1. /\ \A f \in Logs(c) \cup {log} : f.task = it.task /\ f.attempt \in 1..it.attempt
        /\ \A n \in 1..it.attempt : Logged(Logs(c) \cup {log}, "compile", n)
        /\ ~Logged(Logs(c) \cup {log}, "simulation", it.attempt)
    <3>1. log.attempt = loop[c].attempt + 1
      BY <1>3, <1>6
    <3>2. /\ \A f \in Logs(c) \cup {log} : f.task = it.task /\ f.attempt \in 1..(loop[c].attempt + 1)
          /\ \A n \in 1..(loop[c].attempt + 1) : Logged(Logs(c) \cup {log}, "compile", n)
          /\ ~Logged(Logs(c) \cup {log}, "simulation", loop[c].attempt + 1)
      BY <1>3, <1>6, <3>1, CompileLogged, Zenon
    <3> QED
      BY <1>3, <3>2
  <2> QED
    BY <1>3, <1>4, <2>1, CompileFailed, CompilePassed
<1>7. [task |-> it.task, kind |-> "compile", attempt |-> it.attempt, by |-> c] \in Files
  BY <1>3 DEF Files, Loops
<1>8. next \in Loops
  BY <1>6, <1>7
<1> QED
  BY <1>3, <1>5, <1>6, <1>8, SaveOK

\* What a simulation makes of a run, by its verdict.
LEMMA Simulated ==
    ASSUME NEW it \in Loops, NEW logs, it.iterations <= MaxFix, it.attempt = it.iterations + 1,
           \A f \in logs : f.task = it.task /\ f.attempt \in 1..it.attempt,
           \A n \in 1..it.attempt : Logged(logs, "compile", n),
           Logged(logs, "simulation", it.attempt),
           NEW category \in {"none", "SIMULATION_FAILURE", "INFRASTRUCTURE_ERROR"},
           NEW path, NEW pc \in {"debug", "report"}, path[Len(path)] \in States,
           pc = "debug" => category # "none",
           pc = "report" => path[Len(path)] = (IF category = "none" THEN "PASSED" ELSE "FAILED")
    PROVE  LET next == Moved([it EXCEPT !.category = category], path, pc)
           IN  next \in Loops /\ RunOK(next, logs)
<1> DEFINE judged == [it EXCEPT !.category = category]
<1>1. /\ judged \in Loops /\ judged.iterations = it.iterations /\ judged.attempt = it.attempt
      /\ judged.task = it.task
  BY DEF Loops, Categories
<1>2. RunOK([judged EXCEPT !.machine = path[Len(path)], !.pc = pc], logs)
  BY DEF RunOK, Loops, UnderWay
<1>3. pc \in UnderWay
  BY DEF UnderWay
<1> HIDE DEF judged
<1>4. Moved(judged, path, pc) \in Loops /\ RunOK(Moved(judged, path, pc), logs)
  BY <1>1, <1>2, <1>3, MovedOK
<1> QED
  BY <1>4 DEF judged

LEMMA SimulationLogged ==
    ASSUME NEW n \in Nat \ {0}, NEW task, NEW old,
           \A f \in old : f.task = task /\ f.attempt \in 1..n,
           \A k \in 1..n : Logged(old, "compile", k),
           NEW log, log.kind = "simulation", log.attempt = n, log.task = task
    PROVE  /\ \A f \in old \cup {log} : f.task = task /\ f.attempt \in 1..n
           /\ \A k \in 1..n : Logged(old \cup {log}, "compile", k)
           /\ Logged(old \cup {log}, "simulation", n)
BY DEF Logged

LEMMA SimulateOK == \A c \in Callers : LoopInv /\ Simulate(c) => LoopInv'
<1> SUFFICES ASSUME NEW c \in Callers, LoopInv, Simulate(c) PROVE LoopInv'
  OBVIOUS
<1>1. loop[c] \in Loops /\ loop[c].pc = "simulate" /\ RunOK(loop[c], Logs(c))
  BY DEF LoopInv, Simulate
<1>2. PICK it : it = loop[c]
  OBVIOUS
<1>3. /\ it \in Loops /\ it.task = loop[c].task /\ it.attempt \in 1..(MaxFix + 2)
      /\ it.iterations <= MaxFix /\ it.attempt = it.iterations + 1 /\ it.attempt \in Nat \ {0}
      /\ \A f \in Logs(c) : f.task = it.task /\ f.attempt \in 1..it.attempt
      /\ \A n \in 1..it.attempt : Logged(Logs(c), "compile", n)
  BY <1>1, <1>2, Bounds DEF RunOK, UnderWay, Loops
<1>4. PICK next : next =
        IF it.firmware.hangs
        THEN Moved([it EXCEPT !.category = "INFRASTRUCTURE_ERROR"], <<"SIMULATION_FAILED", "FAILED">>,
                   "report")
        ELSE IF it.meets
        THEN Moved([it EXCEPT !.category = "none"], <<"PASSED">>, "report")
        ELSE Moved([it EXCEPT !.category = "SIMULATION_FAILURE"], <<"SIMULATION_FAILED">>, "debug")
  OBVIOUS
<1>5. Save(c, it, "simulation", next) /\ UNCHANGED reports
  BY <1>2, <1>4 DEF Simulate
<1>6. ASSUME NEW log \in Files, log.kind = "simulation", log.attempt = it.attempt, log.task = it.task
      PROVE  next \in Loops /\ RunOK(next, Logs(c) \cup {log})
  <2> DEFINE logs == Logs(c) \cup {log}
  <2>1. /\ \A f \in logs : f.task = it.task /\ f.attempt \in 1..it.attempt
        /\ \A n \in 1..it.attempt : Logged(logs, "compile", n)
        /\ Logged(logs, "simulation", it.attempt)
    BY <1>3, <1>6, SimulationLogged
  <2> HIDE DEF logs
  <2>2. CASE it.firmware.hangs
    <3> DEFINE path == <<"SIMULATION_FAILED", "FAILED">>
    <3>1. path[Len(path)] = "FAILED" /\ "FAILED" \in States
      BY DEF States
    <3> HIDE DEF path
    <3>2. LET moved == Moved([it EXCEPT !.category = "INFRASTRUCTURE_ERROR"], path, "report")
          IN  moved \in Loops /\ RunOK(moved, logs)
      BY <1>3, <2>1, <3>1, Simulated
    <3> QED
      BY <1>4, <2>2, <3>2 DEF path, logs
  <2>3. CASE ~it.firmware.hangs /\ it.meets
    <3> DEFINE path == <<"PASSED">>
    <3>1. path[Len(path)] = "PASSED" /\ "PASSED" \in States
      BY DEF States
    <3> HIDE DEF path
    <3>2. LET moved == Moved([it EXCEPT !.category = "none"], path, "report")
          IN  moved \in Loops /\ RunOK(moved, logs)
      BY <1>3, <2>1, <3>1, Simulated
    <3> QED
      BY <1>4, <2>3, <3>2 DEF path, logs
  <2>4. CASE ~it.firmware.hangs /\ ~it.meets
    <3> DEFINE path == <<"SIMULATION_FAILED">>
    <3>1. path[Len(path)] \in States
      BY DEF States
    <3> HIDE DEF path
    <3>2. LET moved == Moved([it EXCEPT !.category = "SIMULATION_FAILURE"], path, "debug")
          IN  moved \in Loops /\ RunOK(moved, logs)
      BY <1>3, <2>1, <3>1, Simulated
    <3> QED
      BY <1>4, <2>4, <3>2 DEF path, logs
  <2> QED
    BY <2>2, <2>3, <2>4
<1>7. [task |-> it.task, kind |-> "simulation", attempt |-> it.attempt, by |-> c] \in Files
  BY <1>3 DEF Files, Loops
<1>8. next \in Loops
  BY <1>6, <1>7
<1> QED
  BY <1>3, <1>5, <1>6, <1>8, SaveOK

LEMMA PatchOK ==
    ASSUME NEW firmware \in Sources, NEW patch \in Patches(firmware), patch # NoPatch
    PROVE  patch \in Sources
BY FirmwareAssumption DEF Patches, DefaultPatch, Sources

\* The run as it goes into its next iteration with a patched source.
Retried(was, patch, it) == it = [was EXCEPT !.iterations = @ + 1, !.firmware = patch]

LEMMA GaveUp ==
    ASSUME NEW it \in Loops, it.pc = "debug", NEW logs, RunOK(it, logs)
    PROVE  LET next == Moved(it, <<"DEBUGGING", "FAILED">>, "report")
           IN  next \in Loops /\ RunOK(next, logs)
<1>1. /\ it.iterations <= MaxFix
      /\ \A f \in logs : f.task = it.task /\ f.attempt \in 1..it.attempt
  BY DEF RunOK
<1>2. RunOK([it EXCEPT !.machine = "FAILED", !.pc = "report"], logs)
  BY DEF RunOK, Loops, UnderWay
<1>3. /\ <<"DEBUGGING", "FAILED">>[Len(<<"DEBUGGING", "FAILED">>)] = "FAILED"
      /\ "FAILED" \in States /\ "report" \in UnderWay
  BY DEF States, UnderWay
<1> QED
  BY <1>1, <1>2, <1>3, MovedOK

LEMMA RetriedOK ==
    ASSUME NEW was \in Loops, was.pc = "debug", NEW logs, RunOK(was, logs),
           ~(was.iterations >= MaxFix), NEW patch \in Sources,
           NEW it, Retried(was, patch, it)
    PROVE  /\ it \in Loops /\ it.iterations <= MaxFix
           /\ \A f \in logs : f.task = it.task /\ f.attempt \in 1..it.attempt
           /\ RunOK([it EXCEPT !.machine = "RETRYING", !.pc = "compile"], logs)
<1>1. /\ was.iterations \in Nat /\ was.iterations + 1 <= MaxFix
      /\ was.attempt = was.iterations + 1
      /\ \A f \in logs : f.task = was.task /\ f.attempt \in 1..was.attempt
      /\ \A n \in 1..was.attempt : Logged(logs, "compile", n)
  BY Bounds DEF RunOK, Loops, UnderWay
<1>2. was.iterations + 1 \in 0..(MaxFix + 1)
  BY <1>1, Bounds
<1>3. /\ it \in Loops /\ it.iterations = was.iterations + 1 /\ it.attempt = was.attempt
      /\ it.task = was.task
  BY <1>2 DEF Retried, Loops
<1>4. RunOK([it EXCEPT !.machine = "RETRYING", !.pc = "compile"], logs)
  BY <1>1, <1>3 DEF RunOK, Loops, UnderWay
<1> QED
  BY <1>1, <1>3, <1>4

LEMMA Retries ==
    ASSUME NEW was \in Loops, was.pc = "debug", NEW logs, RunOK(was, logs),
           ~(was.iterations >= MaxFix), NEW patch \in Sources,
           NEW it, Retried(was, patch, it)
    PROVE  LET next == Moved(it, <<"DEBUGGING", "RETRYING">>, "compile")
           IN  next \in Loops /\ RunOK(next, logs)
<1>1. /\ it \in Loops /\ it.iterations <= MaxFix
      /\ \A f \in logs : f.task = it.task /\ f.attempt \in 1..it.attempt
      /\ RunOK([it EXCEPT !.machine = "RETRYING", !.pc = "compile"], logs)
  BY RetriedOK
<1>2. /\ <<"DEBUGGING", "RETRYING">>[Len(<<"DEBUGGING", "RETRYING">>)] = "RETRYING"
      /\ "RETRYING" \in States /\ "compile" \in UnderWay
  BY DEF States, UnderWay
<1> QED
  BY <1>1, <1>2, MovedOK

LEMMA DebugOK == \A c \in Callers : LoopInv /\ Debug(c) => LoopInv'
<1> SUFFICES ASSUME NEW c \in Callers, LoopInv, Debug(c) PROVE LoopInv'
  OBVIOUS
<1>1. loop[c] \in Loops /\ loop[c].pc = "debug" /\ RunOK(loop[c], Logs(c))
  BY DEF LoopInv, Debug
<1>2. PICK patch \in Patches(loop[c].firmware) :
        Set(c, IF patch = NoPatch \/ loop[c].iterations >= MaxFix
               THEN Moved(loop[c], <<"DEBUGGING", "FAILED">>, "report")
               ELSE Moved([loop[c] EXCEPT !.iterations = @ + 1, !.firmware = patch],
                          <<"DEBUGGING", "RETRYING">>, "compile"))
  BY DEF Debug
<1>3. CASE patch = NoPatch \/ loop[c].iterations >= MaxFix
  <2>1. PICK next : next = Moved(loop[c], <<"DEBUGGING", "FAILED">>, "report")
    OBVIOUS
  <2>2. next \in Loops /\ RunOK(next, Logs(c))
    BY <1>1, <2>1, GaveUp
  <2> QED
    BY <1>2, <1>3, <2>1, <2>2, SetOK DEF Debug
<1>4. CASE ~(patch = NoPatch \/ loop[c].iterations >= MaxFix)
  <2>1. PICK it : Retried(loop[c], patch, it)
    BY DEF Retried
  <2>2. PICK next : next = Moved(it, <<"DEBUGGING", "RETRYING">>, "compile")
    OBVIOUS
  <2>3. patch \in Sources
    BY <1>1, <1>4, PatchOK DEF Loops
  <2>4. next \in Loops /\ RunOK(next, Logs(c))
    BY <1>1, <1>4, <2>1, <2>2, <2>3, Retries
  <2>5. Set(c, next)
    BY <1>2, <1>4, <2>1, <2>2 DEF Retried
  <2> QED
    BY <2>4, <2>5, SetOK DEF Debug
<1> QED
  BY <1>3, <1>4

LEMMA RaiseOK == \A c \in Callers : LoopInv /\ Raise(c) => LoopInv'
<1> SUFFICES ASSUME NEW c \in Callers, LoopInv, Raise(c) PROVE LoopInv'
  OBVIOUS
<1>1. loop[c] \in Loops /\ RunOK(loop[c], Logs(c))
  BY DEF LoopInv
<1>2. Raised(loop[c]) \in Loops /\ RunOK(Raised(loop[c]), Logs(c))
  BY <1>1, RaisedOK DEF RunOK
<1> QED
  BY <1>2, SetOK DEF Raise

\* What makes one report backed.
Backed(r) ==
    /\ r.iterations <= MaxFix
    /\ {f.attempt : f \in {g \in r.logs : g.kind = "compile"}} = 1..(r.iterations + 1)
    /\ r.iterations + 1 \in {f.attempt : f \in {g \in r.logs : g.kind = "simulation"}}
          <=> r.category # "COMPILE_ERROR"
    /\ r.state = (IF r.category = "none" THEN "PASSED" ELSE "FAILED")
    /\ \A f \in r.logs : f \in files /\ f.task = r.task

LEMMA Unfolded ==
    ReportIsBacked <=> /\ \A r \in reports : Backed(r)
                       /\ \A r, s \in reports : r.task = s.task => r = s
BY DEF ReportIsBacked, Backed

LEMMA LoggedAttempts ==
    ASSUME NEW logs, NEW n \in Nat, \A f \in logs : f.attempt \in 1..n,
           \A k \in 1..n : Logged(logs, "compile", k)
    PROVE  /\ {f.attempt : f \in {g \in logs : g.kind = "compile"}} = 1..n
           /\ n \in {f.attempt : f \in {g \in logs : g.kind = "simulation"}}
                 <=> Logged(logs, "simulation", n)
BY DEF Logged

LEMMA ReportOK == \A c \in Callers : LoopInv /\ Report(c) => LoopInv'
<1> SUFFICES ASSUME NEW c \in Callers, LoopInv, Report(c) PROVE LoopInv'
  OBVIOUS
<1>1. loop[c] \in Loops /\ loop[c].pc = "report" /\ RunOK(loop[c], Logs(c))
  BY DEF LoopInv, Report
<1>2. CASE \E r \in reports : r.task = loop[c].task
  <2>1. Set(c, Raised(loop[c])) /\ UNCHANGED <<files, reports>>
    BY <1>2 DEF Report
  <2>2. Raised(loop[c]) \in Loops /\ RunOK(Raised(loop[c]), Logs(c))
    BY <1>1, RaisedOK DEF RunOK
  <2> QED
    BY <2>1, <2>2, SetOK
<1>3. CASE ~\E r \in reports : r.task = loop[c].task
  <2>1. PICK it : it = [loop[c] EXCEPT !.pc = "done"]
    OBVIOUS
  <2>2. PICK new : new = [task |-> loop[c].task, by |-> c, state |-> loop[c].machine,
                          iterations |-> loop[c].iterations, category |-> loop[c].category,
                          logs |-> Logs(c)]
    OBVIOUS
  <2>3. Set(c, it) /\ reports' = reports \cup {new} /\ files' = files
    BY <1>3, <2>1, <2>2 DEF Report, Logs
  <2>4. it \in Loops /\ RunOK(it, Logs(c))
    BY <1>1, <2>1 DEF Loops, RunOK, UnderWay
  <2>5. loop' \in [Callers -> Loops] /\ files' \subseteq Files
    BY <2>3, <2>4 DEF LoopInv, Set
  <2>6. \A d \in Callers : RunOK(loop[d], Logs(d))'
    BY <2>3, <2>4 DEF LoopInv, Set, Logs, RunOK, Logged
  <2>7. Backed(new)
    <3>1. /\ loop[c].iterations <= MaxFix /\ loop[c].iterations \in Nat
          /\ loop[c].attempt = loop[c].iterations + 1
          /\ \A f \in Logs(c) : f.task = loop[c].task /\ f.attempt \in 1..loop[c].attempt
          /\ \A n \in 1..loop[c].attempt : Logged(Logs(c), "compile", n)
          /\ Logged(Logs(c), "simulation", loop[c].attempt) <=> loop[c].category # "COMPILE_ERROR"
          /\ loop[c].machine = (IF loop[c].category = "none" THEN "PASSED" ELSE "FAILED")
      BY <1>1 DEF RunOK, Loops, UnderWay
    <3>2. /\ {f.attempt : f \in {g \in Logs(c) : g.kind = "compile"}} = 1..(loop[c].iterations + 1)
          /\ loop[c].iterations + 1 \in {f.attempt : f \in {g \in Logs(c) : g.kind = "simulation"}}
                <=> Logged(Logs(c), "simulation", loop[c].iterations + 1)
      BY <3>1, LoggedAttempts
    <3>3. \A f \in Logs(c) : f \in files
      BY DEF Logs
    <3> QED
      BY <2>2, <3>1, <3>2, <3>3 DEF Backed
  <2>8. \A r \in reports : r.task # new.task
    BY <1>3, <2>2
  <2>9. ReportIsBacked'
    <3>1. (\A r \in reports : Backed(r))'
      BY <2>3, <2>7, Unfolded DEF LoopInv, Backed
    <3>2. (\A r, s \in reports : r.task = s.task => r = s)'
      BY <2>3, <2>8 DEF LoopInv, ReportIsBacked
    <3> QED
      BY <3>1, <3>2 DEF ReportIsBacked, Backed
  <2> QED
    BY <2>5, <2>6, <2>9 DEF LoopInv
<1> QED
  BY <1>2, <1>3

LEMMA StopOK == LoopInv /\ Stop => LoopInv'
<1> SUFFICES ASSUME LoopInv, Stop PROVE LoopInv'
  OBVIOUS
<1>1. /\ loop' = [c \in Callers |->
                    IF loop[c].pc \in {"idle", "done"} THEN loop[c] ELSE Raised(loop[c])]
      /\ files' = files /\ reports' = reports
  BY DEF Stop
<1>2. ASSUME NEW c \in Callers PROVE loop'[c] \in Loops /\ RunOK(loop'[c], Logs(c))
  <2>1. loop[c] \in Loops /\ RunOK(loop[c], Logs(c))
    BY DEF LoopInv
  <2>2. Raised(loop[c]) \in Loops /\ RunOK(Raised(loop[c]), Logs(c))
    BY <2>1, RaisedOK DEF RunOK
  <2>3. loop'[c] = loop[c] \/ loop'[c] = Raised(loop[c])
    BY <1>1
  <2> QED
    BY <2>1, <2>2, <2>3
<1>3. loop' \in [Callers -> Loops] /\ files' \subseteq Files
  BY <1>1, <1>2 DEF LoopInv
<1>4. \A c \in Callers : RunOK(loop[c], Logs(c))'
  BY <1>1, <1>2 DEF Logs
<1>5. ReportIsBacked'
  BY <1>1 DEF LoopInv, ReportIsBacked
<1> QED
  BY <1>3, <1>4, <1>5 DEF LoopInv

LEMMA LoopInitOK == Init => LoopInv
<1> SUFFICES ASSUME Init PROVE LoopInv
  OBVIOUS
<1>1. PICK it : it = [pc |-> "idle", task |-> CHOOSE t \in Tasks : TRUE,
                      machine |-> "CREATED", meets |-> TRUE, attempt |-> 0,
                      firmware |-> [errors |-> {}, hangs |-> FALSE],
                      iterations |-> 0, category |-> "none"]
  OBVIOUS
<1>2. loop \in [Callers -> {it}] /\ files = {} /\ reports = {}
  BY <1>1 DEF Init, LoopInit
<1>3. (CHOOSE t \in Tasks : TRUE) \in Tasks
  BY TasksAssumption
<1>4. it \in Loops
  BY <1>1, <1>3, Bounds DEF Loops, States, Sources, Categories
<1>5. RunOK(it, {})
  BY <1>1, Bounds DEF RunOK, UnderWay
<1>6. \A c \in Callers : loop[c] = it /\ Logs(c) = {}
  BY <1>2 DEF Logs
<1>7. loop \in [Callers -> Loops]
  BY <1>2, <1>4
<1> QED
  BY <1>2, <1>5, <1>6, <1>7 DEF LoopInv, ReportIsBacked

LEMMA LoopNextOK == LoopInv /\ [Next]_vars => LoopInv'
<1> SUFFICES ASSUME LoopInv, [Next]_vars PROVE LoopInv'
  OBVIOUS
<1>1. CASE UNCHANGED lab
  BY <1>1 DEF lab, LoopInv, ReportIsBacked, Logs
<1>2. CASE \E c \in Callers : Verify(c)
  BY <1>2, StartOK, CompileOK, SimulateOK, DebugOK, RaiseOK, ReportOK DEF Verify, LoopStep
<1>3. CASE Stop
  BY <1>3, StopOK
<1>4. Next => UNCHANGED lab \/ (\E c \in Callers : Verify(c)) \/ Stop
  BY DEF Next, StartProcess, RegisterPack, ProbeCollection, ResetCollection, AddDocuments,
         BindHandlers, Serve, Decide
<1>5. UNCHANGED vars => UNCHANGED lab
  BY DEF vars
<1> QED
  BY <1>1, <1>2, <1>3, <1>4, <1>5

\* A report.json tells what its run did (ValidationLoop.run, _record_result, _report).
THEOREM ReportBacked == Spec => []ReportIsBacked
<1>1. LoopInv => ReportIsBacked
  BY DEF LoopInv
<1> QED
  BY <1>1, LoopInitOK, LoopNextOK, PTL DEF Spec

(***************************************************************************)
(* Decisions                                                               *)
(***************************************************************************)

LEMMA StrictestIsMost ==
    ASSUME NEW effects \in SUBSET Effects, effects # {}
    PROVE  /\ Strictest(effects) \in effects
           /\ \A other \in effects : Precedence[other] <= Precedence[Strictest(effects)]
<1>1. /\ Precedence["ALLOW"] = 1 /\ Precedence["REQUIRE_APPROVAL"] = 2
      /\ Precedence["DENY"] = 3
  BY DEF Precedence
<1>2. \E e \in effects : \A other \in effects : Precedence[e] >= Precedence[other]
  <2>1. CASE "DENY" \in effects
    BY <1>1, <2>1 DEF Effects
  <2>2. CASE "DENY" \notin effects /\ "REQUIRE_APPROVAL" \in effects
    BY <1>1, <2>2 DEF Effects
  <2>3. CASE "DENY" \notin effects /\ "REQUIRE_APPROVAL" \notin effects
    <3>1. effects = {"ALLOW"}
      BY <2>3 DEF Effects
    <3> QED
      BY <1>1, <3>1
  <2> QED
    BY <2>1, <2>2, <2>3
<1>3. /\ Strictest(effects) \in effects
      /\ \A other \in effects : Precedence[Strictest(effects)] >= Precedence[other]
  BY <1>2 DEF Strictest
<1>4. \A e \in Effects : Precedence[e] \in Nat
  BY <1>1 DEF Effects
<1> QED
  BY <1>3, <1>4

LEMMA EvaluateIsAnEffect == \A context : Evaluate(Rules, context) \in Effects
<1> TAKE context
<1> DEFINE matched == {rule \in Rules : Matches(rule.condition, context)}
           effects == {rule.effect : rule \in matched}
<1>1. effects \in SUBSET Effects
  BY RulesAssumption
<1>2. CASE matched = {}
  BY <1>2 DEF Evaluate, Effects
<1>3. CASE matched # {}
  <2>1. effects # {}
    BY <1>3
  <2>2. Strictest(effects) \in Effects
    BY <1>1, <2>1, StrictestIsMost
  <2> QED
    BY <1>3, <2>2 DEF Evaluate
<1> QED
  BY <1>2, <1>3

\* The effects of a plan's actions, one by one.
ActionEffects(user, plan, risk) ==
    {Evaluate(Rules, ActionContext(Tools, user, plan, risk, i)) : i \in DOMAIN plan}

LEMMA PlanIsStrictest ==
    ASSUME NEW user, NEW plan, NEW risk, Targets(plan) # {}
    PROVE  /\ PlanEffect(Rules, Tools, user, plan, risk) \in ActionEffects(user, plan, risk)
           /\ ActionEffects(user, plan, risk) \subseteq Effects
           /\ \A e \in ActionEffects(user, plan, risk) :
                Precedence[e] <= Precedence[PlanEffect(Rules, Tools, user, plan, risk)]
<1>1. ActionEffects(user, plan, risk) \in SUBSET Effects
  BY EvaluateIsAnEffect DEF ActionEffects
<1>2. \E i : i \in DOMAIN plan
  BY DEF Targets
<1>3. ActionEffects(user, plan, risk) # {}
  BY <1>2 DEF ActionEffects
<1>4. PlanEffect(Rules, Tools, user, plan, risk) = Strictest(ActionEffects(user, plan, risk))
  BY DEF PlanEffect, ActionEffects
<1> QED
  BY <1>1, <1>3, <1>4, StrictestIsMost

LEMMA RulesThatSpeak ==
    ASSUME NEW context
    PROVE  LET speaking == {rule \in Rules : Matches(rule.condition, context)}
           IN  /\ Evaluate(Rules, context) # "DENY" => speaking # {}
               /\ \A rule \in speaking :
                    Precedence[rule.effect] <= Precedence[Evaluate(Rules, context)]
<1> DEFINE speaking == {rule \in Rules : Matches(rule.condition, context)}
           effects == {rule.effect : rule \in speaking}
<1>1. speaking = {} => Evaluate(Rules, context) = "DENY"
  BY DEF Evaluate
<1>2. speaking # {} => Evaluate(Rules, context) = Strictest(effects)
  BY DEF Evaluate
<1>3. effects \in SUBSET Effects
  BY RulesAssumption
<1>4. ASSUME NEW rule \in speaking
      PROVE  Precedence[rule.effect] <= Precedence[Evaluate(Rules, context)]
  <2>1. effects # {} /\ speaking # {} /\ rule.effect \in effects
    BY <1>4
  <2>2. \A other \in effects : Precedence[other] <= Precedence[Strictest(effects)]
    BY <1>3, <2>1, StrictestIsMost
  <2> QED
    BY <1>2, <2>1, <2>2
<1> QED
  BY <1>1, <1>4

\* The same devices and tools, spread in another way, have the same effect.
LEMMA ReshufflingIsNothing ==
    ASSUME NEW user, NEW plan, NEW other, NEW risk, Reshuffled(plan, other)
    PROVE  PlanEffect(Rules, Tools, user, plan, risk) = PlanEffect(Rules, Tools, user, other, risk)
<1>1. Targets(plan) = Targets(other)
  BY DEF Reshuffled
<1>2. \A i \in DOMAIN plan : \E j \in DOMAIN other : plan[i].tool = other[j].tool
  BY DEF Reshuffled
<1>3. \A j \in DOMAIN other : \E i \in DOMAIN plan : plan[i].tool = other[j].tool
  BY DEF Reshuffled
<1>4. ASSUME NEW i \in DOMAIN plan, NEW j \in DOMAIN other, plan[i].tool = other[j].tool
      PROVE  ActionContext(Tools, user, plan, risk, i) = ActionContext(Tools, user, other, risk, j)
  BY <1>1, <1>4 DEF ActionContext
<1>5. ActionEffects(user, plan, risk) = ActionEffects(user, other, risk)
  BY <1>2, <1>3, <1>4 DEF ActionEffects
<1> QED
  BY <1>1, <1>5 DEF PlanEffect, ActionEffects

DecisionInv ==
    decided # Undecided =>
        decided.effect = PlanEffect(Rules, Tools, decided.user, decided.plan, decided.risk)

LEMMA DecisionIsStrictest == DecisionInv => StrictestWins
<1> SUFFICES ASSUME DecisionInv, decided # Undecided PROVE StrictestWins
  BY DEF StrictestWins
<1>1. PICK user, plan, risk, effect : /\ user = decided.user /\ plan = decided.plan
                                      /\ risk = decided.risk /\ effect = decided.effect
  OBVIOUS
<1>2. effect = PlanEffect(Rules, Tools, user, plan, risk)
  BY <1>1 DEF DecisionInv
<1>3. ASSUME NEW i \in DOMAIN plan, effect # "DENY", effect # "refused",
             NEW context, context = [ActionContext(Tools, user, plan, risk, i)
                                        EXCEPT !.devices = Targets(plan)]
      PROVE  LET speaking == {rule \in Rules : Matches(rule.condition, context)}
             IN  /\ speaking # {}
                 /\ \A rule \in speaking : Precedence[rule.effect] <= Precedence[effect]
  <2>1. context = ActionContext(Tools, user, plan, risk, i)
    BY <1>3 DEF ActionContext
  <2>2. Targets(plan) # {}
    BY <1>2, <1>3 DEF PlanEffect
  <2>3. Evaluate(Rules, context) \in ActionEffects(user, plan, risk)
    BY <2>1 DEF ActionEffects
  <2>4. /\ effect \in Effects /\ Evaluate(Rules, context) \in Effects
        /\ Precedence[Evaluate(Rules, context)] <= Precedence[effect]
    BY <1>2, <2>2, <2>3, PlanIsStrictest
  <2>5. Evaluate(Rules, context) # "DENY"
    BY <1>3, <2>4 DEF Effects, Precedence
  <2>6. /\ {rule \in Rules : Matches(rule.condition, context)} # {}
        /\ \A rule \in {r \in Rules : Matches(r.condition, context)} :
             Precedence[rule.effect] <= Precedence[Evaluate(Rules, context)]
    BY <2>5, RulesThatSpeak
  <2>7. \A e \in Effects : Precedence[e] \in Nat
    BY DEF Effects, Precedence
  <2>8. \A rule \in Rules : rule.effect \in Effects
    BY RulesAssumption
  <2> QED
    BY <2>4, <2>6, <2>7, <2>8
<1>4. \A other \in Plans :
        Reshuffled(plan, other) => effect = PlanEffect(Rules, Tools, user, other, risk)
  BY <1>2, ReshufflingIsNothing
<1> QED
  BY <1>1, <1>3, <1>4 DEF StrictestWins

LEMMA DecisionNextOK == DecisionInv /\ [Next]_vars => DecisionInv'
<1> SUFFICES ASSUME DecisionInv, [Next]_vars PROVE DecisionInv'
  OBVIOUS
<1>1. CASE UNCHANGED decided
  BY <1>1 DEF DecisionInv
<1>2. CASE decided' = Undecided
  BY <1>2 DEF DecisionInv, Undecided
<1>3. CASE Decide
  BY <1>3 DEF Decide, DecisionInv
<1>4. Next => UNCHANGED decided \/ decided' = Undecided \/ Decide
  BY DEF Next, StartProcess, RegisterPack, ProbeCollection, ResetCollection, AddDocuments,
         BindHandlers, Serve, Verify, Stop
<1>5. UNCHANGED vars => UNCHANGED decided
  BY DEF vars
<1> QED
  BY <1>1, <1>2, <1>3, <1>4, <1>5

\* No effect is laxer than a rule that speaks of an action, nor depends on how the plan
\* is spread (PolicyEngine.evaluate, evaluate_actions, aggregate_effect).
THEOREM StrictestAlwaysWins == Spec => []StrictestWins
<1>1. Init => DecisionInv
  BY DEF Init, DecisionInv
<1> QED
  BY <1>1, DecisionIsStrictest, DecisionNextOK, PTL DEF Spec

(***************************************************************************)
(* Packs                                                                   *)
(***************************************************************************)

\* A rule that covers a tool can be met, with as many devices as it asks for.
LEMMA CoveredIsDecidable ==
    ASSUME RulesCanMatch, NEW capability, capability.name \in DOMAIN Tools,
           NEW rule \in Rules, Covers(rule, capability)
    PROVE  Decidable(capability)
<1>1. PICK condition : condition = rule.condition
  OBVIOUS
<1>2. /\ condition.risk \subseteq RiskLevels /\ condition.role \subseteq Roles
      /\ condition.min \in Nat /\ condition.max \in Nat \cup {NoLimit}
      /\ condition.max # NoLimit => condition.min <= condition.max
      /\ condition.max # 0
  BY <1>1, RulesAssumption DEF ValidCondition, RulesCanMatch
<1>3. PICK risk \in RiskLevels : Allowed(condition.risk, risk)
  BY <1>2 DEF Allowed, RiskLevels
<1>4. PICK role \in Roles : condition.role = {} \/ condition.role \cap {role} # {}
  BY <1>2 DEF Roles
<1>5. PICK n \in 1..(condition.min + 1) :
        condition.min <= n /\ (condition.max # NoLimit => n <= condition.max)
  <2>1. CASE condition.min = 0
    <3>1. condition.min <= 1 /\ (condition.max # NoLimit => 1 <= condition.max)
      BY <1>2, <2>1
    <3> QED
      BY <1>2, <3>1
  <2>2. CASE condition.min # 0
    BY <1>2, <2>2
  <2> QED
    BY <2>1, <2>2
<1>6. Cardinality(1..n) = n
  BY <1>2, <1>5, FS_Interval
<1> DEFINE context == [roles |-> {role}, permission |-> capability.permission, risk |-> risk,
                       operation |-> Tools[capability.name], devices |-> 1..n]
<1>7. /\ context.roles = {role} /\ context.permission = capability.permission
      /\ context.risk = risk /\ context.operation = Tools[capability.name]
      /\ context.devices = 1..n
  OBVIOUS
<1> HIDE DEF context
<1>8. Matches(condition, context)
  BY <1>1, <1>2, <1>3, <1>4, <1>5, <1>6, <1>7 DEF Matches, Covers
<1> QED
  BY <1>1, <1>3, <1>4, <1>5, <1>8 DEF Decidable, context

\* What a pack that went through the gates stands on.
Whole(p) ==
    /\ \A i \in DOMAIN p.caps : p.caps[i] \in caps
    /\ \A d \in p.dependsOn : Named(d)
    /\ Gated => \A i \in DOMAIN p.caps : p.caps[i].name \in DOMAIN Tools => Decidable(p.caps[i])

\* What is registered came with a handler or with a spec, and what is bound stays bound.
PackInv ==
    /\ \A p \in packs : Whole(p)
    /\ \A p, q \in packs : p.name = q.name => p = q
    /\ indexed => collection = "full"
    /\ phase = "indexing" => ~indexed
    /\ phase = "down" => packs = {} /\ ~bound
    /\ bound => \A i \in DOMAIN Bindings : Bindings[i] \in handlers
    /\ \A c \in caps : c \in Offered \/ (c \in UNION Preloads /\ Key(c) \in handlers)
    /\ phase = "up" => bound /\ mounted \subseteq packs

LEMMA PackInvIsEnough ==
    ASSUME GoalsAreBound, PackInv
    PROVE  PacksAreUsable
<1>1. ASSUME NEW query \in Queries, NEW c \in Resolve(caps, query), bound
      PROVE  Key(c) \in handlers
  <2>1. PICK d \in caps : Answers(d, query) /\ c \in Get(caps, d.name, query.version)
    BY <1>1 DEF Resolve
  <2>2. /\ c \in caps /\ c.name = d.name /\ c.enabled
        /\ query.version \in {0, c.version}
    BY <2>1 DEF Get
  <2>3. d \in Offered \cup UNION Preloads
    BY DEF PackInv
  <2>4. CASE c \in Offered
    <3>1. \E i \in DOMAIN Bindings : Bindings[i] = Key(c)
      BY <2>1, <2>2, <2>3, <2>4 DEF GoalsAreBound
    <3> QED
      BY <1>1, <3>1 DEF PackInv
  <2> QED
    BY <2>2, <2>4 DEF PackInv
<1> QED
  BY <1>1 DEF PackInv, PacksAreUsable, Whole

\* The gates let nothing through that is not whole.
LEMMA RegisterPackOK ==
    ASSUME RulesCanMatch, PackInv, NEW spec \in Specs, RegisterPack(spec)
    PROVE  PackInv'
<1>1. /\ ~Conflicts(spec) /\ ~MissesDependency(spec) /\ ~Uncovered(spec)
      /\ caps' = caps \cup {spec.caps[i] : i \in Fits(spec)}
      /\ packs' = IF Fits(spec) = DOMAIN spec.caps THEN packs \cup {spec} ELSE packs
      /\ phase = "assembling" /\ phase' \in {"assembling", "probing"}
      /\ UNCHANGED <<handlers, bound, mounted, collection, indexed>>
  BY DEF RegisterPack, Register, Refused
<1>2. caps \subseteq caps' /\ packs \subseteq packs'
  BY <1>1
<1>3. ASSUME NEW p \in packs
      PROVE  Whole(p)'
  <2>1. Whole(p)
    BY DEF PackInv
  <2>2. (\A d \in p.dependsOn : Named(d))'
    BY <1>2, <2>1 DEF Whole, Named
  <2> QED
    BY <1>2, <2>1, <2>2 DEF Whole, Decidable
<1>4. ASSUME Fits(spec) = DOMAIN spec.caps
      PROVE  Whole(spec)'
  <2>1. \A i \in DOMAIN spec.caps : spec.caps[i] \in caps'
    BY <1>1, <1>4
  <2>2. \A d \in spec.dependsOn : \E p \in packs' : p.name = d
    BY <1>1, <1>2 DEF MissesDependency, Named
  <2>3. ASSUME Gated, NEW i \in DOMAIN spec.caps, spec.caps[i].name \in DOMAIN Tools
        PROVE  Decidable(spec.caps[i])
    BY <1>1, <2>3, CoveredIsDecidable DEF Uncovered
  <2> QED
    BY <2>1, <2>2, <2>3 DEF Whole, Named, Decidable
<1>5. \A p \in packs' : Whole(p)'
  BY <1>1, <1>3, <1>4
<1>6. \A p, q \in packs' : p.name = q.name => p = q
  BY <1>1 DEF PackInv, Conflicts, Named
<1>7. \A c \in caps' : c \in Offered \/ (c \in UNION Preloads /\ Key(c) \in handlers)
  <2>1. \A i \in Fits(spec) : spec.caps[i] \in Offered
    BY DEF Fits, Offered
  <2> QED
    BY <1>1, <2>1 DEF PackInv
<1> QED
  BY <1>1, <1>5, <1>6, <1>7 DEF PackInv, Offered

LEMMA StartProcessOK == PackInv /\ StartProcess => PackInv'
<1> SUFFICES ASSUME PackInv, StartProcess PROVE PackInv'
  OBVIOUS
<1>1. /\ packs' = {} /\ ~bound' /\ phase' = "assembling" /\ caps' \in Preloads
      /\ handlers' = {Key(c) : c \in caps'}
      /\ indexed' = indexed /\ collection' = collection
  BY DEF PackInv, StartProcess
<1>2. \A c \in caps' : c \in UNION Preloads /\ Key(c) \in handlers'
  BY <1>1
<1> QED
  BY <1>1, <1>2 DEF PackInv, Key

\* A step that leaves the registries alone.
LEMMA OtherStepOK ==
    ASSUME PackInv, packs' = packs, caps' = caps, handlers \subseteq handlers',
           bound' => \A i \in DOMAIN Bindings : Bindings[i] \in handlers',
           indexed' => collection' = "full",
           phase' = "indexing" => ~indexed',
           phase' = "down" => packs' = {} /\ ~bound',
           phase' = "up" => bound' /\ mounted' \subseteq packs'
    PROVE  PackInv'
<1>1. \A p \in packs' : Whole(p)'
  BY DEF PackInv, Whole, Named, Decidable
<1>2. \A c \in caps' : c \in Offered \/ (c \in UNION Preloads /\ Key(c) \in handlers')
  BY DEF PackInv
<1>3. \A p, q \in packs' : p.name = q.name => p = q
  BY DEF PackInv
<1> QED
  BY <1>1, <1>2, <1>3 DEF PackInv, Offered

LEMMA PackNextOK == RulesCanMatch /\ PackInv /\ [Next]_vars => PackInv'
<1> SUFFICES ASSUME RulesCanMatch, PackInv, [Next]_vars PROVE PackInv'
  OBVIOUS
<1>1. CASE StartProcess
  BY <1>1, StartProcessOK
<1>2. CASE \E spec \in Specs : RegisterPack(spec)
  BY <1>2, RegisterPackOK
<1>3. CASE ProbeCollection
  BY <1>3, OtherStepOK DEF ProbeCollection, assembly, PackInv
<1>4. CASE ResetCollection
  BY <1>4, OtherStepOK DEF ResetCollection, assembly, PackInv
<1>5. CASE AddDocuments
  BY <1>5, OtherStepOK DEF AddDocuments, assembly, PackInv
<1>6. CASE BindHandlers
  <2>1. bound' => \A i \in DOMAIN Bindings : Bindings[i] \in handlers'
    BY <1>6 DEF BindHandlers
  <2>2. /\ packs' = packs /\ caps' = caps /\ handlers \subseteq handlers'
        /\ phase = "assembling" /\ phase' = phase /\ collection' = collection
        /\ indexed' = indexed /\ mounted' = mounted
    BY <1>6 DEF BindHandlers
  <2> QED
    BY <2>1, <2>2, OtherStepOK DEF PackInv
<1>7. CASE Serve
  BY <1>7, OtherStepOK DEF Serve, PackInv
<1>8. CASE Decide
  BY <1>8, OtherStepOK DEF Decide, assembly, PackInv
<1>9. CASE \E c \in Callers : Verify(c)
  BY <1>9, OtherStepOK DEF Verify, assembly, PackInv
<1>10. CASE Stop
  <2>1. packs' = {} /\ caps' = {} /\ ~bound' /\ ~indexed' /\ phase' = "down"
    BY <1>10 DEF Stop
  <2> QED
    BY <2>1 DEF PackInv
<1>11. CASE UNCHANGED vars
  BY <1>11, OtherStepOK DEF vars, assembly, PackInv
<1> QED
  BY <1>1, <1>2, <1>3, <1>4, <1>5, <1>6, <1>7, <1>8, <1>9, <1>10, <1>11 DEF Next

\* Whatever is registered, in whatever order, between two processes: a pack on record is
\* whole, and what a served goal resolves to can be called (PackRegistry.register,
\* bind_embeddedops_handlers, CapabilityResolver.resolve, create_app).
THEOREM RegisteredIsUsable ==
    ASSUME RulesCanMatch, GoalsAreBound
    PROVE  Spec => []PacksAreUsable
<1>1. Init => PackInv
  BY DEF Init, PackInv
<1>2. PackInv /\ [Next]_vars => PackInv'
  BY PackNextOK
<1>3. PackInv => PacksAreUsable
  BY PackInvIsEnough
<1> QED
  BY <1>1, <1>2, <1>3, PTL DEF Spec

================================================================================
