---------------------------- MODULE CalculationRun ----------------------------
(***************************************************************************)
(* One single-point or optimisation run of the engine, from the command    *)
(* line or through run_async: the pipeline of engine.run and               *)
(* BaseRunner.execute (load, compute, write the files one by one and in    *)
(* place, append the timing), what interrupts it (the first and the second *)
(* signal, the watchdog, the cancel event, exceptions, a kill), and the    *)
(* task that reads the events of the worker thread.                        *)
(*                                                                         *)
(* The value of an evaluation is finite or not; a file is what a reader of *)
(* the directory would find.  Molecular dynamics has its own module,       *)
(* MDOutput; NEB has NebRun.                                               *)
(***************************************************************************)
EXTENDS RunStatus, Sequences, FiniteSets

CONSTANTS
    MaxSteps,     \* max_steps of the optimiser
    MaxMishaps    \* bound on exceptions and on kills

ASSUME RunAssumption == MaxSteps \in Nat /\ MaxMishaps \in Nat

OutFiles == {"OUTCAR", "OSZICAR", "JSON", "CONTCAR"}
WriteOrder == <<"OUTCAR", "OSZICAR", "JSON", "CONTCAR">>

VARIABLES
    calc,       \* "sp" or "opt"
    frontend,   \* "cli" or "async"
    rpc,        \* where the run is
    todo,       \* files still to write, of those the options ask for
    wanted,     \* the files the options ask for
    files,      \* what is in the output directory
    value,      \* the last evaluation of the model
    nsteps, converged,
    recorded,   \* the optimiser's trajectory has an entry
    raised,     \* the exception in flight
    cancelled,  \* the cancel event
    signals,    \* signals that the handler has seen
    watchdog,   \* "off", "on" or "fired"
    timingLost, \* the timing could not be appended
    exit,       \* exit code of the process; -1 while it runs
    events,     \* terminal events posted to the reader and not read yet
    reader,     \* where the reading task is
    mishaps

runVars == <<calc, frontend, rpc, todo, wanted, files, value, nsteps, converged, recorded,
             raised, cancelled, signals, watchdog, timingLost, exit, events, reader, mishaps>>
setup == <<calc, frontend, wanted>>
control == <<cancelled, signals, watchdog, mishaps>>
endings == <<timingLost, exit, events, reader>>
compute == <<value, nsteps, converged, recorded>>

RunSteps == {"idle", "load", "evaluate", "step", "final", "write", "writing",
             "timing", "rewriting", "report", "unwind", "settle", "over"}
Readers == {"none", "waiting", "holding", "joining", "joiningTimed", "left"}

RunTypeOK ==
    /\ calc \in {"none", "sp", "opt"} /\ frontend \in {"none", "cli", "async"}
    /\ rpc \in RunSteps
    /\ wanted \subseteq OutFiles /\ todo \subseteq wanted
    /\ files \in [OutFiles -> {"absent", "earlier", "retimed", "torn", "whole", "nan"}]
    /\ value \in {"finite", "nan"} /\ nsteps \in 0..MaxSteps /\ converged \in BOOLEAN
    /\ recorded \in BOOLEAN
    /\ raised \in {"none", "CancellationRequested", "KeyboardInterrupt", "Exception", "Base"}
    /\ cancelled \in BOOLEAN /\ signals \in 0..2 /\ watchdog \in {"off", "on", "fired"}
    /\ timingLost \in BOOLEAN /\ exit \in {-1, -9, 0, 1, 2, 130}
    /\ events \in Seq({"done", "error", "cancelled"}) /\ Len(events) <= 2
    /\ reader \in Readers
    /\ mishaps \in 0..MaxMishaps

RunInit ==
    /\ calc = "none" /\ frontend = "none" /\ rpc = "idle"
    /\ wanted = {} /\ todo = {} /\ files = [f \in OutFiles |-> "absent"]
    /\ value = "finite" /\ nsteps = 0 /\ converged = FALSE /\ recorded = FALSE
    /\ raised = "none"
    /\ cancelled = FALSE /\ signals = 0 /\ watchdog = "off"
    /\ timingLost = FALSE /\ exit = -1 /\ events = <<>> /\ reader = "none"
    /\ mishaps = 0

Step(p) == rpc' = p /\ UNCHANGED raised
Raise(e) == rpc' = "unwind" /\ raised' = e

Mishap == mishaps < MaxMishaps /\ mishaps' = mishaps + 1

-------------------------------------------------------------------------------
(* The pipeline *)

\* cmd_sp, cmd_opt, or the start of run_async.  The directory is new or holds
\* the files of an earlier run; CONTCAR cannot be switched off for opt.
BeginRun ==
    /\ rpc = "idle"
    /\ calc' \in {"sp", "opt"}
    /\ frontend' \in {"cli", "async"}
    /\ wanted' \in {w \in SUBSET OutFiles :
                       /\ calc' = "opt" => "CONTCAR" \in w
                       /\ calc' = "sp" => "OSZICAR" \notin w}
    /\ files' \in {[f \in OutFiles |-> s] : s \in {"absent", "earlier"}}
    /\ reader' = IF frontend' = "async" THEN "waiting" ELSE "none"
    /\ Step("load")
    /\ UNCHANGED <<todo, compute, control, timingLost, exit, events>>

\* The model is loaded and the structure prepared.
Load ==
    /\ rpc = "load"
    /\ Step(IF calc = "sp" THEN "final" ELSE "evaluate")
    /\ UNCHANGED <<setup, todo, files, compute, control, endings>>

\* trajectory_callback, called before the first step and after every step.
ObserveForces ==
    /\ rpc = "evaluate"
    /\ value' \in {"finite", "nan"}
    /\ recorded' = (recorded \/ (~cancelled /\ value' = "finite"))
    /\ IF cancelled THEN Raise("CancellationRequested") /\ UNCHANGED converged
       ELSE IF value' = "nan" THEN Raise("Exception") /\ UNCHANGED converged
       ELSE \/ nsteps < MaxSteps /\ Step("step") /\ UNCHANGED converged
            \/ Step("final") /\ converged' = TRUE
            \/ nsteps = MaxSteps /\ Step("final") /\ UNCHANGED converged
    /\ UNCHANGED <<setup, todo, files, nsteps, control, endings>>

OptimiserStep ==
    /\ rpc = "step"
    /\ nsteps' = nsteps + 1
    /\ Step("evaluate")
    /\ UNCHANGED <<setup, todo, files, value, converged, recorded, control, endings>>

\* Any other exception of the optimiser: partial results are still written.  It
\* may be one of the model, before the callback has recorded its first entry,
\* or one of the callback's own log, after that.
OptimiserFails ==
    /\ rpc \in {"evaluate", "step"}
    /\ Mishap
    /\ Step("final") /\ converged' = FALSE
    /\ recorded' \in {recorded, TRUE}
    /\ UNCHANGED <<setup, todo, files, value, nsteps, cancelled, signals, watchdog, endings>>

\* Energy, forces and stress of the result, and _check_finite.  OSZICAR is
\* written of a trajectory that has an entry.
Evaluate ==
    /\ rpc = "final"
    /\ value' \in {"finite", "nan"}
    /\ IF value' = "nan" THEN Raise("Exception") /\ UNCHANGED todo
       ELSE Step("write") /\ todo' = IF recorded THEN wanted ELSE wanted \ {"OSZICAR"}
    /\ UNCHANGED <<setup, files, nsteps, converged, recorded, control, endings>>

NextFile == CHOOSE f \in todo : \E i \in DOMAIN WriteOrder :
                /\ WriteOrder[i] = f
                /\ \A j \in 1..(i - 1) : WriteOrder[j] \notin todo

\* A bug that OpenFile must not have: a file that is there is kept.
OpenMissing ==
    /\ rpc = "write" /\ todo # {}
    /\ IF files[NextFile] = "absent"
       THEN files' = [files EXCEPT ![NextFile] = "torn"] /\ Step("writing") /\ UNCHANGED todo
       ELSE todo' = todo \ {NextFile} /\ UNCHANGED <<files, rpc, raised>>
    /\ UNCHANGED <<setup, compute, control, endings>>

\* Every writer opens its file with "w".
OpenFile ==
    /\ rpc = "write" /\ todo # {}
    /\ files' = [files EXCEPT ![NextFile] = "torn"]
    /\ Step("writing")
    /\ UNCHANGED <<setup, todo, compute, control, endings>>

FinishFile ==
    /\ rpc = "writing"
    /\ files' = [files EXCEPT ![NextFile] = IF value = "nan" THEN "nan" ELSE "whole"]
    /\ todo' = todo \ {NextFile}
    /\ Step("write")
    /\ UNCHANGED <<setup, compute, control, endings>>

FinishWrites ==
    /\ rpc = "write" /\ todo = {}
    /\ Step("timing")
    /\ UNCHANGED <<setup, todo, files, compute, control, endings>>

\* append_timing_to_outputs: OUTCAR is appended to, the JSON file is read and
\* written again; files that this run did not write are treated alike.
AppendTiming ==
    /\ rpc = "timing"
    /\ Step(IF files["JSON"] = "absent" THEN "report" ELSE "rewriting")
    /\ files' = [files EXCEPT ![
          "OUTCAR"] = IF @ = "earlier" THEN "retimed" ELSE @,
          !["JSON"] = IF @ = "absent" THEN @ ELSE "torn"]
    /\ UNCHANGED <<setup, todo, compute, control, endings>>

RewriteJson ==
    /\ rpc = "rewriting"
    /\ files' = [files EXCEPT !["JSON"] = IF "JSON" \in wanted THEN "whole" ELSE "retimed"]
    /\ Step("report")
    /\ UNCHANGED <<setup, todo, compute, control, endings>>

\* execute logs a warning and goes on.
TimingFails ==
    /\ rpc \in {"timing", "rewriting"}
    /\ Mishap
    /\ timingLost' = TRUE
    /\ Step("report")
    /\ UNCHANGED <<setup, todo, files, compute, cancelled, signals, watchdog,
                   exit, events, reader>>

Post(event) == events' = IF frontend = "async" THEN Append(events, event) ELSE events

\* The done event, after which the log is closed.
ReportDone ==
    /\ rpc = "report"
    /\ Step("settle")
    /\ Post("done")
    /\ UNCHANGED <<setup, todo, files, compute, control, timingLost, exit, reader>>

\* An exception anywhere else: a failed load, a bad cell, a full disk, a log
\* that cannot be written or closed.
RunFails ==
    /\ rpc \in {"load", "final", "write", "writing", "report", "settle"}
    /\ raised = "none"
    /\ Mishap
    /\ \/ Raise("Exception")
       \/ frontend = "async" /\ Raise("Base")
    /\ UNCHANGED <<setup, todo, files, compute, cancelled, signals, watchdog, endings>>

\* A bug that Unwind must not have: only cancellations are reported.
UnwindSilently ==
    /\ rpc = "unwind"
    /\ Step("settle")
    /\ IF raised = "CancellationRequested" THEN Post("cancelled") ELSE UNCHANGED events
    /\ UNCHANGED <<setup, todo, files, compute, control, timingLost, exit, reader>>

\* blocking_work turns what it caught into a terminal event; SystemExit and
\* the like pass it.
Unwind ==
    /\ rpc = "unwind"
    /\ Step("settle")
    /\ CASE raised = "CancellationRequested" -> Post("cancelled")
         [] raised = "Exception" -> Post("error")
         [] OTHER -> UNCHANGED events
    /\ UNCHANGED <<setup, todo, files, compute, control, timingLost, exit, reader>>

Result == [status |-> "absent", success |-> "absent",
           converged |-> IF calc = "sp" THEN "absent"
                         ELSE IF converged THEN "true" ELSE "false"]

\* The finally clause and the exit code of _run_product, or the end of the
\* worker's future.
Settle ==
    /\ rpc = "settle"
    /\ Step("over")
    /\ IF frontend = "cli"
       THEN exit' = ExitCode[IF raised = "none" THEN ClassifyResult(Result, calc)
                             ELSE ClassifyException(raised)]
       ELSE UNCHANGED exit
    /\ watchdog' = "off"
    /\ UNCHANGED <<setup, todo, files, compute, cancelled, signals, mishaps,
                   timingLost, events, reader>>

-------------------------------------------------------------------------------
(* What interrupts a run of the command line *)

InProduct == frontend = "cli" /\ rpc \notin {"idle", "over"} /\ exit = -1

FirstSignal ==
    /\ InProduct /\ ~cancelled
    /\ cancelled' = TRUE /\ signals' = 1 /\ watchdog' = "on"
    /\ UNCHANGED <<setup, rpc, raised, todo, files, compute, mishaps, endings>>

\* KeyboardInterrupt at whatever line the main thread is on.
SecondSignal ==
    /\ InProduct /\ cancelled /\ signals = 1
    /\ signals' = 2
    /\ Raise("KeyboardInterrupt")
    /\ UNCHANGED <<setup, todo, files, compute, cancelled, watchdog, mishaps, endings>>

\* _force_cancelled_exit
WatchdogFires ==
    /\ watchdog = "on" /\ exit = -1
    /\ watchdog' = "fired" /\ exit' = 130
    /\ Step("over")
    /\ UNCHANGED <<setup, todo, files, compute, cancelled, signals, mishaps,
                   timingLost, events, reader>>

KillRun ==
    /\ InProduct
    /\ Mishap
    /\ exit' = -9 /\ Step("over")
    /\ UNCHANGED <<setup, todo, files, compute, cancelled, signals, watchdog,
                   timingLost, events, reader>>

-------------------------------------------------------------------------------
(* The task that reads run_async *)

ReaderOnly == UNCHANGED <<setup, rpc, raised, todo, files, compute, signals, watchdog,
                          mishaps, timingLost, exit>>

ReadEvent ==
    /\ reader = "waiting" /\ events # <<>>
    /\ events' = Tail(events) /\ reader' = "holding"
    /\ UNCHANGED cancelled /\ ReaderOnly

\* Every event the reader is handed here is a terminal one: it breaks out of
\* its loop.  So does a consumer that stops iterating.
LeaveLoop ==
    /\ \/ reader = "holding"
       \/ reader = "waiting" /\ rpc \in {"load", "evaluate", "step", "final", "write", "writing"}
    /\ reader' = "joining"
    /\ UNCHANGED <<cancelled, events>> /\ ReaderOnly

\* CancelledError inside queue.get.
CancelReader ==
    /\ reader = "waiting"
    /\ reader' = "joiningTimed" /\ cancelled' = TRUE
    /\ UNCHANGED events /\ ReaderOnly

\* The worker is through, or the 30 seconds of wait_for are over.
JoinWorker ==
    /\ \/ reader = "joining" /\ rpc = "over"
       \/ reader = "joiningTimed"
    /\ reader' = "left"
    /\ UNCHANGED <<cancelled, events>> /\ ReaderOnly

-------------------------------------------------------------------------------
ModelReturns == Load \/ ObserveForces \/ OptimiserStep \/ Evaluate

Pipeline ==
    \/ OpenFile \/ FinishFile \/ FinishWrites
    \/ AppendTiming \/ RewriteJson \/ ReportDone \/ Unwind \/ Settle

RunNext ==
    \/ BeginRun \/ ModelReturns \/ Pipeline
    \/ OptimiserFails \/ TimingFails \/ RunFails
    \/ FirstSignal \/ SecondSignal \/ WatchdogFires \/ KillRun
    \/ ReadEvent \/ LeaveLoop \/ CancelReader \/ JoinWorker

\* A call of the model may never return; Python code between the calls, the
\* timer thread and the event loop go on.  Nothing makes a run begin, fail or
\* be interrupted.
RunFairness ==
    /\ WF_runVars(exit = -1 /\ Pipeline)
    /\ WF_runVars(WatchdogFires)
    /\ WF_runVars(ReadEvent) /\ WF_runVars(reader # "waiting" /\ LeaveLoop) /\ WF_runVars(JoinWorker)

RunSpec == RunInit /\ [][RunNext]_runVars
FairRunSpec == RunSpec /\ RunFairness

-------------------------------------------------------------------------------
(* Properties *)

\* Every file that was asked for is complete, of this run, and finite.  There
\* are two exceptions.  Appending the timing may break off, which execute only
\* logs: the JSON file is then torn.  An optimiser that failed before its first
\* record leaves nothing to write in OSZICAR: what is there is what was there
\* before, which may be the file of an earlier run.
Written ==
    \A f \in wanted :
        \/ files[f] = "whole"
        \/ f = "JSON" /\ timingLost
        \/ f = "OSZICAR" /\ ~recorded

\* A process that exits with 0 or 2 has written every file it was asked for,
\* in this run, whichever signal, exception or skipped check came in between,
\* but for the exceptions of Written; of these, a process that exits with 0 has
\* at most that of the timing, and its optimisation has converged.  A reader
\* that is told "done" finds the files finished, the timing included.
ExitTellsTheTruth ==
    /\ exit \in {0, 2} => Written
    /\ exit = 0 => calc = "sp" \/ (converged /\ recorded)
    /\ exit = 2 => calc = "opt" /\ ~converged
    /\ \A i \in DOMAIN events : events[i] = "done" => Written

\* A run ends.  A signal has an outcome even if the model never returns, and a
\* task that waits for events is not left waiting when the worker is through,
\* however the run ended, unless an exception outside Exception (a SystemExit in
\* a backend) ended it.
RunsEnd ==
    /\ signals > 0 ~> exit # -1
    /\ (frontend = "async" /\ rpc = "over" /\ raised # "Base") ~> reader = "left"

\* The docstring of run_async: when the generator is cancelled the event is
\* set so the worker thread can stop early.
LeaverCancels ==
    [][ reader = "waiting" /\ reader' \in {"joining", "joiningTimed"} => cancelled' ]_runVars

=============================================================================
