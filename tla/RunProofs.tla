------------------------------- MODULE RunProofs -------------------------------
(***************************************************************************)
(* A calculation, the screen that follows it and a batch of them tell the  *)
(* truth, for any number of steps, faults and structures; and the cache of *)
(* neighbour lists never gives a model anything but the pairs of a fresh   *)
(* search, for all atoms, cutoffs, skins and cells.  The parts of          *)
(* MCThreads, beside each other, behave as each does alone and keep their  *)
(* types.                                                                  *)
(***************************************************************************)
EXTENDS MCThreads, MDOutputProofs, SchedulerControlProofs

-------------------------------------------------------------------------------
(* CalculationRun *)

\* Of the files asked for, those that are not among rest are of this run.  An
\* OSZICAR of which there is nothing to write is not.
WholeBut(rest) ==
    \A f \in wanted \ rest : files[f] = "whole" \/ (f = "OSZICAR" /\ ~recorded)

\* How far the pipeline is tells what is written; it goes on only as long as
\* nothing was raised.
PipelineTrue ==
    /\ rpc \in {"write", "writing"} => value = "finite" /\ WholeBut(todo)
    /\ rpc = "writing" => todo # {}
    /\ rpc = "timing" => WholeBut({})
    /\ rpc = "rewriting" => WholeBut({"JSON"})
    /\ rpc = "report" => Written
    /\ rpc = "settle" /\ raised = "none" => Written
    /\ rpc \notin {"unwind", "settle", "over"} => raised = "none"
    /\ rpc = "unwind" => raised # "none"

\* The events posted by now: one that the worker reports, one if it fails after.
Posted ==
    IF frontend # "async" \/ rpc \notin {"settle", "unwind", "over"} THEN 0
    ELSE IF rpc = "unwind" \/ (rpc = "settle" /\ raised = "none") THEN 1 ELSE 2

EventsTrue ==
    /\ Len(events) <= Posted
    /\ \A i \in DOMAIN events : events[i] = "done" => Written

\* Nothing has happened before the run begins; nothing is written after its end.
Bounds ==
    /\ rpc = "idle" => exit = -1 /\ todo = {} /\ watchdog = "off"
    /\ rpc # "idle" => calc \in {"sp", "opt"} /\ frontend \in {"cli", "async"}
    /\ rpc = "step" => nsteps < MaxSteps
    /\ exit # -1 => rpc = "over"

\* An optimisation that has converged has recorded a step.
ConvergedRecorded == converged => recorded

RunInv ==
    RunTypeOK /\ PipelineTrue /\ EventsTrue /\ Bounds /\ ConvergedRecorded /\ ExitTellsTheTruth

\* There is a next file as long as there is one to do.
LEMMA NextFileIsToDo ==
    ASSUME RunTypeOK, todo # {}
    PROVE  NextFile \in todo
<1> DEFINE First(f) == \E i \in DOMAIN WriteOrder :
                          /\ WriteOrder[i] = f
                          /\ \A j \in 1..(i - 1) : WriteOrder[j] \notin todo
<1>1. DOMAIN WriteOrder = 1..4 /\ WriteOrder[1] = "OUTCAR" /\ WriteOrder[2] = "OSZICAR"
        /\ WriteOrder[3] = "JSON" /\ WriteOrder[4] = "CONTCAR"
  BY DEF WriteOrder
<1>2. todo \subseteq {"OUTCAR", "OSZICAR", "JSON", "CONTCAR"}
  BY DEF RunTypeOK, OutFiles
<1>3. \E f \in todo : First(f)
  <2>1. CASE "OUTCAR" \in todo
    BY <1>1, <2>1
  <2>2. CASE "OUTCAR" \notin todo /\ "OSZICAR" \in todo
    BY <1>1, <2>2
  <2>3. CASE "OUTCAR" \notin todo /\ "OSZICAR" \notin todo /\ "JSON" \in todo
    BY <1>1, <2>3
  <2>4. CASE "OUTCAR" \notin todo /\ "OSZICAR" \notin todo /\ "JSON" \notin todo /\ "CONTCAR" \in todo
    BY <1>1, <2>4
  <2> QED BY <1>2, <2>1, <2>2, <2>3, <2>4
<1>4. NextFile = CHOOSE f \in todo : First(f)
  BY DEF NextFile
<1> HIDE DEF First
<1> QED BY <1>3, <1>4

\* Every step keeps the types.
LEMMA RunTypesStep ==
    ASSUME RunInv, [RunNext]_runVars
    PROVE  RunTypeOK'
<1> USE RunAssumption DEF Step, Raise, Mishap
<1>1. RunTypeOK
  BY DEF RunInv
<1>2. CASE BeginRun
  <2>1. files' \in [OutFiles -> {"absent", "earlier", "retimed", "torn", "whole", "nan"}]
    BY <1>2 DEF BeginRun
  <2>2. wanted' \subseteq OutFiles /\ todo' \subseteq wanted'
    BY <1>2 DEF BeginRun, RunInv, Bounds
  <2>3. events' \in Seq({"done", "error", "cancelled"}) /\ Len(events') <= 2
    BY <1>1, <1>2 DEF BeginRun, RunTypeOK
  <2> QED BY <1>1, <1>2, <2>1, <2>2, <2>3 DEF BeginRun, RunTypeOK, RunSteps, Readers, compute, control
<1>3. CASE ModelReturns
  <2>1. nsteps' \in 0..MaxSteps
    BY <1>1, <1>3 DEF ModelReturns, Load, ObserveForces, OptimiserStep, Evaluate, RunInv, Bounds, RunTypeOK, compute
  <2>2. todo' \subseteq wanted' /\ wanted' = wanted /\ files' = files
    BY <1>1, <1>3 DEF ModelReturns, Load, ObserveForces, OptimiserStep, Evaluate, RunTypeOK, setup
  <2>3. /\ value' \in {"finite", "nan"} /\ rpc' \in RunSteps
        /\ raised' \in {"none", "CancellationRequested", "KeyboardInterrupt", "Exception", "Base"}
    <3>1. CASE Load \/ OptimiserStep
      BY <1>1, <3>1 DEF Load, OptimiserStep, RunTypeOK, RunSteps, compute
    <3>2. CASE ObserveForces
      BY <1>1, <3>2 DEF ObserveForces, RunTypeOK, RunSteps
    <3>3. CASE Evaluate
      BY <1>1, <3>3 DEF Evaluate, RunTypeOK, RunSteps
    <3> QED BY <1>3, <3>1, <3>2, <3>3 DEF ModelReturns
  <2>5. converged' \in BOOLEAN
    BY <1>1, <1>3, Zenon DEF ModelReturns, Load, ObserveForces, OptimiserStep, Evaluate, RunTypeOK, compute
  <2>6. recorded' \in BOOLEAN
    BY <1>1, <1>3, Zenon DEF ModelReturns, Load, ObserveForces, OptimiserStep, Evaluate, RunTypeOK, compute
  <2>4. UNCHANGED <<calc, frontend, control, endings>>
    BY <1>3 DEF ModelReturns, Load, ObserveForces, OptimiserStep, Evaluate, setup
  <2> QED BY <1>1, <2>1, <2>2, <2>3, <2>4, <2>5, <2>6 DEF RunTypeOK, control, endings
<1>4. CASE OpenFile \/ FinishFile \/ FinishWrites \/ AppendTiming \/ RewriteJson
  <2>1. files' \in [OutFiles -> {"absent", "earlier", "retimed", "torn", "whole", "nan"}]
    BY <1>1, <1>4 DEF OpenFile, FinishFile, FinishWrites, AppendTiming, RewriteJson, RunTypeOK
  <2>2. todo' \subseteq wanted' /\ wanted' = wanted /\ rpc' \in RunSteps /\ raised' = raised
    BY <1>1, <1>4 DEF OpenFile, FinishFile, FinishWrites, AppendTiming, RewriteJson, RunTypeOK, RunSteps, setup
  <2>3. UNCHANGED <<calc, frontend, compute, control, endings>>
    BY <1>4 DEF OpenFile, FinishFile, FinishWrites, AppendTiming, RewriteJson, setup
  <2> QED BY <1>1, <2>1, <2>2, <2>3 DEF RunTypeOK, compute, control, endings
<1>5. CASE ReportDone \/ Unwind
  <2>1. events \in Seq({"done", "error", "cancelled"}) /\ Len(events) \in Nat /\ (frontend = "async" => Len(events) <= 1)
    BY <1>1, <1>5 DEF ReportDone, Unwind, RunInv, EventsTrue, Posted, RunTypeOK
  <2>2. events' = events \/ \E e \in {"done", "error", "cancelled"} : frontend = "async" /\ events' = Append(events, e)
    BY <1>5 DEF ReportDone, Unwind, Post
  <2>3. events' \in Seq({"done", "error", "cancelled"}) /\ Len(events') <= 2
    BY <1>1, <2>1, <2>2 DEF RunTypeOK
  <2>4. rpc' = "settle" /\ UNCHANGED <<setup, raised, todo, files, compute, control, timingLost, exit, reader>>
    BY <1>5 DEF ReportDone, Unwind
  <2> QED BY <1>1, <2>3, <2>4 DEF RunTypeOK, RunSteps, setup, compute, control
<1>6. CASE Settle
  <2>1. exit' \in {-1, -9, 0, 1, 2, 130}
    <3>1. CASE frontend = "cli" /\ raised = "none"
      <4>1. ClassifyResult(Result, calc) \in Outcomes
        BY DEF ClassifyResult, Result, Outcomes
      <4>2. exit' = ExitCode[ClassifyResult(Result, calc)]
        BY <1>6, <3>1 DEF Settle
      <4>3. \A o \in Outcomes : ExitCode[o] \in {0, 1, 2, 130}
        BY DEF ExitCode, Outcomes
      <4> QED BY <4>1, <4>2, <4>3
    <3>2. CASE frontend = "cli" /\ raised # "none"
      BY <1>6, <3>2 DEF Settle, ExitCode, Outcomes, ClassifyException
    <3>3. CASE frontend # "cli"
      BY <1>1, <1>6, <3>3 DEF Settle, RunTypeOK
    <3> QED BY <3>1, <3>2, <3>3
  <2> QED BY <1>1, <1>6, <2>1 DEF Settle, RunTypeOK, RunSteps, setup, compute
<1>7. CASE OptimiserFails
  <2>1. /\ mishaps' \in 0..MaxMishaps /\ rpc' = "final" /\ converged' = FALSE
        /\ UNCHANGED <<setup, raised, todo, files, value, nsteps, cancelled, signals, watchdog, endings>>
    BY <1>1, <1>7 DEF OptimiserFails, RunTypeOK
  <2>2. converged' \in BOOLEAN
    BY <2>1
  <2>3. recorded' \in BOOLEAN
    BY <1>1, <1>7, Zenon DEF OptimiserFails, RunTypeOK
  <2> QED BY <1>1, <2>1, <2>2, <2>3 DEF RunTypeOK, RunSteps, setup, endings
<1>12. CASE TimingFails \/ RunFails
  <2>1. /\ mishaps' \in 0..MaxMishaps /\ rpc' \in RunSteps
        /\ raised' \in {"none", "CancellationRequested", "KeyboardInterrupt", "Exception", "Base"}
    BY <1>1, <1>12 DEF TimingFails, RunFails, RunTypeOK, RunSteps
  <2>2. timingLost' \in BOOLEAN
    BY <1>1, <1>12, Zenon DEF TimingFails, RunFails, RunTypeOK, endings
  <2>3. UNCHANGED <<setup, todo, files, compute, cancelled, signals, watchdog, exit, events, reader>>
    BY <1>12 DEF TimingFails, RunFails, endings
  <2> QED BY <1>1, <2>1, <2>2, <2>3 DEF RunTypeOK, setup, compute
<1>8. CASE FirstSignal \/ SecondSignal
  <2>1. /\ signals' \in 0..2 /\ watchdog' \in {watchdog, "on"} /\ cancelled' \in {cancelled, TRUE}
        /\ rpc' \in {rpc, "unwind"} /\ raised' \in {raised, "KeyboardInterrupt"}
        /\ UNCHANGED <<setup, todo, files, compute, mishaps, endings>>
    <3>1. CASE FirstSignal
      BY <3>1 DEF FirstSignal
    <3>2. CASE SecondSignal
      BY <3>2 DEF SecondSignal
    <3> QED BY <1>8, <3>1, <3>2
  <2>2. cancelled' \in BOOLEAN
    BY <1>1, <2>1, Zenon DEF RunTypeOK
  <2> QED BY <1>1, <2>1, <2>2 DEF RunTypeOK, RunSteps, setup, compute, endings
<1>13. CASE WatchdogFires \/ KillRun
  BY <1>1, <1>13 DEF WatchdogFires, KillRun, RunTypeOK, RunSteps, setup, compute
<1>9. CASE ReadEvent
  <2>1. events' \in Seq({"done", "error", "cancelled"}) /\ Len(events') <= 2
    BY <1>1, <1>9 DEF ReadEvent, RunTypeOK
  <2> QED BY <1>1, <1>9, <2>1 DEF ReadEvent, ReaderOnly, RunTypeOK, Readers, setup, compute
<1>10. CASE LeaveLoop \/ CancelReader \/ JoinWorker
  <2>1. /\ reader' \in Readers /\ events' = events /\ cancelled' \in {cancelled, TRUE}
        /\ ReaderOnly
    BY <1>10 DEF LeaveLoop, CancelReader, JoinWorker, Readers
  <2>2. cancelled' \in BOOLEAN
    BY <1>1, <2>1, Zenon DEF RunTypeOK
  <2> QED BY <1>1, <2>1, <2>2 DEF ReaderOnly, RunTypeOK, setup, compute
<1>11. CASE UNCHANGED runVars
  BY <1>1, <1>11 DEF RunTypeOK, runVars
<1> QED BY <1>2, <1>3, <1>4, <1>5, <1>6, <1>7, <1>8, <1>9, <1>10, <1>11, <1>12, <1>13 DEF RunNext, Pipeline

\* What comes before the reports: nothing is posted and there is no exit code.
LEMMA NothingToldEarly ==
    ASSUME RunInv, rpc \notin {"settle", "unwind", "over"}
    PROVE  events = <<>> /\ exit = -1
  BY DEF RunInv, EventsTrue, Posted, Bounds, RunTypeOK

\* The steps that write, which come before the reports.
Writing == BeginRun \/ OpenFile \/ FinishFile \/ AppendTiming \/ RewriteJson \/ TimingFails

\* Only they change what is written; and a record is made before.
LEMMA FilesStay ==
    ASSUME [RunNext]_runVars, ~Writing
    PROVE  /\ UNCHANGED <<wanted, files, timingLost, calc, frontend>>
           /\ rpc \notin {"evaluate", "step"} => recorded' = recorded
<1> USE DEF setup, endings, compute
<1>1. CASE ModelReturns
  BY <1>1 DEF ModelReturns, Load, ObserveForces, OptimiserStep, Evaluate
<1>2. CASE FinishWrites \/ ReportDone \/ Unwind \/ Settle
  BY <1>2 DEF FinishWrites, ReportDone, Unwind, Settle
<1>3. CASE OptimiserFails \/ RunFails
  BY <1>3 DEF OptimiserFails, RunFails
<1>4. CASE FirstSignal \/ SecondSignal \/ WatchdogFires \/ KillRun
  BY <1>4 DEF FirstSignal, SecondSignal, WatchdogFires, KillRun
<1>5. CASE ReadEvent \/ LeaveLoop \/ CancelReader \/ JoinWorker
  BY <1>5 DEF ReadEvent, LeaveLoop, CancelReader, JoinWorker, ReaderOnly
<1>6. CASE UNCHANGED runVars
  BY <1>6 DEF runVars
<1> QED BY <1>1, <1>2, <1>3, <1>4, <1>5, <1>6 DEF RunNext, Pipeline, Writing

\* What the pipeline has written is whole, of this run and finite.
LEMMA PipelineStep ==
    ASSUME RunInv, [RunNext]_runVars
    PROVE  PipelineTrue'
<1>1. RunTypeOK /\ PipelineTrue /\ Bounds
  BY DEF RunInv
<1>2. CASE BeginRun
  BY <1>1, <1>2 DEF BeginRun, Step, PipelineTrue
<1>3. CASE OpenFile
  <2>1. NextFile \in todo /\ todo \subseteq wanted /\ wanted \subseteq OutFiles
    BY <1>1, <1>3, NextFileIsToDo DEF OpenFile, RunTypeOK
  <2> HIDE DEF NextFile
  <2>2. WholeBut(todo)'
    BY <1>1, <1>3, <2>1 DEF OpenFile, PipelineTrue, WholeBut, RunTypeOK, setup, compute
  <2> QED BY <1>1, <1>3, <2>2 DEF OpenFile, Step, PipelineTrue, compute
<1>4. CASE FinishFile
  <2> HIDE DEF NextFile
  <2>1. value = "finite"
    BY <1>1, <1>4 DEF FinishFile, PipelineTrue
  <2>2. WholeBut(todo)'
    BY <1>1, <1>4, <2>1 DEF compute, FinishFile, PipelineTrue, WholeBut, RunTypeOK, setup
  <2> QED BY <1>1, <1>4, <2>1, <2>2 DEF FinishFile, Step, PipelineTrue, compute
<1>5. CASE AppendTiming
  <2>1. WholeBut({})
    BY <1>1, <1>5 DEF AppendTiming, PipelineTrue
  <2>2. WholeBut({"JSON"})'
    BY <1>1, <1>5, <2>1 DEF AppendTiming, WholeBut, RunTypeOK, OutFiles, setup, compute
  <2>3. files["JSON"] = "absent" => WholeBut({})'
    BY <1>1, <1>5, <2>1 DEF AppendTiming, WholeBut, RunTypeOK, OutFiles, setup, compute
  <2> QED BY <1>1, <1>5, <2>2, <2>3 DEF AppendTiming, Step, PipelineTrue, WholeBut, Written
<1>6. CASE RewriteJson
  <2>1. WholeBut({})'
    BY <1>1, <1>6 DEF RewriteJson, PipelineTrue, WholeBut, RunTypeOK, OutFiles, setup, compute
  <2> QED BY <1>1, <1>6, <2>1 DEF RewriteJson, Step, PipelineTrue, WholeBut, Written
<1>7. CASE TimingFails
  <2>1. WholeBut({"JSON"})'
    BY <1>1, <1>7 DEF TimingFails, PipelineTrue, WholeBut, setup, compute
  <2> QED BY <1>1, <1>7, <2>1 DEF TimingFails, Step, PipelineTrue, WholeBut, Written
<1>8. CASE ~Writing
  <2>1. /\ UNCHANGED <<wanted, files, timingLost>>
        /\ rpc \notin {"evaluate", "step"} => recorded' = recorded
    BY <1>8, FilesStay
  <2>2. rpc \notin {"evaluate", "step"} => (Written' <=> Written)
    BY <2>1 DEF Written
  <2> USE DEF Step, Raise
  <2>4. CASE Load \/ OptimiserStep
    BY <1>1, <2>4 DEF Load, OptimiserStep, PipelineTrue
  <2>5. CASE ObserveForces
    BY <1>1, <2>5 DEF ObserveForces, PipelineTrue
  <2>6. CASE Evaluate
    BY <1>1, <2>1, <2>6 DEF Evaluate, PipelineTrue, WholeBut, setup
  <2>7. CASE FinishWrites
    BY <1>1, <2>1, <2>7 DEF FinishWrites, PipelineTrue, WholeBut
  <2>8. CASE ReportDone \/ Settle
    BY <1>1, <2>2, <2>8 DEF ReportDone, Settle, PipelineTrue
  <2>9. CASE Unwind
    BY <1>1, <2>9 DEF Unwind, PipelineTrue
  <2>10. CASE OptimiserFails \/ RunFails
    BY <1>1, <2>10 DEF OptimiserFails, RunFails, PipelineTrue
  <2>11. CASE FirstSignal
    BY <1>1, <2>1, <2>2, <2>11 DEF FirstSignal, PipelineTrue, WholeBut, compute
  <2>12. CASE SecondSignal \/ WatchdogFires \/ KillRun
    BY <1>1, <2>12 DEF SecondSignal, WatchdogFires, KillRun, PipelineTrue
  <2>13. CASE ReadEvent \/ LeaveLoop \/ CancelReader \/ JoinWorker
    <3>1. UNCHANGED <<rpc, raised, todo, value>>
      BY <2>13 DEF ReadEvent, LeaveLoop, CancelReader, JoinWorker, ReaderOnly, compute
    <3> QED BY <1>1, <2>1, <2>2, <3>1 DEF PipelineTrue, WholeBut
  <2>14. CASE UNCHANGED runVars
    BY <1>1, <2>1, <2>2, <2>14 DEF runVars, PipelineTrue, WholeBut
  <2> QED BY <1>8, <2>4, <2>5, <2>6, <2>7, <2>8, <2>9, <2>10, <2>11, <2>12, <2>13, <2>14
          DEF RunNext, Pipeline, ModelReturns, Writing
<1> QED BY <1>2, <1>3, <1>4, <1>5, <1>6, <1>7, <1>8 DEF Writing

\* The worker posts one event when it is through and one more if it fails after.
LEMMA EventsStep ==
    ASSUME RunInv, [RunNext]_runVars
    PROVE  EventsTrue'
<1>1. RunTypeOK /\ PipelineTrue /\ Bounds /\ EventsTrue
  BY DEF RunInv
<1>2. CASE Writing
  <2>1. rpc \notin {"settle", "unwind", "over"} /\ events' = events
    BY <1>2 DEF Writing, BeginRun, OpenFile, FinishFile, AppendTiming, RewriteJson, TimingFails, endings
  <2>2. events' = <<>>
    BY <2>1, NothingToldEarly
  <2>3. Posted' >= 0
    BY DEF Posted
  <2> QED BY <2>2, <2>3 DEF EventsTrue
<1>3. CASE ~Writing
  <2>1. /\ UNCHANGED <<wanted, files, timingLost, frontend>>
        /\ rpc \notin {"evaluate", "step"} => recorded' = recorded
    BY <1>3, FilesStay
  <2>0. rpc \notin {"evaluate", "step"} => (Written' <=> Written)
    BY <2>1 DEF Written
  <2>2. \/ Written' <=> Written
        \/ events = <<>>
    BY <2>0, NothingToldEarly
  <2> USE DEF Step, Raise
  <2>3. CASE ModelReturns \/ FinishWrites \/ OptimiserFails
    <3>1. rpc \notin {"settle", "unwind", "over"} /\ events' = events
      BY <2>3 DEF ModelReturns, Load, ObserveForces, OptimiserStep, Evaluate, FinishWrites, OptimiserFails, endings
    <3>2. events' = <<>>
      BY <3>1, NothingToldEarly
    <3>3. Posted' >= 0
      BY DEF Posted
    <3> QED BY <3>2, <3>3 DEF EventsTrue
  <2>4. CASE ReportDone
    <3>1. events = <<>> /\ Written /\ raised' = "none" /\ rpc = "report" /\ rpc' = "settle"
      BY <1>1, <2>4, NothingToldEarly DEF ReportDone, PipelineTrue
    <3>2. events' = <<>> \/ (frontend' = "async" /\ events' = <<"done">>)
      BY <2>1, <2>4, <3>1 DEF ReportDone, Post
    <3>3. Posted' = IF frontend' = "async" THEN 1 ELSE 0
      BY <3>1 DEF Posted
    <3>4. Len(events') <= Posted'
      BY <3>2, <3>3
    <3> QED BY <2>0, <3>1, <3>4 DEF EventsTrue
  <2>5. CASE Unwind
    <3>1. rpc = "unwind" /\ rpc' = "settle" /\ raised' # "none"
      BY <1>1, <2>5 DEF Unwind, PipelineTrue
    <3>2. \/ events' = events
          \/ frontend = "async" /\ \E e \in {"error", "cancelled"} : events' = Append(events, e)
      BY <2>5 DEF Unwind, Post
    <3>3. events \in Seq({"done", "error", "cancelled"}) /\ Len(events) <= IF frontend = "async" THEN 1 ELSE 0
      BY <1>1, <3>1 DEF EventsTrue, Posted, RunTypeOK
    <3>4. Len(events') <= Posted'
      BY <2>1, <3>1, <3>2, <3>3 DEF Posted
    <3>5. \A i \in DOMAIN events' : events'[i] = "done" => i \in DOMAIN events /\ events[i] = "done"
      BY <3>2, <3>3
    <3> QED BY <1>1, <2>2, <3>4, <3>5 DEF EventsTrue
  <2>6. CASE RunFails
    <3>1. raised = "none" /\ events' = events /\ rpc' = "unwind"
      BY <2>6 DEF RunFails, endings
    <3>2. rpc # "over"
      BY <2>6 DEF RunFails
    <3>3. Posted <= Posted'
      BY <1>1, <2>1, <3>1, <3>2 DEF Posted, PipelineTrue
    <3>4. Posted \in Nat /\ Posted' \in Nat /\ Len(events) \in Nat /\ Len(events) <= Posted
      BY <1>1 DEF Posted, EventsTrue, RunTypeOK
    <3>5. Len(events') <= Posted'
      BY <3>1, <3>3, <3>4
    <3> QED BY <1>1, <2>2, <3>1, <3>5 DEF EventsTrue
  <2>7. CASE Settle \/ KillRun \/ WatchdogFires
    <3>1. events' = events /\ rpc' = "over"
      BY <2>7 DEF Settle, KillRun, WatchdogFires
    <3> QED BY <1>1, <2>1, <2>2, <3>1 DEF EventsTrue, Posted, RunTypeOK
  <2>8. CASE FirstSignal \/ SecondSignal
    <3>1. events' = events /\ frontend = "cli"
      BY <2>8 DEF FirstSignal, SecondSignal, InProduct, endings
    <3> QED BY <1>1, <2>1, <2>2, <3>1 DEF EventsTrue, Posted, RunTypeOK
  <2>9. CASE ReadEvent
    <3>1. events' = Tail(events) /\ events # <<>> /\ UNCHANGED <<rpc, raised>>
      BY <2>9 DEF ReadEvent, ReaderOnly
    <3>2. Posted' = Posted /\ Posted \in Nat
      BY <2>1, <3>1 DEF Posted
    <3>3. Len(events') <= Len(events) /\ \A i \in DOMAIN events' : i + 1 \in DOMAIN events /\ events'[i] = events[i + 1]
      BY <1>1, <3>1 DEF RunTypeOK
    <3>4. Len(events) \in Nat /\ Len(events') \in Nat
      BY <1>1, <3>1 DEF RunTypeOK
    <3> QED BY <1>1, <2>2, <3>2, <3>3, <3>4 DEF EventsTrue
  <2>10. CASE LeaveLoop \/ CancelReader \/ JoinWorker \/ UNCHANGED runVars
    <3>1. UNCHANGED <<rpc, raised, events>>
      BY <2>10 DEF LeaveLoop, CancelReader, JoinWorker, ReaderOnly, runVars
    <3> QED BY <1>1, <2>1, <2>2, <3>1 DEF EventsTrue, Posted
  <2> QED BY <1>3, <2>3, <2>4, <2>5, <2>6, <2>7, <2>8, <2>9, <2>10
          DEF RunNext, Pipeline, Writing
<1> QED BY <1>2, <1>3

\* An optimisation converges by a step that it records.
LEMMA ConvergedStep ==
    ASSUME RunInv, [RunNext]_runVars
    PROVE  ConvergedRecorded'
<1>1. ConvergedRecorded
  BY DEF RunInv
<1>2. CASE ObserveForces
  BY <1>1, <1>2, Zenon DEF ObserveForces, ConvergedRecorded
<1>3. CASE OptimiserFails
  BY <1>3, Zenon DEF OptimiserFails, ConvergedRecorded
<1>4. CASE ~(ObserveForces \/ OptimiserFails)
  <2> USE DEF compute
  <2>1. CASE BeginRun \/ Load \/ OptimiserStep \/ Evaluate
    BY <1>1, <2>1 DEF BeginRun, Load, OptimiserStep, Evaluate, ConvergedRecorded
  <2>2. CASE Pipeline \/ TimingFails \/ RunFails
    BY <1>1, <2>2 DEF Pipeline, OpenFile, FinishFile, FinishWrites, AppendTiming, RewriteJson,
                      ReportDone, Unwind, Settle, TimingFails, RunFails, ConvergedRecorded
  <2>3. CASE FirstSignal \/ SecondSignal \/ WatchdogFires \/ KillRun
    BY <1>1, <2>3 DEF FirstSignal, SecondSignal, WatchdogFires, KillRun, ConvergedRecorded
  <2>4. CASE ReadEvent \/ LeaveLoop \/ CancelReader \/ JoinWorker
    BY <1>1, <2>4 DEF ReadEvent, LeaveLoop, CancelReader, JoinWorker, ReaderOnly, ConvergedRecorded
  <2>5. CASE UNCHANGED runVars
    BY <1>1, <2>5 DEF runVars, ConvergedRecorded
  <2> QED BY <1>4, <2>1, <2>2, <2>3, <2>4, <2>5 DEF RunNext, ModelReturns
<1> QED BY <1>2, <1>3, <1>4

\* An exit code is given at the end, and by what the run has become.
LEMMA ExitStep ==
    ASSUME RunInv, [RunNext]_runVars
    PROVE  Bounds' /\ ExitTellsTheTruth'
<1>1. RunTypeOK /\ PipelineTrue /\ Bounds /\ EventsTrue /\ ConvergedRecorded /\ ExitTellsTheTruth
  BY DEF RunInv
<1>2. EventsTrue'
  BY EventsStep
<1> USE DEF Step, Raise, setup, compute, endings
<1>3. CASE BeginRun
  BY <1>1, <1>2, <1>3 DEF BeginRun, Bounds, EventsTrue, ExitTellsTheTruth
<1>4. CASE Load \/ ObserveForces \/ OptimiserStep \/ Evaluate \/ OptimiserFails
  <2>1. rpc \notin {"idle", "settle", "unwind", "over"} /\ rpc' # "idle" /\ UNCHANGED <<calc, frontend, exit>>
    BY <1>4 DEF Load, ObserveForces, OptimiserStep, Evaluate, OptimiserFails
  <2>2. exit' = -1
    BY <2>1, NothingToldEarly
  <2>3. rpc' = "step" => nsteps' < MaxSteps
    BY <1>1, <1>4 DEF Load, ObserveForces, OptimiserStep, Evaluate, OptimiserFails, Bounds
  <2>4. Bounds'
    BY <1>1, <2>1, <2>2, <2>3 DEF Bounds
  <2> QED BY <1>2, <2>2, <2>4 DEF EventsTrue, ExitTellsTheTruth
<1>5. CASE OpenFile \/ FinishFile \/ FinishWrites \/ AppendTiming \/ RewriteJson \/ TimingFails \/ ReportDone
  <2>1. rpc \notin {"idle", "settle", "unwind", "over"} /\ rpc' \notin {"idle", "step"} /\ UNCHANGED <<calc, frontend, exit>>
    BY <1>5 DEF OpenFile, FinishFile, FinishWrites, AppendTiming, RewriteJson, TimingFails, ReportDone
  <2>2. exit' = -1
    BY <2>1, NothingToldEarly
  <2>3. Bounds'
    BY <1>1, <2>1, <2>2 DEF Bounds
  <2> QED BY <1>2, <2>2, <2>3 DEF EventsTrue, ExitTellsTheTruth
<1>6. CASE Unwind \/ RunFails \/ SecondSignal
  <2>1. rpc \notin {"idle", "over"} /\ rpc' \in {"settle", "unwind"} /\ UNCHANGED <<calc, frontend, exit>>
    BY <1>6 DEF Unwind, RunFails, SecondSignal, InProduct
  <2>2. exit' = -1
    BY <1>1, <2>1 DEF Bounds
  <2>3. Bounds'
    BY <1>1, <2>1, <2>2 DEF Bounds
  <2> QED BY <1>2, <2>2, <2>3 DEF EventsTrue, ExitTellsTheTruth
<1>7. CASE Settle
  <2>1. rpc = "settle" /\ rpc' = "over"
        /\ UNCHANGED <<calc, frontend, converged, recorded, wanted, files, timingLost, raised>>
    BY <1>7 DEF Settle
  <2>2. Written' <=> Written
    BY <2>1 DEF Written
  <2>3. exit = -1 /\ calc \in {"sp", "opt"}
    BY <1>1, <2>1 DEF Bounds
  <2>4. Bounds'
    BY <1>1, <2>1 DEF Bounds
  <2>5. CASE frontend # "cli"
    BY <1>2, <1>7, <2>3, <2>4, <2>5 DEF Settle, EventsTrue, ExitTellsTheTruth
  <2>6. CASE frontend = "cli" /\ raised # "none"
    <3>1. exit' = ExitCode[ClassifyException(raised)]
      BY <1>7, <2>6 DEF Settle
    <3>2. exit' \in {1, 130}
      BY <3>1 DEF ExitCode, ClassifyException, Outcomes
    <3> QED BY <1>2, <2>4, <3>2 DEF EventsTrue, ExitTellsTheTruth
  <2>7. CASE frontend = "cli" /\ raised = "none"
    <3>1. exit' = ExitCode[ClassifyResult(Result, calc)]
      BY <1>7, <2>7 DEF Settle
    <3>2. ClassifyResult(Result, calc) = IF calc = "sp" \/ converged THEN "completed" ELSE "not_converged"
      BY <2>3 DEF ClassifyResult, Result, ConvergenceTypes
    <3>3. exit' = IF calc = "sp" \/ converged THEN 0 ELSE 2
      BY <3>1, <3>2 DEF ExitCode, Outcomes
    <3>4. Written'
      BY <1>1, <2>1, <2>2, <2>7 DEF PipelineTrue
    <3>5. /\ exit' = 0 => calc' = "sp" \/ (converged' /\ recorded')
          /\ exit' = 2 => calc' = "opt" /\ ~converged'
      BY <1>1, <2>1, <2>3, <3>3 DEF ConvergedRecorded
    <3> QED BY <1>2, <2>4, <3>4, <3>5 DEF EventsTrue, ExitTellsTheTruth
  <2> QED BY <2>5, <2>6, <2>7
<1>8. CASE WatchdogFires \/ KillRun
  <2>1. exit' \in {130, -9} /\ rpc' = "over" /\ UNCHANGED <<calc, frontend>>
    BY <1>8 DEF WatchdogFires, KillRun
  <2>2. rpc # "idle"
    BY <1>1, <1>8 DEF WatchdogFires, KillRun, InProduct, Bounds
  <2>3. Bounds'
    BY <1>1, <2>1, <2>2 DEF Bounds
  <2> QED BY <1>2, <2>1, <2>3 DEF EventsTrue, ExitTellsTheTruth
<1>9. CASE FirstSignal \/ ReadEvent \/ LeaveLoop \/ CancelReader \/ JoinWorker \/ UNCHANGED runVars
  <2>1. /\ UNCHANGED <<calc, frontend, rpc, nsteps, converged, recorded, wanted, files, timingLost,
                       exit, todo>>
        /\ watchdog' = watchdog \/ rpc # "idle"
    BY <1>9 DEF InProduct, FirstSignal, ReadEvent, LeaveLoop, CancelReader, JoinWorker, ReaderOnly, runVars
  <2>2. Written' <=> Written
    BY <2>1 DEF Written
  <2>3. Bounds'
    BY <1>1, <2>1 DEF Bounds
  <2> QED BY <1>1, <1>2, <2>1, <2>2, <2>3 DEF EventsTrue, ExitTellsTheTruth
<1> QED BY <1>3, <1>4, <1>5, <1>6, <1>7, <1>8, <1>9 DEF RunNext, Pipeline, ModelReturns

\* The invariant of a calculation: what is written keeps pace with where the
\* pipeline is, and what is reported with both.
THEOREM RunInvariant == RunSpec => []RunInv
<1>1. ASSUME RunInit PROVE RunInv
  <2>1. RunTypeOK
    <3>1. files \in [OutFiles -> {"absent", "earlier", "retimed", "torn", "whole", "nan"}]
      BY <1>1 DEF RunInit
    <3>2. events \in Seq({"done", "error", "cancelled"}) /\ Len(events) <= 2
      BY <1>1 DEF RunInit
    <3>3. wanted \subseteq OutFiles /\ todo \subseteq wanted
      BY <1>1 DEF RunInit
    <3>4. converged \in BOOLEAN /\ recorded \in BOOLEAN /\ cancelled \in BOOLEAN /\ timingLost \in BOOLEAN
      BY <1>1 DEF RunInit
    <3>5. nsteps \in 0..MaxSteps /\ mishaps \in 0..MaxMishaps /\ signals \in 0..2
      BY <1>1, RunAssumption DEF RunInit
    <3> QED BY <1>1, <3>1, <3>2, <3>3, <3>4, <3>5 DEF RunInit, RunTypeOK, RunSteps, Readers
  <2>2. PipelineTrue /\ Bounds /\ ConvergedRecorded
    BY <1>1 DEF RunInit, PipelineTrue, Bounds, ConvergedRecorded
  <2>3. EventsTrue /\ ExitTellsTheTruth
    BY <1>1 DEF RunInit, EventsTrue, Posted, ExitTellsTheTruth
  <2> QED BY <2>1, <2>2, <2>3 DEF RunInv
<1>2. RunInv /\ [RunNext]_runVars => RunInv'
  BY RunTypesStep, PipelineStep, EventsStep, ConvergedStep, ExitStep DEF RunInv
<1> QED BY <1>1, <1>2, PTL DEF RunSpec

\* A process that exits with 0 or 2 has written every file it was asked for, in
\* this run, and a reader that is told "done" finds them finished, whatever
\* signal, exception or kill came in between (engine.run, BaseRunner.execute);
\* but for a JSON file torn by its timing and, with exit code 2, the OSZICAR of
\* an optimisation that recorded nothing (OptimizationRunner._write_outputs).
THEOREM ExitIsTrue == RunSpec => []ExitTellsTheTruth
<1>1. RunInv => ExitTellsTheTruth
  BY DEF RunInv
<1> QED BY <1>1, RunInvariant, PTL

-------------------------------------------------------------------------------
(* RunScreen *)

\* What the screen has stopped following has ended, and it has said how.
Followed ==
    mounted /\ ~timer /\ kind = "plain" /\ job \notin {"none", "gone"} =>
        EndsWatch(job) /\ text = job

\* The last word of the run screen on a job is how it ended, whoever ended it
\* and however late the refresh (RunScreen._refresh_job, action_cancel).
THEOREM LastWordIsKept == ScreenSpec => []LastWordIsTrue
<1>1. ScreenInit => Followed
  BY DEF ScreenInit, Followed
<1>2. ASSUME Followed, [ScreenNext]_screenVars PROVE Followed'
  <2> USE <1>2 DEF Followed, EndsWatch, widgets, outside
  <2>1. CASE EngineMoves \/ LogGrows
    BY <2>1 DEF EngineMoves, LogGrows
  <2>8. CASE JobMoves
    <3>1. job \in {"pending", "claimed", "paused"}
      BY <2>8 DEF JobMoves
    <3>2. UNCHANGED <<mounted, timer, kind>>
      BY <2>8 DEF JobMoves
    <3> QED BY <3>1, <3>2
  <2>2. CASE JobEnds
    <3>1. job \in {"pending", "paused", "claimed", "running"}
      BY <2>2 DEF JobEnds, Failing, Live
    <3>2. UNCHANGED <<mounted, timer, kind>>
      BY <2>2 DEF JobEnds
    <3> QED BY <3>1, <3>2
  <2>7. CASE JobRemoved
    BY <2>7 DEF JobRemoved
  <2>3. CASE Mount
    BY <2>3 DEF Mount
  <2>4. CASE Refresh
    BY <2>4 DEF Refresh, Line, Settled
  <2>5. CASE PressCancel
    BY <2>5 DEF PressCancel, Live
  <2>6. CASE LeaveScreen \/ UNCHANGED screenVars
    BY <2>6 DEF LeaveScreen, screenVars
  <2> QED BY <2>1, <2>2, <2>3, <2>4, <2>5, <2>6, <2>7, <2>8 DEF ScreenNext
<1>3. Followed => LastWordIsTrue
  BY DEF Followed, LastWordIsTrue
<1> QED BY <1>1, <1>2, <1>3, PTL DEF ScreenSpec

-------------------------------------------------------------------------------
(* BatchRun *)

\* The names of two files do not clash across the two ways to make them.
OwnNames == \A f, g \in InputFiles : f # g => Flat[f] # Flat[g] /\ Flat[f] # Stem[g]

\* A batch lists files of Inputs, each once.
Listed == batch \in Seq(InputFiles) /\ IsInjective(batch) /\ Len(batch) <= Len(Inputs)

\* Where the batch is tells which structure is under way and how many are through.
UnderWay == {"read", "compute", "write", "stamp", "rewrite", "finish"}
Afterwards == {"summary", "closing", "timing", "retiming", "report"}
Pace ==
    /\ bpc = "idle" => batch = <<>> /\ entries = <<>>
    /\ bpc = "model" => at = 1 /\ batch # <<>> /\ entries = <<>>
    /\ bpc \in UnderWay => at \in 1..Len(batch) /\ Len(entries) = at - 1
    /\ bpc = "next" => at \in 1..Len(batch) /\ Len(entries) = at
    /\ bpc \in Afterwards => Len(entries) = Len(batch)
    /\ at \in 0..(Len(batch) + 1)

\* The results of f are where its name says.
ResultsOf(f) == Computed(OutputName(f)) /\ dirs[OutputName(f)].of = f

\* The i-th entry is about the i-th structure.
EntryTrue(i) ==
    /\ entries[i].file = batch[i] /\ entries[i].dir = OutputName(batch[i])
    /\ entries[i].success => ResultsOf(batch[i])
EntriesTrue ==
    /\ Len(entries) <= Len(batch)
    /\ \A i \in DOMAIN entries : EntryTrue(i)

CurrentTrue ==
    /\ bpc = "write" => dirs[Place].of = Current
    /\ bpc \in {"stamp", "rewrite", "finish"} => ResultsOf(Current)

SummaryTrue ==
    /\ summary = "whole" => Len(entries) = Len(batch) /\ bpc \in Afterwards \union {"over"}
    /\ bpc \in {"timing", "report"} /\ writeJson => summary = "whole"
    /\ bpc # "over" => bexit = 99
    /\ bexit = 0 => /\ Len(entries) = Len(batch) /\ \A i \in DOMAIN entries : entries[i].success
                    /\ writeJson => summary = "whole"

BatchInv == BatchTypeOK /\ Listed /\ Pace /\ EntriesTrue /\ CurrentTrue /\ SummaryTrue

\* Two structures of a batch have two directories.
LEMMA OwnPlaces ==
    ASSUME OwnNames, Listed, NEW i \in DOMAIN batch, NEW j \in DOMAIN batch, i # j
    PROVE  OutputName(batch[i]) # OutputName(batch[j])
<1>1. /\ batch[i] \in InputFiles /\ batch[j] \in InputFiles /\ batch[i] # batch[j]
      /\ batch[i] \in ToSet(batch) /\ batch[j] \in ToSet(batch)
  BY DEF Listed, IsInjective, ToSet
<1> QED BY <1>1 DEF OwnNames, OutputName

\* A structure has a name, and its directory is one of Names.
LEMMA PlaceIsName ==
    ASSUME Listed, NEW i \in DOMAIN batch
    PROVE  OutputName(batch[i]) \in Names /\ batch[i] \in InputFiles
<1>1. batch[i] \in InputFiles
  BY DEF Listed
<1> QED BY <1>1 DEF OutputName, Names

\* An order of distinct files lists each once.
LEMMA ListingsAreListed ==
    ASSUME NEW s \in Listings
    PROVE  s \in Seq(InputFiles) /\ IsInjective(s) /\ Len(s) <= Len(Inputs)
<1>1. Inputs \in Seq(InputFiles) /\ IsInjective(Inputs) /\ Len(Inputs) \in Nat
  BY BatchAssumption
<1>2. PICK n \in 0..Len(Inputs) : s \in [1..n -> InputFiles]
  BY DEF Listings
<1>3. n \in Nat /\ s \in Seq(InputFiles) /\ Len(s) = n /\ DOMAIN s = 1..n
  BY <1>1, <1>2
<1>4. ASSUME NEW f, ~(\A g : g = f => ~Precedes(f, g)) PROVE FALSE
  <2>1. PICK i \in DOMAIN Inputs, j \in DOMAIN Inputs : i < j /\ Inputs[i] = f /\ Inputs[j] = f
    BY <1>4 DEF Precedes
  <2>2. i \in Nat /\ j \in Nat
    BY <1>1
  <2> QED BY <1>1, <2>1, <2>2 DEF IsInjective
<1>5. ASSUME NEW a \in 1..n, NEW b \in 1..n, s[a] = s[b], a # b PROVE FALSE
  <2>1. Precedes(s[a], s[b]) \/ Precedes(s[b], s[a])
    BY <1>3, <1>5 DEF Listings
  <2> QED BY <1>4, <1>5, <2>1
<1> QED BY <1>1, <1>2, <1>3, <1>5 DEF IsInjective

\* Entries stay true while what they name stays.
LEMMA EntriesStay ==
    ASSUME BatchInv, UNCHANGED <<batch, entries, writeJson>>,
           \A i \in DOMAIN entries : dirs'[OutputName(batch[i])] = dirs[OutputName(batch[i])]
    PROVE  EntriesTrue'
<1>1. \A f : OutputName(f)' = OutputName(f)
  BY DEF OutputName
<1> QED BY <1>1 DEF BatchInv, EntriesTrue, EntryTrue, ResultsOf, Computed

\* The steps that work on no directory and add no entry.
Quiet ==
    \/ ModelLoads \/ ReadStructure \/ NextStructure \/ OpenSummary \/ CloseSummary \/ OpenTiming
    \/ CloseTiming \/ ReportBatch \/ BatchFails \/ BatchInterrupted \/ UNCHANGED batchVars

\* They keep the invariant.
LEMMA QuietStep ==
    ASSUME BatchInv, Quiet
    PROVE  BatchInv'
<1> USE BatchAssumption DEF BatchStep, BatchEnds, Trouble, UnderWay, Afterwards
<1>1. BatchTypeOK /\ Listed /\ Pace /\ EntriesTrue /\ CurrentTrue /\ SummaryTrue
  BY DEF BatchInv
<1>2. UNCHANGED <<batch, writeJson, dirs, entries>>
  BY DEF Quiet, ModelLoads, ReadStructure, NextStructure, OpenSummary, CloseSummary, OpenTiming,
         CloseTiming, ReportBatch, BatchFails, BatchInterrupted, batchVars
<1>3. EntriesTrue' /\ Listed'
  BY <1>1, <1>2, EntriesStay DEF Listed
<1>4. /\ bpc' \in BatchSteps /\ summary' \in {"absent", "earlier", "torn", "whole"}
      /\ bexit' \in {0, 1, 130, 137, 99} /\ trouble' \in 0..MaxTrouble
  BY <1>1 DEF BatchTypeOK, BatchSteps, Quiet, ModelLoads, ReadStructure, NextStructure, OpenSummary,
         CloseSummary, OpenTiming, CloseTiming, ReportBatch, BatchFails, BatchInterrupted, batchVars
<1>5. Len(batch) \in Nat /\ Len(entries) \in Nat /\ at \in Nat /\ Len(Inputs) \in Nat
  BY <1>1 DEF BatchTypeOK, Pace, Listed
<1>6. CurrentTrue'
  <2>1. CASE UNCHANGED batchVars
    BY <1>1, <2>1 DEF CurrentTrue, ResultsOf, Computed, OutputName, Current, Place, batchVars
  <2>2. CASE ~UNCHANGED batchVars
    <3>1. bpc' \notin {"write", "stamp", "rewrite", "finish"}
      BY <2>2 DEF Quiet, ModelLoads, ReadStructure, NextStructure, OpenSummary,
         CloseSummary, OpenTiming, CloseTiming, ReportBatch, BatchFails, BatchInterrupted
    <3> QED BY <3>1 DEF CurrentTrue
  <2> QED BY <2>1, <2>2
<1>7. Pace'
  <2>1. CASE ModelLoads
    <3>1. Len(batch) >= 1
      BY <1>1, <1>5, <2>1 DEF ModelLoads, Pace, Listed
    <3> QED BY <1>1, <1>2, <1>5, <2>1, <3>1 DEF ModelLoads, Pace
  <2>2. CASE ReadStructure
    BY <1>1, <1>2, <1>5, <2>2 DEF ReadStructure, Pace
  <2>3. CASE NextStructure
    BY <1>1, <1>2, <1>5, <2>3 DEF NextStructure, Pace
  <2>4. CASE OpenSummary \/ CloseSummary \/ OpenTiming \/ CloseTiming
    BY <1>1, <1>2, <1>5, <2>4 DEF OpenSummary, CloseSummary, OpenTiming, CloseTiming, Pace
  <2>5. CASE ReportBatch \/ BatchFails \/ BatchInterrupted
    BY <1>1, <1>2, <1>5, <2>5 DEF ReportBatch, BatchFails, BatchInterrupted, Pace
  <2>6. CASE UNCHANGED batchVars
    BY <1>1, <1>2, <1>5, <2>6 DEF batchVars, Pace
  <2> QED BY <2>1, <2>2, <2>3, <2>4, <2>5, <2>6 DEF Quiet
<1>8. SummaryTrue'
  <2>1. CASE ModelLoads \/ ReadStructure \/ NextStructure
    BY <1>1, <1>2, <2>1 DEF ModelLoads, ReadStructure, NextStructure, SummaryTrue
  <2>2. CASE OpenSummary \/ CloseSummary \/ OpenTiming
    BY <1>1, <1>2, <2>2 DEF OpenSummary, CloseSummary, OpenTiming, SummaryTrue, Pace
  <2>3. CASE CloseTiming
    BY <1>1, <1>2, <2>3 DEF CloseTiming, SummaryTrue, Pace
  <2>4. CASE ReportBatch
    BY <1>1, <1>2, <2>4 DEF ReportBatch, SummaryTrue, Pace
  <2>5. CASE BatchFails \/ BatchInterrupted
    BY <1>1, <1>2, <2>5 DEF BatchFails, BatchInterrupted, SummaryTrue, Pace
  <2>6. CASE UNCHANGED batchVars
    BY <1>1, <1>2, <2>6 DEF batchVars, SummaryTrue
  <2> QED BY <2>1, <2>2, <2>3, <2>4, <2>5, <2>6 DEF Quiet
<1>9. at' \in 0..(Len(Inputs) + 1)
  BY <1>2, <1>3, <1>5, <1>7 DEF Pace, Listed
<1>10. BatchTypeOK'
  BY <1>1, <1>2, <1>4, <1>9 DEF BatchTypeOK
<1> QED BY <1>3, <1>6, <1>7, <1>8, <1>10 DEF BatchInv

\* The steps that work on the directory of a structure.
DirectoryWork == ComputeStructure \/ WriteStructure \/ OpenStamp \/ CloseStamp \/ StampFails

\* They change that directory only: it becomes that of the structure, whole when
\* it is written, and appending the timing leaves everything but the JSON file.
LEMMA DirectoryWritten ==
    ASSUME BatchTypeOK, Listed, at \in DOMAIN batch, DirectoryWork
    PROVE  \E r \in Contents :
             /\ dirs' = [dirs EXCEPT ![Place] = r]
             /\ bpc \in {"compute", "write"} => r.of = Current
             /\ bpc = "write" => r.files = "whole" /\ (writeJson => r.json = "whole")
             /\ bpc \in {"stamp", "rewrite"} =>
                  /\ r.of = dirs[Place].of /\ r.files = dirs[Place].files
                  /\ r.json = dirs[Place].json \/ (writeJson => r.json \in {"whole", "retiming"})
<1>1. PICK p \in Names, c \in InputFiles : p = Place /\ c = Current
  BY PlaceIsName DEF Place, Current
<1>2. PICK d \in Contents : d = dirs[p]
  BY DEF BatchTypeOK
<1>3. dirs = [dirs EXCEPT ![p] = d] /\ dirs \in [Names -> Contents]
  BY <1>2 DEF BatchTypeOK
<1>4. ASSUME NEW state \in {"torn", "whole"}, Leave(state)
      PROVE  \E r \in Contents : /\ dirs' = [dirs EXCEPT ![p] = r]
                                  /\ r.of = c /\ r.files = state /\ (writeJson => r.json = state)
  <2> DEFINE r == [of |-> c, files |-> state, json |-> IF writeJson THEN state ELSE d.json]
  <2>1. r \in Contents
    BY <1>2 DEF Contents, FileStates
  <2>2. dirs' = [dirs EXCEPT ![p] = r]
    BY <1>1, <1>2, <1>4 DEF Leave
  <2> QED BY <2>1, <2>2
<1>5. ASSUME NEW state \in {"retiming", "whole", "earlier"}, dirs' = [dirs EXCEPT ![p].json = state]
      PROVE  \E r \in Contents : /\ dirs' = [dirs EXCEPT ![p] = r]
                                  /\ r.of = d.of /\ r.files = d.files /\ r.json = state
  <2>1. PICK r : r = [d EXCEPT !.json = state]
    OBVIOUS
  <2>2. r \in Contents /\ r.of = d.of /\ r.files = d.files /\ r.json = state
    BY <1>2, <2>1 DEF Contents, FileStates
  <2>3. dirs' = [dirs EXCEPT ![p] = r]
    BY <1>2, <1>5, <2>1
  <2> QED BY <2>2, <2>3
<1>6. CASE ComputeStructure
  BY <1>1, <1>4, <1>6 DEF ComputeStructure
<1>7. CASE WriteStructure
  BY <1>1, <1>4, <1>7 DEF WriteStructure
<1>8. CASE OpenStamp
  <2>1. bpc = "stamp" /\ (dirs' = dirs \/ dirs' = [dirs EXCEPT ![p].json = "retiming"])
    BY <1>1, <1>8 DEF OpenStamp
  <2> QED BY <1>1, <1>2, <1>3, <1>5, <2>1
<1>9. CASE CloseStamp
  <2>1. PICK state \in {"whole", "earlier"} :
          dirs' = [dirs EXCEPT ![p].json = state] /\ (writeJson => state = "whole")
    BY <1>1, <1>9 DEF CloseStamp
  <2>2. bpc = "rewrite"
    BY <1>9 DEF CloseStamp
  <2> QED BY <1>1, <1>2, <1>5, <2>1, <2>2
<1>10. CASE StampFails
  BY <1>1, <1>2, <1>3, <1>10 DEF StampFails
<1> QED BY <1>6, <1>7, <1>8, <1>9, <1>10 DEF DirectoryWork

\* A structure is computed in its own directory, and written and timed there.
LEMMA DirectoryStep ==
    ASSUME OwnNames, BatchInv, DirectoryWork
    PROVE  BatchInv'
<1> USE BatchAssumption DEF BatchStep, UnderWay, Afterwards, Trouble
<1>1. BatchTypeOK /\ Listed /\ Pace /\ EntriesTrue /\ CurrentTrue /\ SummaryTrue
  BY DEF BatchInv
<1>2. /\ UNCHANGED <<batch, writeJson, at, entries, summary, bexit>>
      /\ trouble' = trouble \/ (trouble < MaxTrouble /\ trouble' = trouble + 1)
      /\ bpc \in {"compute", "write", "stamp", "rewrite"}
      /\ bpc' \in (CASE bpc = "compute" -> {"write"} [] bpc = "write" -> {"stamp"}
                     [] bpc = "stamp" -> {"rewrite", "finish"} [] bpc = "rewrite" -> {"finish"})
  BY DEF DirectoryWork, ComputeStructure, WriteStructure, OpenStamp, CloseStamp, StampFails
<1>3. /\ Len(batch) \in Nat /\ Len(entries) \in Nat /\ at \in 1..Len(batch) /\ Len(entries) = at - 1
      /\ at \in DOMAIN batch /\ DOMAIN entries = 1..(at - 1) /\ \A i \in DOMAIN entries : i \in DOMAIN batch /\ i # at
  BY <1>1, <1>2 DEF BatchTypeOK, Pace, Listed
<1>4. PICK p \in Names, c \in InputFiles : p = Place /\ c = Current
  BY <1>1, <1>3, PlaceIsName DEF Place, Current
<1>5. /\ Place' = p /\ Current' = c /\ \A f : OutputName(f)' = OutputName(f)
      /\ c = batch[at] /\ p = OutputName(c)
  BY <1>2, <1>4 DEF Place, Current, OutputName
<1>6. PICK r \in Contents :
        /\ dirs' = [dirs EXCEPT ![p] = r]
        /\ bpc \in {"compute", "write"} => r.of = c
        /\ bpc = "write" => r.files = "whole" /\ (writeJson => r.json = "whole")
        /\ bpc \in {"stamp", "rewrite"} =>
             /\ r.of = dirs[p].of /\ r.files = dirs[p].files
             /\ r.json = dirs[p].json \/ (writeJson => r.json \in {"whole", "retiming"})
  BY <1>1, <1>3, <1>4, DirectoryWritten
<1>7. /\ dirs \in [Names -> Contents] /\ dirs' \in [Names -> Contents]
      /\ dirs'[p] = r /\ \A n \in Names \ {p} : dirs'[n] = dirs[n]
  BY <1>1, <1>6 DEF BatchTypeOK
<1>8. EntriesTrue'
  <2>1. ASSUME NEW i \in DOMAIN entries PROVE dirs'[OutputName(batch[i])] = dirs[OutputName(batch[i])]
    <3>1. OutputName(batch[i]) # p /\ OutputName(batch[i]) \in Names
      BY <1>1, <1>3, <1>5, OwnPlaces, PlaceIsName
    <3> QED BY <1>7, <3>1
  <2> QED BY <1>2, <2>1, EntriesStay
<1>9. CurrentTrue'
  <2>1. bpc' = "write" => r.of = c
    BY <1>2, <1>6
  <2>2. bpc \in {"stamp", "rewrite"} =>
          dirs[p].of = c /\ dirs[p].files = "whole" /\ (writeJson => dirs[p].json \in {"whole", "retiming"})
    BY <1>1, <1>4, <1>5 DEF CurrentTrue, ResultsOf, Computed
  <2>3. bpc' \in {"stamp", "rewrite", "finish"} =>
          r.of = c /\ r.files = "whole" /\ (writeJson => r.json \in {"whole", "retiming"})
    BY <1>2, <1>6, <2>2
  <2> QED BY <1>2, <1>5, <1>7, <2>1, <2>3 DEF CurrentTrue, ResultsOf, Computed
<1>10. BatchTypeOK' /\ Listed' /\ Pace' /\ SummaryTrue'
  <2>1. bpc' \in BatchSteps /\ trouble' \in 0..MaxTrouble
    BY <1>1, <1>2 DEF BatchTypeOK, BatchSteps
  <2>2. BatchTypeOK'
    BY <1>1, <1>2, <1>7, <2>1 DEF BatchTypeOK
  <2>3. Listed' /\ Pace'
    BY <1>1, <1>2, <1>3 DEF Listed, Pace
  <2>4. SummaryTrue'
    BY <1>1, <1>2 DEF SummaryTrue
  <2> QED BY <2>2, <2>3, <2>4
<1> QED BY <1>8, <1>9, <1>10 DEF BatchInv

\* What is recorded of a structure is what became of it.
LEMMA RecordStep ==
    ASSUME BatchInv, RecordSuccess \/ StructureFails
    PROVE  BatchInv'
<1> USE BatchAssumption DEF BatchStep, Trouble, UnderWay, Afterwards
<1>1. BatchTypeOK /\ Listed /\ Pace /\ EntriesTrue /\ CurrentTrue /\ SummaryTrue
  BY DEF BatchInv
<1>2. /\ UNCHANGED <<batch, writeJson, at, dirs, summary, bexit>> /\ trouble' \in 0..MaxTrouble
      /\ bpc \in UnderWay /\ bpc' = "next"
  <2>1. CASE RecordSuccess
    BY <1>1, <2>1 DEF RecordSuccess, BatchTypeOK
  <2>2. CASE StructureFails
    BY <1>1, <2>2 DEF StructureFails, BatchTypeOK
  <2> QED BY <2>1, <2>2
<1>3. /\ Len(batch) \in Nat /\ Len(entries) \in Nat /\ at \in 1..Len(batch) /\ Len(entries) = at - 1
      /\ at \in DOMAIN batch
  BY <1>1, <1>2 DEF BatchTypeOK, Pace, Listed
<1>4. PICK p \in Names, c \in InputFiles : p = Place /\ c = Current
  BY <1>1, <1>3, PlaceIsName DEF Place, Current
<1>5. PICK ok \in BOOLEAN : /\ entries' = Append(entries, [file |-> c, success |-> ok, dir |-> p])
                            /\ ok => ResultsOf(c)
  <2>1. CASE RecordSuccess
    BY <1>1, <1>4, <2>1 DEF RecordSuccess, AddEntry, CurrentTrue
  <2>2. CASE StructureFails
    BY <1>4, <2>2 DEF StructureFails, AddEntry
  <2> QED BY <2>1, <2>2
<1>6. /\ entries' \in Seq([file : InputFiles, success : BOOLEAN, dir : Names])
      /\ Len(entries') = at /\ DOMAIN entries' = 1..at
      /\ entries'[at] = [file |-> c, success |-> ok, dir |-> p]
      /\ \A i \in DOMAIN entries' : i = at \/ (i \in DOMAIN entries /\ entries'[i] = entries[i])
  BY <1>1, <1>3, <1>5 DEF BatchTypeOK
<1>7. \A f : OutputName(f)' = OutputName(f) /\ (ResultsOf(f) => ResultsOf(f)')
  BY <1>2 DEF OutputName, ResultsOf, Computed
<1>8. EntriesTrue'
  <2>1. ASSUME NEW i \in DOMAIN entries' PROVE EntryTrue(i)'
    <3>1. CASE i = at
      BY <1>2, <1>4, <1>5, <1>6, <1>7, <3>1 DEF EntryTrue, Place, Current
    <3>2. CASE i \in DOMAIN entries /\ entries'[i] = entries[i]
      BY <1>1, <1>2, <1>7, <3>2 DEF EntriesTrue, EntryTrue
    <3> QED BY <1>6, <3>1, <3>2
  <2> QED BY <1>2, <1>3, <1>6, <2>1 DEF EntriesTrue
<1>9. BatchTypeOK' /\ Listed' /\ Pace' /\ CurrentTrue' /\ SummaryTrue'
  <2>1. BatchTypeOK'
    BY <1>1, <1>2, <1>3, <1>6 DEF BatchTypeOK, BatchSteps
  <2>2. Listed' /\ Pace' /\ CurrentTrue'
    BY <1>1, <1>2, <1>3, <1>6 DEF Listed, Pace, CurrentTrue
  <2>3. SummaryTrue'
    BY <1>1, <1>2 DEF SummaryTrue
  <2> QED BY <2>1, <2>2, <2>3
<1> QED BY <1>8, <1>9 DEF BatchInv

\* A batch begins with some of the files and no entry.
LEMMA BeginStep ==
    ASSUME BatchInv, BeginBatch
    PROVE  BatchInv'
<1> USE BatchAssumption DEF BatchStep, BatchEnds, UnderWay, Afterwards
<1>1. BatchTypeOK /\ Listed /\ Pace /\ EntriesTrue /\ CurrentTrue /\ SummaryTrue
  BY DEF BatchInv
<1>2. PICK chosen \in Listings, left \in {"absent", "earlier"} :
         \E leftJson \in {"absent", left} :
         /\ batch' = chosen
         /\ dirs' = [n \in Names |-> [of |-> IF left = "absent" THEN NoInput ELSE "earlier",
                                      files |-> left, json |-> leftJson]]
         /\ summary' \in {"absent", leftJson}
         /\ IF chosen = <<>> THEN BatchEnds(1) ELSE BatchStep("model")
  BY DEF BeginBatch
<1>3. Listed' /\ Len(batch') \in Nat /\ Len(Inputs) \in Nat
  BY <1>2, ListingsAreListed DEF Listed
<1>4. bpc = "idle" /\ entries' = <<>> /\ at' = 1 /\ writeJson' \in BOOLEAN /\ trouble' = trouble
  BY <1>1 DEF BeginBatch, Pace
<1>5. dirs' \in [Names -> Contents]
  BY <1>2 DEF Contents, FileStates
<1>6. bpc' \in {"model", "over"} /\ bexit' \in {1, 99} /\ (bpc' # "over" => bexit' = 99 /\ batch' # <<>>)
  BY <1>1, <1>2, <1>4 DEF SummaryTrue
<1>7. Pace' /\ EntriesTrue' /\ CurrentTrue'
  BY <1>3, <1>4, <1>6 DEF Pace, EntriesTrue, CurrentTrue
<1>8. SummaryTrue'
  BY <1>2, <1>6 DEF SummaryTrue
<1>9. BatchTypeOK'
  <2>1. at' \in 0..(Len(Inputs) + 1) /\ summary' \in {"absent", "earlier", "torn", "whole"}
    BY <1>2, <1>3, <1>4
  <2> QED BY <1>1, <1>3, <1>4, <1>5, <1>6, <2>1 DEF BatchTypeOK, BatchSteps, Listed
<1> QED BY <1>3, <1>7, <1>8, <1>9 DEF BatchInv

\* The invariant of a batch whose files have names of their own.
THEOREM BatchInvariant == ASSUME OwnNames PROVE BatchSpec => []BatchInv
<1>1. ASSUME BatchInit PROVE BatchInv
  <2>1. batch = <<>> /\ entries = <<>> /\ Len(Inputs) \in Nat /\ MaxTrouble \in Nat
    BY <1>1, BatchAssumption DEF BatchInit
  <2>2. Listed /\ Pace /\ EntriesTrue /\ CurrentTrue
    BY <1>1, <2>1 DEF BatchInit, Listed, IsInjective, Pace, UnderWay, Afterwards, EntriesTrue, CurrentTrue
  <2>3. SummaryTrue
    BY <1>1 DEF BatchInit, SummaryTrue
  <2>4. BatchTypeOK
    BY <1>1, <2>1, <2>2 DEF BatchInit, BatchTypeOK, BatchSteps, Listed, Contents, FileStates
  <2> QED BY <2>2, <2>3, <2>4 DEF BatchInv
<1>2. BatchInv /\ [BatchNext]_batchVars => BatchInv'
  BY QuietStep, DirectoryStep, RecordStep, BeginStep DEF BatchNext, Quiet, DirectoryWork
<1> QED BY <1>1, <1>2, PTL DEF BatchSpec

\* A whole summary has an entry for every structure, and a success in it has its
\* results where the entry says; a batch that exits with 0 has left the results
\* of every structure (BatchRunner.run_from_files, cmd_batch), for any files
\* whose names do not clash; but a JSON file may be torn by its timing.
THEOREM SummaryIsKept == ASSUME OwnNames PROVE BatchSpec => []SummaryIsTrue
<1>1. ASSUME BatchInv PROVE SummaryIsTrue
  <2>1. /\ batch \in Seq(InputFiles) /\ Len(batch) \in Nat /\ DOMAIN batch = 1..Len(batch)
        /\ Len(entries) \in Nat /\ DOMAIN entries = 1..Len(entries)
        /\ EntriesTrue /\ SummaryTrue
    BY <1>1 DEF BatchInv, Listed, BatchTypeOK
  <2>2. ASSUME Len(entries) = Len(batch) PROVE [i \in DOMAIN entries |-> entries[i].file] = batch
    BY <2>1, <2>2 DEF EntriesTrue, EntryTrue
  <2>3. ASSUME NEW i \in DOMAIN entries, entries[i].success
        PROVE  ResultsOf(batch[i]) /\ entries[i].dir = OutputName(batch[i])
    BY <2>1, <2>3 DEF EntriesTrue, EntryTrue
  <2>4. ASSUME bexit = 0, NEW f \in ToSet(batch) PROVE ResultsOf(f)
    <3>1. PICK i \in DOMAIN batch : f = batch[i]
      BY DEF ToSet
    <3>2. i \in DOMAIN entries /\ entries[i].success
      BY <2>1, <2>4, <3>1 DEF SummaryTrue
    <3> QED BY <2>3, <3>1, <3>2
  <2>5. (summary = "whole" \/ bexit = 0) => Len(entries) = Len(batch)
    BY <2>1 DEF SummaryTrue
  <2>6. bexit = 0 => (writeJson => summary = "whole")
    BY <2>1 DEF SummaryTrue
  <2>7. ASSUME summary = "whole"
        PROVE  /\ [i \in DOMAIN entries |-> entries[i].file] = batch
               /\ \A i \in DOMAIN entries : entries[i].success => Computed(entries[i].dir)
    <3>1. \A i \in DOMAIN entries : entries[i].success => Computed(entries[i].dir)
      BY <2>3 DEF ResultsOf
    <3> QED BY <2>2, <2>5, <2>7, <3>1
  <2> HIDE DEF ToSet
  <2> QED BY <2>4, <2>6, <2>7 DEF SummaryIsTrue, ResultsOf
<1> QED BY <1>1, BatchInvariant, PTL

-------------------------------------------------------------------------------
(* ConfigForm *)

\* A dictionary has the keys of the form; fmax is never None, and the switch of
\* the pre-relaxation is no text.
IsForm(c) ==
    /\ c = [k \in Keys |-> c[k]]
    /\ c["fmax"] # "none" /\ c["preRelax"] \notin {"blank", "bad"}

\* What each stage makes of app.config.
LEMMA StagesSave ==
    ASSUME IsForm(config), IsForm(form)
    PROVE  /\ \A i \in 0..7 : IsForm(Saved[i])
           /\ Saved[7]["model"] = form["model"] /\ Saved[7]["task"] = form["task"]
           /\ Saved[7]["charge"] = IF Molecular(form["task"]) THEN form["charge"] ELSE "none"
           /\ \A k \in {"inference", "head", "skin"} : Shown(k) => Saved[7][k] = form[k]
           /\ calcType = "md" => Saved[7]["ensemble"] = form["ensemble"]
           /\ \A k \in {"preRelax", "fmax"} :
                 Shown(k) /\ form[k] \notin {"blank", "bad"} => Saved[7][k] = form[k]
           /\ calcType = "neb" =>
                 /\ Saved[7]["resume"] = form["resume"]
                 /\ form["resume"] = "set" => Saved[7]["final"] = "none"
                 /\ form["resume"] # "set" => Saved[7]["final"] = form["final"]
<1> DEFINE s1 == SaveFiles(config)      s2 == SaveBackend(s1)
           s3 == SaveElectronic(s2)     s4 == SaveEngine(s3)
           s5 == SaveEnsemble(s4)       s6 == SaveOptions(s5)
           s7 == SaveEndpoints(s6)
<1>0. /\ Saved[0] = config /\ Saved[1] = s1 /\ Saved[2] = s2 /\ Saved[3] = s3 /\ Saved[4] = s4
      /\ Saved[5] = s5 /\ Saved[6] = s6 /\ Saved[7] = s7
  BY DEF Saved
<1>1. IsForm(s1) /\ (calcType = "neb" => s1["resume"] = form["resume"])
  BY DEF IsForm, SaveFiles, Keys
<1> HIDE DEF s1
<1>2. /\ IsForm(s2) /\ s2["model"] = form["model"] /\ s2["task"] = form["task"]
      /\ s2["resume"] = s1["resume"]
  BY <1>1 DEF IsForm, SaveBackend, Keys
<1> HIDE DEF s2
<1>3. /\ IsForm(s3) /\ s3["model"] = s2["model"] /\ s3["task"] = s2["task"] /\ s3["resume"] = s2["resume"]
      /\ s3["charge"] = IF Molecular(form["task"]) THEN form["charge"] ELSE "none"
  BY <1>2 DEF IsForm, SaveElectronic, Keys
<1> HIDE DEF s3
<1>4. /\ IsForm(s4)
      /\ \A k \in {"model", "task", "resume", "charge"} : s4[k] = s3[k]
      /\ \A k \in {"inference", "head", "skin"} : Shown(k) => s4[k] = form[k]
  BY <1>3 DEF IsForm, SaveEngine, Keys
<1> HIDE DEF s4
<1>5. /\ IsForm(s5)
      /\ \A k \in {"model", "task", "resume", "charge", "inference", "head", "skin"} : s5[k] = s4[k]
      /\ calcType = "md" => s5["ensemble"] = form["ensemble"]
  BY <1>4 DEF IsForm, SaveEnsemble, Keys
<1> HIDE DEF s5
<1>6. /\ IsForm(s6)
      /\ \A k \in Keys \ {"preRelax", "fmax"} : s6[k] = s5[k]
      /\ \A k \in {"preRelax", "fmax"} : Shown(k) /\ form[k] \notin {"blank", "bad"} => s6[k] = form[k]
  BY <1>5 DEF IsForm, SaveOptions, Keys
<1> HIDE DEF s6
<1>7. /\ IsForm(s7)
      /\ \A k \in Keys \ {"final"} : s7[k] = s6[k]
      /\ calcType = "neb" => s7["final"] = IF form["resume"] = "set" THEN "none" ELSE form["final"]
  BY <1>6 DEF IsForm, SaveEndpoints, Keys
<1> HIDE DEF s7
<1>8. \A i \in 0..7 : IsForm(Saved[i])
  BY <1>0, <1>1, <1>2, <1>3, <1>4, <1>5, <1>6, <1>7
<1> QED BY <1>0, <1>1, <1>2, <1>3, <1>4, <1>5, <1>6, <1>7, <1>8 DEF Keys

\* The command that Run queues is the one on the screen.
LEMMA QueuedCommand ==
    ASSUME IsForm(config), IsForm(form)
    PROVE  /\ DOMAIN CommandLine(Saved[7]) =
                {k \in Keys : Shown(k) /\ form[k] # "none" /\ ~FromCheckpoint(k)}
           /\ \A k \in DOMAIN CommandLine(Saved[7]) :
                form[k] \notin {"blank", "bad"} => CommandLine(Saved[7])[k] = form[k]
<1>1. PICK c : c = Saved[7]
  OBVIOUS
<1>2. /\ DOMAIN CommandLine(c) = {k \in Collected(c) : AcceptedBy(k, c["model"])}
      /\ \A k \in DOMAIN CommandLine(c) : CommandLine(c)[k] = c[k]
  BY DEF CommandLine
<1>3. c["fmax"] # "none" /\ c["model"] = form["model"]
  BY <1>1, StagesSave DEF IsForm
\* What is shown with a value is collected with it.
<1>4. ASSUME NEW k \in Keys, Shown(k), ~FromCheckpoint(k)
      PROVE  /\ form[k] \notin {"blank", "bad"} => c[k] = form[k]
             /\ c[k] = "none" <=> form[k] = "none"
  <2>1. CASE k \in {"model", "task", "charge", "inference", "head", "skin", "ensemble", "resume", "final"}
    <3>1. c[k] = form[k]
      BY <1>1, <1>4, <2>1, StagesSave DEF Shown, FromCheckpoint
    <3> QED BY <3>1
  <2>2. CASE k \in {"preRelax", "fmax"}
    BY <1>1, <1>3, <1>4, <2>2, StagesSave DEF IsForm
  <2> QED BY <2>1, <2>2 DEF Keys
<1>5. ASSUME NEW k \in Keys
      PROVE  k \in DOMAIN CommandLine(c) <=> Shown(k) /\ form[k] # "none" /\ ~FromCheckpoint(k)
  <2>1. calcType = "neb" => c["resume"] = form["resume"] /\ (form["resume"] = "set" => c["final"] = "none")
    BY <1>1, StagesSave
  <2>2. k \in {"task", "final"} =>
          (~FromCheckpoint(k) <=> ~(calcType = "neb" /\ c["resume"] = "set"))
    BY <2>1 DEF FromCheckpoint
  <2>3. k = "charge" /\ ~Shown(k) => c[k] = "none"
    BY <1>1, StagesSave DEF Shown
  <2>4. k \in {"inference", "head", "skin"} => (AcceptedBy(k, c["model"]) <=> Shown(k))
    BY <1>3 DEF AcceptedBy, Shown
  <2>5. k \notin {"inference", "head", "skin"} => AcceptedBy(k, c["model"])
    BY DEF AcceptedBy
  <2>6. k \in {"ensemble", "preRelax", "fmax", "resume", "final"} =>
          (Shown(k) <=> /\ k \in {"ensemble", "preRelax"} => calcType = "md"
                        /\ k = "fmax" => calcType \in {"opt", "neb"}
                        /\ k \in {"resume", "final"} => calcType = "neb")
    BY DEF Shown
  <2>7. k \in {"model", "task"} => Shown(k)
    BY DEF Shown
  <2>8. k \notin {"task", "final"} => ~FromCheckpoint(k)
    BY DEF FromCheckpoint
  <2>9. Shown(k) /\ ~FromCheckpoint(k) => (c[k] = "none" <=> form[k] = "none")
    BY <1>4
  <2>10. k \in DOMAIN CommandLine(c) <=> k \in Collected(c) /\ AcceptedBy(k, c["model"])
    BY <1>2
  <2>11. CASE k \in {"model", "task", "charge", "inference", "head", "skin"}
    BY <2>2, <2>3, <2>4, <2>5, <2>7, <2>8, <2>9, <2>10, <2>11 DEF Collected
  <2>12. CASE k \in {"ensemble", "preRelax", "fmax", "resume", "final"}
    BY <2>2, <2>5, <2>6, <2>8, <2>9, <2>10, <2>12 DEF Collected
  <2> QED BY <2>11, <2>12 DEF Keys
<1>6. DOMAIN CommandLine(c) \subseteq Keys
  BY <1>2 DEF Collected
<1>7. DOMAIN CommandLine(c) = {k \in Keys : Shown(k) /\ form[k] # "none" /\ ~FromCheckpoint(k)}
  BY <1>5, <1>6
<1> QED BY <1>1, <1>2, <1>4, <1>7

\* Whatever was chosen before, saved or half saved, the command that is queued
\* has the options on the screen with their values, and no other option
\* (ConfigScreen._save_and_run, RunScreen._build_command).
THEOREM CommandIsKept == FormSpec => []CommandIsTheForm
<1> DEFINE FormInv == IsForm(config) /\ IsForm(form) /\ CommandIsTheForm
<1>1. FormInit => FormInv
  BY DEF FormInit, StartConfig, IsForm, CommandIsTheForm, Keys
<1>2. ASSUME FormInv, [FormNext]_formVars PROVE FormInv'
  <2>1. ASSUME NEW type \in Calculations, ChooseTask(type) PROVE FormInv'
    <3>1. IsForm(Composed(type))
      BY <1>2 DEF Composed, EnginePreRelax, IsForm, Keys
    <3>2. form' = Composed(type) /\ config' = config /\ screen' = "config"
      BY <2>1 DEF ChooseTask
    <3> QED BY <1>2, <3>1, <3>2 DEF IsForm, CommandIsTheForm
  <2>2. ASSUME NEW k \in Keys, NEW v \in Offered[k], Edit(k, v) PROVE FormInv'
    <3>1. screen' = "config"
      BY <2>2 DEF Edit
    <3>2. k = "fmax" => v # "none"
      BY DEF Offered, Keys
    <3>3. k = "preRelax" => v \notin {"blank", "bad"}
      BY DEF Offered, Keys
    <3>4. CASE k = "model"
      <4>1. /\ config' = [config EXCEPT !["model"] = v]
            /\ form' = [form EXCEPT !["model"] = v, !["task"] = DefaultTask(v, config["task"])]
        BY <2>2, <3>4 DEF Edit
      <4> QED BY <1>2, <3>1, <4>1 DEF IsForm, CommandIsTheForm, Keys
    <3>5. CASE k # "model"
      <4>1. config' = config /\ form' = [form EXCEPT ![k] = v]
        BY <2>2, <3>5 DEF Edit
      <4>2. IsForm(form)'
        BY <1>2, <3>2, <3>3, <4>1 DEF IsForm, Keys
      <4> QED BY <1>2, <3>1, <4>1, <4>2 DEF IsForm, CommandIsTheForm
    <3> QED BY <3>4, <3>5
  <2>3. CASE GoBack
    BY <1>2, <2>3 DEF GoBack, IsForm, CommandIsTheForm
  <2>4. CASE SaveRejected
    <3>1. screen' = "config" /\ form' = form /\ \E i \in 0..7 : config' = Saved[i]
      BY <2>4 DEF SaveRejected
    <3>2. IsForm(config)'
      BY <1>2, <3>1, StagesSave DEF IsForm
    <3> QED BY <1>2, <3>1, <3>2 DEF IsForm, CommandIsTheForm
  <2>5. CASE SaveAndRun
    <3>1. UNCHANGED <<calcType, form>> /\ config' = Saved[7] /\ command' = CommandLine(Saved[7])
      BY <2>5 DEF SaveAndRun
    <3>2. IsForm(config)' /\ IsForm(form)'
      BY <1>2, <3>1, StagesSave DEF IsForm
    <3>3. \A k : (Shown(k)' <=> Shown(k)) /\ (FromCheckpoint(k)' <=> FromCheckpoint(k))
      BY <3>1 DEF Shown, FromCheckpoint
    <3>4. CommandIsTheForm'
      BY <1>2, <3>1, <3>3, QueuedCommand DEF CommandIsTheForm
    <3> QED BY <3>2, <3>4
  <2>6. CASE UNCHANGED formVars
    BY <1>2, <2>6 DEF formVars, IsForm, CommandIsTheForm, Shown, FromCheckpoint
  <2> QED BY <1>2, <2>1, <2>2, <2>3, <2>4, <2>5, <2>6 DEF FormNext
<1> QED BY <1>1, <1>2, PTL DEF FormSpec


-------------------------------------------------------------------------------
(* NeighborCache *)

\* Division with remainder.
LEMMA DivMod ==
    ASSUME NEW x \in Int, NEW l \in Nat \ {0}
    PROVE  x \div l \in Int /\ x % l \in 0..(l-1) /\ x = (x \div l) * l + (x % l)
  BY SMT

\* A multiple has no remainder.
LEMMA CellMultiple ==
    ASSUME NEW q \in Int, NEW l \in Nat \ {0}
    PROVE  q * l \in Int /\ (q * l) % l = 0 /\ (q * l) \div l = q
<1>0. PICK x : x = q * l /\ x \in Int
  BY SMT
<1>1. PICK d \in Int, r \in 0..(l-1) : d = x \div l /\ r = x % l /\ x = d * l + r
  BY <1>0, DivMod
<1>2. r = (q - d) * l
  BY <1>0, <1>1, SMT
<1>3. CASE q = d
  <2>1. r = 0
    BY <1>2, <1>3, SMT
  <2> QED BY <1>0, <1>1, <1>3, <2>1
<1>4. CASE q - d >= 1
  <2>1. (q - d) * l >= l
    BY <1>1, <1>4, SMT
  <2> QED BY <1>1, <1>2, <2>1, SMT
<1>5. CASE q - d <= -1
  <2>1. (q - d) * l <= -l
    BY <1>1, <1>5, SMT
  <2> QED BY <1>1, <1>2, <2>1, SMT
<1> QED BY <1>1, <1>3, <1>4, <1>5, SMT

\* What a bound on the size says of a number.
LEMMA SizeFact ==
    ASSUME NEW x \in Int
    PROVE  /\ Size(x) \in Nat
           /\ \A b \in Int : Size(x) < b <=> (-b < x /\ x < b)
           /\ \A b \in Int : 2 * Size(x) <= b <=> (-b <= 2 * x /\ 2 * x <= b)
  BY SMT DEF Size

\* The parts of a structure and their types.
LEMMA StructureFacts ==
    ASSUME NEW s \in Structure
    PROVE  /\ DOMAIN s.at \subseteq Site
           /\ s.at \in [DOMAIN s.at -> Coordinate]
           /\ s.cell \in Nat \ {0} /\ s.periodic \in BOOLEAN
           /\ \A i \in DOMAIN s.at : s.at[i] \in Int
           /\ \A i, j \in DOMAIN s.at : Cutoff[{s.of[i], s.of[j]}] \in 0..MaxCutoff
<1>1. PICK some \in SUBSET Site : s.at \in [some -> Coordinate]
  BY DEF Structure
<1>2. DOMAIN s.at = some
  BY <1>1
<1>3. s.of \in [Site -> Element] /\ s.cell \in Length /\ s.periodic \in BOOLEAN
  BY DEF Structure
<1> QED BY <1>1, <1>2, <1>3, NeighborAssumption

\* The shortest displacement differs from a displacement by whole cells.
LEMMA NearestFact ==
    ASSUME NEW x \in Int, NEW l \in Nat \ {0}
    PROVE  /\ Nearest(x, l) \in Int
           /\ \E q \in Int : x - Nearest(x, l) = q * l /\ (x - Nearest(x, l)) \div l = q
<1>1. PICK h \in Int : h = l \div 2
  BY SMT
<1>2. PICK q \in Int, r \in 0..(l-1) :
          q = (x + h) \div l /\ r = (x + h) % l /\ x + h = q * l + r
  <2>1. x + h \in Int
    BY <1>1
  <2> QED BY <2>1, DivMod
<1>3. Nearest(x, l) = r - h
  BY <1>1, <1>2 DEF Nearest
<1>4. x - Nearest(x, l) = q * l
  BY <1>1, <1>2, <1>3, CellMultiple
<1>5. (x - Nearest(x, l)) \div l = q
  BY <1>4, CellMultiple
<1> QED BY <1>1, <1>2, <1>3, <1>4, <1>5

\* The heart of the cache (_filter): if no atom has moved by more than half the
\* skin since the search, then the images found with the larger cutoff, filtered
\* at the current coordinates, are exactly the pairs of a fresh search.  A pair of
\* now was a pair of the search, because its two ends moved by at most the skin
\* together; and the lattice shift is counted from the wrapped coordinates.
LEMMA Verlet ==
    ASSUME NEW s \in Structure, NEW old \in Structure, s.periodic, Reusable(s, old)
    PROVE  Kept(s, old, Images(old)) = Search(s, 0)
<1> DEFINE D == DOMAIN s.at
           L == s.cell
           moved == Displaced(s, old)
           wrapped == [i \in D |-> (s.at[i] - old.at[i] - moved[i]) \div L]
           Vector(m) == Raw(s, m[1], m[2]) + (m[3] - wrapped[m[2]] + wrapped[m[1]]) * L
<1>1. /\ L \in Nat \ {0} /\ old.cell = L /\ old.periodic /\ DOMAIN old.at = D
      /\ \A i \in D : s.at[i] \in Int /\ old.at[i] \in Int
      /\ \A i, j \in D : /\ Cutoff[{s.of[i], s.of[j]}] \in 0..MaxCutoff
                         /\ Cutoff[{old.of[i], old.of[j]}] = Cutoff[{s.of[i], s.of[j]}]
      /\ Skin \in Nat /\ MaxCutoff \in Nat
  BY StructureFacts, NeighborAssumption DEF Reusable
<1>2. \A i \in D : /\ moved[i] \in Int /\ wrapped[i] \in Int
                   /\ s.at[i] - old.at[i] - moved[i] = wrapped[i] * L
                   /\ 2 * Size(moved[i]) <= Skin
  <2> SUFFICES ASSUME NEW i \in D
               PROVE  /\ moved[i] \in Int /\ wrapped[i] \in Int
                      /\ s.at[i] - old.at[i] - moved[i] = wrapped[i] * L
                      /\ 2 * Size(moved[i]) <= Skin
    OBVIOUS
  <2>1. moved[i] = Nearest(s.at[i] - old.at[i], L)
    BY DEF Displaced
  <2>2. s.at[i] - old.at[i] \in Int
    BY <1>1
  <2>3. 2 * Size(moved[i]) <= Skin
    BY DEF Reusable
  <2> HIDE DEF moved
  <2>4. wrapped[i] = (s.at[i] - old.at[i] - moved[i]) \div L
    OBVIOUS
  <2> HIDE DEF wrapped, L
  <2>5. PICK x \in Int : x = s.at[i] - old.at[i]
    BY <2>2
  <2>6. PICK q \in Int : x - Nearest(x, L) = q * L /\ (x - Nearest(x, L)) \div L = q
    BY <1>1, NearestFact
  <2>7. moved[i] \in Int
    BY <1>1, <2>1, <2>5, NearestFact
  <2>8. wrapped[i] = q
    BY <2>1, <2>4, <2>5, <2>6
  <2>9. s.at[i] - old.at[i] - moved[i] = wrapped[i] * L
    BY <2>1, <2>5, <2>6, <2>8
  <2> QED BY <2>3, <2>7, <2>8, <2>9
<1> HIDE DEF moved, wrapped, L, D
<1>3. ASSUME NEW i \in D, NEW j \in D, NEW n \in Int, NEW u \in Int, u - Raw(old, i, j) = n * L
      PROVE  /\ Vector(<<i, j, n>>) = u + moved[j] - moved[i]
             /\ (Vector(<<i, j, n>>) - Raw(s, i, j)) % L = 0
  <2>1. PICK k \in Int : k = n - wrapped[j] + wrapped[i]
    BY <1>2
  <2>2. Vector(<<i, j, n>>) = Raw(s, i, j) + k * L
    BY <2>1
  <2>3. k * L = n * L - wrapped[j] * L + wrapped[i] * L /\ k * L \in Int
    BY <1>1, <1>2, <2>1, SMT
  <2>4. n * L \in Int /\ wrapped[i] * L \in Int /\ wrapped[j] * L \in Int
    BY <1>1, <1>2, SMT
  <2>5. Vector(<<i, j, n>>) = u + moved[j] - moved[i]
    <3> HIDE DEF Vector
    <3>1. /\ s.at[i] - old.at[i] - moved[i] = wrapped[i] * L
          /\ s.at[j] - old.at[j] - moved[j] = wrapped[j] * L
      BY <1>2
    <3>2. /\ s.at[i] \in Int /\ s.at[j] \in Int /\ old.at[i] \in Int /\ old.at[j] \in Int
          /\ moved[i] \in Int /\ moved[j] \in Int
      BY <1>1, <1>2
    <3>3. u - (old.at[j] - old.at[i]) = n * L
      BY <1>3 DEF Raw
    <3> QED BY <2>2, <2>3, <2>4, <3>1, <3>2, <3>3 DEF Raw
  <2>6. Vector(<<i, j, n>>) - Raw(s, i, j) = k * L
    <3> HIDE DEF Vector
    <3>1. Raw(s, i, j) \in Int
      BY <1>1 DEF Raw
    <3> QED BY <2>2, <2>3, <3>1
  <2> HIDE DEF Vector
  <2> QED BY <1>1, <2>5, <2>6, CellMultiple
<1>4. ASSUME NEW i \in D, NEW j \in D, NEW v \in Int
      PROVE  \E c \in 0..MaxCutoff :
                /\ InReach(s, i, j, v, 0) <=> (-c < v /\ v < c)
                /\ InReach(old, i, j, v, Skin) <=> (-(c + Skin) < v /\ v < c + Skin)
  <2>1. PICK c \in 0..MaxCutoff : c = Cutoff[{s.of[i], s.of[j]}]
    BY <1>1
  <2>2. Cutoff[{old.of[i], old.of[j]}] = c
    BY <1>1, <2>1
  <2>3. c \in Int /\ c + Skin \in Int /\ c + 0 = c
    BY <1>1
  <2>4. InReach(s, i, j, v, 0) <=> Size(v) < c
    BY <2>1, <2>3 DEF InReach
  <2>5. InReach(old, i, j, v, Skin) <=> Size(v) < c + Skin
    BY <2>2 DEF InReach
  <2>6. Size(v) < c <=> (-c < v /\ v < c)
    BY <2>3, SizeFact
  <2>7. Size(v) < c + Skin <=> (-(c + Skin) < v /\ v < c + Skin)
    BY <2>3, SizeFact
  <2> QED BY <2>4, <2>5, <2>6, <2>7
<1>5. \A i, j \in D : s.periodic => Raw(old, i, j) \in Int
  BY <1>1 DEF Raw
<1>6. \A x \in Int : Size(x) \in Nat
  BY DEF Size
<1>7. ASSUME NEW p \in Kept(s, old, Images(old)) PROVE p \in Search(s, 0)
  <2>1. PICK m \in Images(old) : /\ p = <<m[1], m[2], Vector(m)>>
                                 /\ InReach(s, m[1], m[2], Vector(m), 0)
    BY DEF Kept, Vector, wrapped, moved, L, D
  <2>2. PICK o \in Search(old, Skin) :
            m = <<o[1], o[2], (o[3] - Raw(old, o[1], o[2])) \div old.cell>>
    BY <2>1 DEF Images
  <2>3. PICK i \in D, j \in D, u \in Vectors : o = <<i, j, u>>
    BY <1>1, <2>2 DEF Search
  <2>4. /\ (u - Raw(old, i, j)) % L = 0
        /\ i = j => u # 0
    BY <1>1, <2>2, <2>3 DEF Search, ImageAt
  <2>5. u \in Int /\ Raw(old, i, j) \in Int
    BY <1>1, <1>5, <2>3 DEF Vectors
  <2>6. PICK n \in Int : n = (u - Raw(old, i, j)) \div L /\ u - Raw(old, i, j) = n * L
    <3>1. u - Raw(old, i, j) \in Int
      BY <2>5
    <3>2. PICK x \in Int : x = u - Raw(old, i, j)
      BY <3>1
    <3>3. x % L = 0
      BY <2>4, <3>2
    <3>5. x \div L \in Int /\ x = (x \div L) * L + (x % L)
      BY <1>1, DivMod
    <3>4. (x \div L) * L \in Int
      BY <1>1, <3>5, CellMultiple
    <3> QED BY <3>2, <3>3, <3>4, <3>5
  <2>7. m = <<i, j, n>>
    BY <1>1, <2>2, <2>3, <2>6
  <2>8. /\ Vector(m) = u + moved[j] - moved[i]
        /\ (Vector(m) - Raw(s, i, j)) % L = 0
    BY <1>3, <2>5, <2>6, <2>7
  <2>9. Vector(m) \in Int
    BY <1>2, <2>5, <2>8
  <2> HIDE DEF Vector
  <2>10. InReach(s, i, j, Vector(m), 0)
    BY <2>1, <2>7
  <2>11. Vector(m) \in Vectors
    BY <1>1, <1>4, <2>9, <2>10 DEF Vectors
  <2>12. ASSUME i = j PROVE Vector(m) # 0
    <3>1. u # 0 /\ moved[i] \in Int
      BY <1>2, <2>4, <2>12
    <3> QED BY <2>5, <2>8, <2>12, <3>1
  <2>13. p = <<i, j, Vector(m)>>
    BY <2>1, <2>7
  <2> QED BY <1>1, <2>1, <2>7, <2>8, <2>11, <2>12, <2>13 DEF Search, ImageAt, D, L
<1>8. ASSUME NEW p \in Search(s, 0) PROVE p \in Kept(s, old, Images(old))
  <2>1. PICK i \in D, j \in D, v \in Vectors :
            /\ p = <<i, j, v>> /\ (v - Raw(s, i, j)) % L = 0
            /\ i = j => v # 0
            /\ InReach(s, i, j, v, 0)
    BY DEF Search, ImageAt, D, L
  <2>2. v \in Int /\ moved[i] \in Int /\ moved[j] \in Int /\ Raw(old, i, j) \in Int
    BY <1>1, <1>2, <1>5 DEF Vectors
  <2>3. PICK u \in Int : u = v - moved[j] + moved[i]
    BY <2>2
  <2>4. InReach(old, i, j, u, Skin)
    <3>1. /\ -Skin <= 2 * moved[i] /\ 2 * moved[i] <= Skin
          /\ -Skin <= 2 * moved[j] /\ 2 * moved[j] <= Skin
      BY <1>1, <1>2, <2>2, SizeFact, SMTT(30)
    <3>3. PICK k \in 0..MaxCutoff :
              /\ k = Cutoff[{s.of[i], s.of[j]}]
              /\ k = Cutoff[{old.of[i], old.of[j]}]
      BY <1>1
    <3>4. -k < v /\ v < k
      <4>1. k + 0 = k /\ k \in Int
        BY <3>3
      <4> QED BY <2>1, <2>2, <3>3, <4>1, SizeFact DEF InReach
    <3>5. -(k + Skin) < u /\ u < k + Skin /\ k + Skin \in Int
      BY <1>1, <2>2, <2>3, <3>1, <3>3, <3>4
    <3> QED BY <2>3, <3>3, <3>5, SizeFact DEF InReach
  <2>5. u \in Vectors
    <3>1. PICK c \in 0..MaxCutoff : -(c + Skin) < u /\ u < c + Skin
      BY <1>4, <2>4
    <3> QED BY <1>1, <3>1 DEF Vectors
  <2>6. \E n \in Int : u - Raw(old, i, j) = n * L
    <3>1. v - Raw(s, i, j) \in Int
      BY <1>1, <2>2 DEF Raw
    <3>2. PICK q \in Int : v - Raw(s, i, j) = q * L
      <4>1. PICK x \in Int : x = v - Raw(s, i, j) /\ x % L = 0
        BY <2>1, <3>1
      <4>2. x \div L \in Int /\ x = (x \div L) * L + (x % L)
        BY <1>1, DivMod
      <4>3. (x \div L) * L \in Int
        BY <1>1, <4>2, CellMultiple
      <4> QED BY <4>1, <4>2, <4>3
    <3>3. PICK k \in Int : k = q + wrapped[j] - wrapped[i]
      BY <1>2
    <3>4. k * L = q * L + wrapped[j] * L - wrapped[i] * L
      BY <1>1, <1>2, <3>3, SMT
    <3>5. q * L \in Int /\ wrapped[j] * L \in Int /\ wrapped[i] * L \in Int
      BY <1>1, <1>2, SMT
    <3>6. /\ s.at[i] - old.at[i] - moved[i] = wrapped[i] * L
          /\ s.at[j] - old.at[j] - moved[j] = wrapped[j] * L
      BY <1>2
    <3>7. /\ s.at[i] \in Int /\ s.at[j] \in Int /\ old.at[i] \in Int /\ old.at[j] \in Int
      BY <1>1
    <3>8. u - Raw(old, i, j) = k * L
      BY <2>2, <2>3, <3>2, <3>4, <3>5, <3>6, <3>7 DEF Raw
    <3> QED BY <3>8
  <2>7. PICK n \in Int : u - Raw(old, i, j) = n * L
    BY <2>6
  <2>8. (u - Raw(old, i, j)) % L = 0 /\ (u - Raw(old, i, j)) \div L = n
    BY <1>1, <2>7, CellMultiple
  <2>9. ASSUME i = j PROVE u # 0
    <3>1. u = v - moved[i] + moved[i] /\ v # 0
      BY <2>1, <2>3, <2>9
    <3> QED BY <2>2, <3>1
  <2>10. <<i, j, u>> \in Search(old, Skin)
    BY <1>1, <2>4, <2>5, <2>8, <2>9 DEF Search, ImageAt, InReach
  <2>11. <<i, j, n>> \in Images(old)
    BY <1>1, <2>8, <2>10 DEF Images
  <2>12. Vector(<<i, j, n>>) = v
    BY <1>3, <2>2, <2>3, <2>7
  <2>13. PICK m \in Images(old) : m = <<i, j, n>>
    BY <2>11
  <2>14. Vector(m) = v /\ m[1] = i /\ m[2] = j
    BY <2>12, <2>13
  <2>15. InReach(s, m[1], m[2], Vector(m), 0) /\ p = <<m[1], m[2], Vector(m)>>
    BY <2>1, <2>14
  <2> QED BY <2>15 DEF Kept, Vector, wrapped, moved, L, D
<1> QED BY <1>7, <1>8

-------------------------------------------------------------------------------
(* The invariant *)

\* A structure is always reusable for itself.
LEMMA OwnReference ==
    ASSUME NEW s \in Structure
    PROVE  Reusable(s, s)
<1>1. /\ \A i \in DOMAIN s.at : s.at[i] \in Int
      /\ s.cell \in Nat \ {0} /\ Skin \in Nat
  BY StructureFacts, NeighborAssumption
<1>2. Nearest(0, s.cell) = 0
  <2>1. PICK l \in Nat \ {0} : l = s.cell
    BY <1>1
  <2>2. PICK h \in Nat : h = l \div 2 /\ h < l
    BY SMT
  <2>3. (0 + h) % l = h
    BY <2>2, SMT
  <2> QED BY <2>1, <2>2, <2>3 DEF Nearest
<1>3. \A i \in DOMAIN s.at : s.at[i] - s.at[i] = 0
  BY <1>1
<1>4. \A i \in DOMAIN s.at : Displaced(s, s)[i] = 0
  BY <1>2, <1>3 DEF Displaced
<1>5. \A i \in DOMAIN s.at : 2 * Size(Displaced(s, s)[i]) <= Skin
  BY <1>1, <1>4 DEF Size
<1> QED BY <1>5 DEF Reusable

\* What is stored is what a search of the stored structure finds, unless the
\* calculator was invalidated.
StoredIsASearch ==
    (~failed /\ stored # NoCache) =>
        /\ stored.structure \in Structure /\ stored.structure.periodic
        /\ stored.images = Images(stored.structure)

NeighborInvariant ==
    /\ atoms \in Structure
    /\ failed \in BOOLEAN
    /\ StoredIsASearch
    /\ PairsAreFresh

\* Every step keeps the invariant.
LEMMA NeighborInvariantInductive ==
    NeighborInvariant /\ [NeighborNext]_neighborVars => NeighborInvariant'
<1> SUFFICES ASSUME NeighborInvariant, [NeighborNext]_neighborVars
             PROVE  NeighborInvariant'
  OBVIOUS
<1> USE DEF NeighborInvariant
<1>1. ASSUME NEW s, Change(s) PROVE NeighborInvariant'
  BY <1>1 DEF Change, StoredIsASearch, PairsAreFresh
<1>2. CASE \E i \in DOMAIN atoms.at : Move(i) \/ TakeOut(i)
  BY <1>1, <1>2 DEF Move, TakeOut
<1>3. CASE \E i \in Site, element \in Element : Substitute(i, element)
  BY <1>1, <1>3 DEF Substitute
<1>4. CASE \E length \in Length : Stretch(length)
  BY <1>1, <1>4 DEF Stretch
<1>5. CASE Wrap
  BY <1>1, <1>5 DEF Wrap
<1>6. CASE OpenOrClose
  BY <1>1, <1>6 DEF OpenOrClose
<1>7. CASE EvaluateOpen
  BY <1>7 DEF EvaluateOpen, StoredIsASearch, PairsAreFresh
<1>8. CASE EvaluateStored
  <2>1. Kept(atoms, stored.structure, stored.images) = Search(atoms, 0)
    BY <1>8, Verlet DEF EvaluateStored, StoredIsASearch
  <2> QED BY <1>8, <2>1 DEF EvaluateStored, StoredIsASearch, PairsAreFresh
<1>9. CASE EvaluateAnew
  <2>1. Kept(atoms, atoms, Images(atoms)) = Search(atoms, 0)
    BY <1>9, Verlet, OwnReference DEF EvaluateAnew
  <2>2. PairsAreFresh'
    BY <1>9, <2>1 DEF EvaluateAnew, PairsAreFresh
  <2>3. StoredIsASearch'
    <3>1. stored' = [structure |-> atoms, images |-> Images(atoms)]
      BY <1>9 DEF EvaluateAnew
    <3> QED BY <1>9, <3>1 DEF EvaluateAnew, StoredIsASearch
  <2> QED BY <1>9, <2>2, <2>3 DEF EvaluateAnew
<1>10. CASE EvaluationFails
  BY <1>10 DEF EvaluationFails, StoredIsASearch, PairsAreFresh
<1>11. CASE UNCHANGED neighborVars
  BY <1>11 DEF neighborVars, StoredIsASearch, PairsAreFresh
<1> QED
  BY <1>2, <1>3, <1>4, <1>5, <1>6, <1>7, <1>8, <1>9, <1>10, <1>11 DEF NeighborNext

\* Whatever the caller does between two evaluations, the pairs given to the
\* model are those of a fresh search (_NeighborListCache), for every set of
\* atoms, cutoffs, skin and cells.
THEOREM AlwaysFresh == NeighborSpec => []PairsAreFresh
<1>1. NeighborInit => NeighborInvariant
  BY DEF NeighborInit, NeighborInvariant, StoredIsASearch, PairsAreFresh
<1>2. NeighborInvariant => PairsAreFresh
  BY DEF NeighborInvariant
<1> QED BY <1>1, <1>2, NeighborInvariantInductive, PTL DEF NeighborSpec

-------------------------------------------------------------------------------
(* The types of the parts that MCThreads puts side by side *)

\* The widgets of the run screen and the record it follows have their types.
THEOREM ScreenTypesCorrect == ScreenSpec => []ScreenTypeOK
<1> DEFINE Words == {"", "queued", "unqueued", "pending", "stage", "converged", "finished"}
                      \union Settled
           Statuses == {"none", "pending", "paused", "claimed", "running", "gone"} \union Settled
           Engined == engine \in {"none", "running", "completed", "not_converged", "failed", "cancelled"}
           Worded == kind \in {"plain", "neb"} /\ job \in Statuses /\ text \in Words /\ Engined
           Counted == logged \in 0..MaxOpened /\ displayed \in 0..MaxOpened
           Flagged == mounted \in BOOLEAN /\ timer \in BOOLEAN /\ cancelOn \in BOOLEAN
<1>1. ScreenTypeOK <=> Worded /\ Counted /\ Flagged
  BY DEF ScreenTypeOK
<1>2. ScreenInit => Worded /\ Counted /\ Flagged
  <2>1. ScreenInit => Worded
    BY DEF ScreenInit
  <2>2. ScreenInit => Counted
    <3>1. ScreenInit => logged = 0 /\ displayed = 0
      BY DEF ScreenInit
    <3> QED BY <3>1, ScreenAssumption
  <2>3. ScreenInit => Flagged
    BY DEF ScreenInit
  <2> HIDE DEF Worded, Counted, Flagged
  <2> QED BY <2>1, <2>2, <2>3
<1>3. ASSUME Worded, Counted, Flagged, [ScreenNext]_screenVars PROVE Flagged'
  <2>1. CASE JobMoves \/ JobEnds \/ JobRemoved \/ EngineMoves \/ LogGrows
    BY <1>3, <2>1 DEF JobMoves, JobEnds, JobRemoved, EngineMoves, LogGrows, widgets
  <2>2. CASE Mount \/ PressCancel
    BY <1>3, <2>2, Zenon DEF Mount, PressCancel
  <2>3. CASE LeaveScreen \/ Refresh \/ UNCHANGED screenVars
    BY <1>3, <2>3, Zenon DEF LeaveScreen, Refresh, EndsWatch, outside, screenVars
  <2> QED BY <1>3, <2>1, <2>2, <2>3 DEF ScreenNext
<1>4. ASSUME Worded, [ScreenNext]_screenVars PROVE Worded'
  <2>1. CASE JobMoves
    <3>1. PICK move \in {<<"pending", "claimed">>, <<"claimed", "running">>,
                         <<"claimed", "pending">>, <<"pending", "paused">>,
                         <<"paused", "pending">>} :
             job = move[1] /\ job' = move[2]
      BY <2>1 DEF JobMoves
    <3>2. job' \in {"pending", "claimed", "running", "paused"}
      BY <3>1
    <3> QED BY <1>4, <2>1, <3>2 DEF JobMoves, widgets
  <2>2. CASE JobEnds
    <3>1. job' \in Settled
      BY <2>2 DEF JobEnds, Settled
    <3> QED BY <1>4, <2>2, <3>1 DEF JobEnds, widgets
  <2>3. CASE JobRemoved \/ EngineMoves \/ LogGrows
    BY <1>4, <2>3 DEF JobRemoved, EngineMoves, LogGrows, widgets
  <2>4. CASE Mount
    BY <1>4, <2>4 DEF Mount
  <2>5. CASE PressCancel
    BY <1>4, <2>5 DEF PressCancel, Settled
  <2>6. CASE LeaveScreen \/ UNCHANGED screenVars
    BY <1>4, <2>6 DEF LeaveScreen, outside, screenVars
  <2>7. CASE Refresh
    <3>1. Line \in Words
      <4>1. Summary \in Words
        BY DEF Summary, Settled
      <4> QED BY <1>4, <4>1 DEF Line, Settled
    <3>2. text' \in Words
      BY <1>4, <2>7, <3>1 DEF Refresh
    <3> QED BY <1>4, <2>7, <3>2 DEF Refresh, outside
  <2> QED BY <1>4, <2>1, <2>2, <2>3, <2>4, <2>5, <2>6, <2>7 DEF ScreenNext
<1>5. ASSUME Counted, [ScreenNext]_screenVars PROVE Counted'
  <2>1. CASE LogGrows
    <3>1. logged < MaxOpened /\ logged' = logged + 1 /\ displayed' = displayed
      BY <2>1 DEF LogGrows, widgets
    <3> QED BY <1>5, <3>1, ScreenAssumption
  <2>2. CASE ~LogGrows
    <3>1. logged' \in {logged, 0} /\ displayed' \in {displayed, logged, 0}
      BY <1>5, <2>2 DEF ScreenNext, JobMoves, JobEnds, JobRemoved, EngineMoves, Mount, Refresh,
                        PressCancel, LeaveScreen, widgets, outside, screenVars
    <3> QED BY <1>5, <3>1, ScreenAssumption
  <2> QED BY <2>1, <2>2
<1> HIDE DEF Worded, Counted, Flagged
<1>6. ScreenTypeOK /\ [ScreenNext]_screenVars => (Worded /\ Counted /\ Flagged)'
  BY <1>1, <1>3, <1>4, <1>5
<1>7. (Worded /\ Counted /\ Flagged)' => ScreenTypeOK'
  BY DEF Worded, Counted, Flagged, ScreenTypeOK
<1> QED BY <1>1, <1>2, <1>6, <1>7, PTL DEF ScreenSpec

\* A batch has its types whatever the names of its files are: the invariant
\* that needs no OwnNames.
BatchTyped == BatchTypeOK /\ Listed /\ Pace

\* An entry about the structure under way has its type.
LEMMA EntryTyped ==
    ASSUME BatchTyped, at \in DOMAIN batch, NEW success \in BOOLEAN, AddEntry(success)
    PROVE  /\ entries' \in Seq([file : InputFiles, success : BOOLEAN, dir : Names])
           /\ Len(entries') = Len(entries) + 1
<1>1. Current \in InputFiles /\ Place \in Names
  BY PlaceIsName DEF BatchTyped, Current, Place
<1>2. [file |-> Current, success |-> success, dir |-> Place]
        \in [file : InputFiles, success : BOOLEAN, dir : Names]
  BY <1>1
<1> QED BY <1>2 DEF AddEntry, BatchTyped, BatchTypeOK

\* The batch, its entries and its directories have their types, for files of
\* any names.
THEOREM BatchTypesCorrect == BatchSpec => []BatchTypeOK
<1> USE BatchAssumption DEF BatchStep, BatchEnds, Trouble
<1>1. BatchInit => BatchTyped
  <2> SUFFICES ASSUME BatchInit PROVE BatchTyped
    OBVIOUS
  <2>1. Len(Inputs) \in Nat /\ Len(batch) = 0 /\ Len(entries) = 0
    BY DEF BatchInit
  <2>2. batch \in Seq(InputFiles) /\ IsInjective(batch) /\ DOMAIN batch = {}
        /\ entries \in Seq([file : InputFiles, success : BOOLEAN, dir : Names])
    BY DEF BatchInit, IsInjective
  <2> QED BY <2>1, <2>2 DEF BatchInit, BatchTyped, BatchTypeOK, BatchSteps, Listed, Pace, UnderWay, Afterwards,
                           Contents, FileStates
<1>2. ASSUME BatchTyped, [BatchNext]_batchVars PROVE BatchTyped'
  <2> USE DEF UnderWay, Afterwards
  <2>1. BatchTypeOK /\ Listed /\ Pace
    BY <1>2 DEF BatchTyped
  <2>2. Len(batch) \in Nat /\ Len(entries) \in Nat /\ at \in Nat /\ Len(Inputs) \in Nat
    BY <2>1 DEF BatchTypeOK, Pace, Listed
  <2>3. CASE BeginBatch
    <3>1. PICK chosen \in Listings, left \in {"absent", "earlier"} :
             \E leftJson \in {"absent", left} :
             /\ batch' = chosen
             /\ dirs' = [n \in Names |-> [of |-> IF left = "absent" THEN NoInput ELSE "earlier",
                                          files |-> left, json |-> leftJson]]
             /\ summary' \in {"absent", leftJson}
             /\ IF chosen = <<>> THEN BatchEnds(1) ELSE BatchStep("model")
      BY <2>3 DEF BeginBatch
    <3>2. /\ batch' \in Seq(InputFiles) /\ IsInjective(batch)' /\ Len(batch') <= Len(Inputs)
          /\ Len(batch') \in Nat
      BY <3>1, ListingsAreListed
    <3>3. entries' = <<>> /\ at' = 1 /\ writeJson' \in BOOLEAN /\ trouble' = trouble
      BY <2>1, <2>3 DEF BeginBatch, Pace
    <3>4. entries' \in Seq([file : InputFiles, success : BOOLEAN, dir : Names]) /\ Len(entries') = 0
      BY <3>3
    <3>5. bpc' \in {"over", "model"} /\ bexit' \in {0, 1, 130, 137, 99}
          /\ (bpc' = "model" => batch' # <<>>)
      BY <2>1, <3>1 DEF BatchTypeOK
    <3>6. dirs' \in [Names -> Contents] /\ summary' \in {"absent", "earlier", "torn", "whole"}
      BY <3>1 DEF Contents, FileStates
    <3>7. BatchTypeOK'
      BY <2>1, <2>2, <3>2, <3>3, <3>4, <3>5, <3>6 DEF BatchTypeOK, BatchSteps
    <3>8. Pace'
      BY <3>2, <3>3, <3>4, <3>5 DEF Pace
    <3> QED BY <3>2, <3>7, <3>8 DEF BatchTyped, Listed
  <2>4. CASE ModelLoads \/ ReadStructure \/ OpenSummary \/ CloseSummary \/ OpenTiming
             \/ CloseTiming \/ ReportBatch \/ BatchFails \/ BatchInterrupted \/ UNCHANGED batchVars
    <3>1. UNCHANGED <<batch, writeJson, at, dirs, entries>>
      BY <2>4 DEF ModelLoads, ReadStructure, OpenSummary, CloseSummary, OpenTiming, CloseTiming,
                  ReportBatch, BatchFails, BatchInterrupted, batchVars
    <3>2. /\ bpc' \in BatchSteps /\ summary' \in {"absent", "earlier", "torn", "whole"}
          /\ bexit' \in {0, 1, 130, 137, 99} /\ trouble' \in 0..MaxTrouble
      BY <2>1, <2>4 DEF BatchTypeOK, BatchSteps, ModelLoads, ReadStructure, OpenSummary, CloseSummary,
              OpenTiming, CloseTiming, ReportBatch, BatchFails, BatchInterrupted, batchVars
    <3>3. Pace'
      <4>1. CASE ModelLoads
        <5>1. Len(batch) >= 1
          BY <2>1, <2>2, <4>1 DEF ModelLoads, Pace, Listed
        <5> QED BY <2>1, <2>2, <3>1, <4>1, <5>1 DEF ModelLoads, Pace
      <4>2. CASE ReadStructure
        BY <2>1, <2>2, <3>1, <4>2 DEF ReadStructure, Pace
      <4>3. CASE OpenSummary \/ CloseSummary \/ OpenTiming \/ CloseTiming
        BY <2>1, <2>2, <3>1, <4>3 DEF OpenSummary, CloseSummary, OpenTiming, CloseTiming, Pace
      <4>4. CASE ReportBatch \/ BatchFails \/ BatchInterrupted
        BY <2>1, <2>2, <3>1, <4>4 DEF ReportBatch, BatchFails, BatchInterrupted, Pace
      <4>5. CASE UNCHANGED batchVars
        BY <2>1, <2>2, <3>1, <4>5 DEF batchVars, Pace
      <4> QED BY <2>4, <4>1, <4>2, <4>3, <4>4, <4>5
    <3> QED BY <2>1, <3>1, <3>2, <3>3 DEF BatchTyped, BatchTypeOK, Listed
  <2>5. CASE NextStructure
    <3>1. Len(batch) <= Len(Inputs) /\ at \in 1..Len(batch) /\ Len(entries) = at
      BY <2>1, <2>5 DEF NextStructure, Listed, Pace
    <3>2. UNCHANGED <<batch, writeJson, dirs, entries, summary, trouble, bexit>> /\ at' = at + 1
          /\ bpc' = IF at < Len(batch) THEN "read" ELSE "summary"
      BY <2>5 DEF NextStructure
    <3>3. Pace'
      BY <2>2, <3>1, <3>2 DEF Pace
    <3>4. BatchTypeOK'
      BY <2>1, <2>2, <3>1, <3>2 DEF BatchTypeOK, BatchSteps
    <3> QED BY <2>1, <3>2, <3>3, <3>4 DEF BatchTyped, Listed
  <2>6. CASE DirectoryWork
    <3>1. /\ UNCHANGED <<batch, writeJson, at, entries, summary, bexit>>
          /\ bpc \in {"compute", "write", "stamp", "rewrite"}
          /\ bpc' \in {"write", "stamp", "rewrite", "finish"}
          /\ trouble' = trouble \/ (trouble < MaxTrouble /\ trouble' = trouble + 1)
      BY <2>6 DEF DirectoryWork, ComputeStructure, WriteStructure, OpenStamp, CloseStamp, StampFails
    <3>2. at \in DOMAIN batch
      BY <2>1, <2>2, <3>1 DEF Pace, Listed
    <3>3. Place \in Names
      BY <2>1, <3>2, PlaceIsName DEF Place, Current
    <3>4. \E r \in Contents : dirs' = [dirs EXCEPT ![Place] = r]
      BY <2>1, <2>6, <3>2, DirectoryWritten
    <3>5. dirs' \in [Names -> Contents] /\ trouble' \in 0..MaxTrouble
      BY <2>1, <3>1, <3>3, <3>4 DEF BatchTypeOK
    <3> QED BY <2>1, <2>2, <3>1, <3>5 DEF BatchTyped, BatchTypeOK, BatchSteps, Listed, Pace
  <2>7. CASE RecordSuccess \/ StructureFails
    <3>0. bpc \in {"read", "compute", "write", "finish"}
      BY <2>7 DEF RecordSuccess, StructureFails
    <3>1. at \in DOMAIN batch /\ Len(entries) = at - 1 /\ at \in 1..Len(batch)
      BY <2>1, <2>2, <3>0 DEF Pace, Listed
    <3>2. \E success \in BOOLEAN : AddEntry(success)
      BY <2>7 DEF RecordSuccess, StructureFails
    <3>3. /\ entries' \in Seq([file : InputFiles, success : BOOLEAN, dir : Names])
          /\ Len(entries') = Len(entries) + 1
      BY <1>2, <3>1, <3>2, EntryTyped
    <3>4. UNCHANGED <<batch, writeJson, at, dirs, summary, bexit>> /\ bpc' = "next"
      BY <2>7 DEF RecordSuccess, StructureFails
    <3>5. trouble' \in 0..MaxTrouble
      <4>1. trouble' = trouble \/ (trouble < MaxTrouble /\ trouble' = trouble + 1)
        BY <2>7 DEF RecordSuccess, StructureFails
      <4> QED BY <2>1, <4>1 DEF BatchTypeOK
    <3> QED BY <2>1, <2>2, <3>1, <3>3, <3>4, <3>5 DEF BatchTyped, BatchTypeOK, BatchSteps, Listed, Pace
  <2> QED BY <1>2, <2>3, <2>4, <2>5, <2>6, <2>7 DEF BatchNext, DirectoryWork
<1>3. BatchTyped => BatchTypeOK
  BY DEF BatchTyped
<1> QED BY <1>1, <1>2, <1>3, PTL DEF BatchSpec

\* What a widget can hold: only three of them can hold what does not parse, one
\* can be empty.
FormHolds ==
    /\ form \in [Keys -> Values] /\ form["model"] \in Engines \union {"none"}
    /\ \A k \in Keys : /\ form[k] = "bad" => k \in {"charge", "skin", "fmax"}
                       /\ form[k] = "blank" => k = "fmax"

\* What app.config can hold: only what was read.
ConfigHolds(c) ==
    /\ c \in [Keys -> Values] /\ c["model"] \in Engines \union {"none"}
    /\ \A k \in Keys : c[k] # "bad" /\ c[k] # "blank"

\* A default task is a task or none at all.
LEMMA DefaultTasks ==
    ASSUME NEW e, NEW current \in Values \ {"bad", "blank"}
    PROVE  DefaultTask(e, current) \in Values \ {"bad", "blank"}
BY DEF DefaultTask, TaskOptions, Values

\* A stage that does not refuse saves only what was read
\* (ConfigScreen._save_and_run).
LEMMA StagesHold ==
    ASSUME FormHolds, ConfigHolds(config), NEW i \in 0..7, \A j \in 1..i : ~Refuses(j)
    PROVE  ConfigHolds(Saved[i])
<1> DEFINE s1 == SaveFiles(config)      s2 == SaveBackend(s1)
           s3 == SaveElectronic(s2)     s4 == SaveEngine(s3)
           s5 == SaveEnsemble(s4)       s6 == SaveOptions(s5)
           s7 == SaveEndpoints(s6)
<1>0. /\ Saved[0] = config /\ Saved[1] = s1 /\ Saved[2] = s2 /\ Saved[3] = s3 /\ Saved[4] = s4
      /\ Saved[5] = s5 /\ Saved[6] = s6 /\ Saved[7] = s7
  BY DEF Saved
<1>1. ConfigHolds(s1)
  BY DEF ConfigHolds, FormHolds, SaveFiles, Keys
<1> HIDE DEF s1
<1>2. ConfigHolds(s2)
  BY <1>1 DEF ConfigHolds, FormHolds, SaveBackend, Keys
<1> HIDE DEF s2
<1>3. i >= 3 => ConfigHolds(s3)
  <2> SUFFICES ASSUME i >= 3 PROVE ConfigHolds(s3)
    OBVIOUS
  <2>1. ~(Molecular(form["task"]) /\ form["charge"] = "bad")
    BY DEF Refuses
  <2> QED BY <1>2, <2>1 DEF ConfigHolds, FormHolds, SaveElectronic, Keys, Values
<1> HIDE DEF s3
<1>4. i >= 4 => ConfigHolds(s4)
  <2> SUFFICES ASSUME i >= 4 PROVE ConfigHolds(s4)
    OBVIOUS
  <2>1. ~(form["model"] = "grace" /\ form["skin"] = "bad")
    BY DEF Refuses
  <2>2. \A k \in {"inference", "head", "skin"} : Shown(k) => form[k] \in Values \ {"bad", "blank"}
    BY <2>1 DEF FormHolds, Shown, Keys
  <2>3. "model" \notin {k \in {"inference", "head", "skin"} : Shown(k)} /\ "model" \in Keys
    BY DEF Keys
  <2> QED BY <1>3, <2>2, <2>3 DEF ConfigHolds, SaveEngine
<1> HIDE DEF s4
<1>5. i >= 5 => ConfigHolds(s5)
  BY <1>4 DEF ConfigHolds, FormHolds, SaveEnsemble, Keys
<1> HIDE DEF s5
<1>6. i >= 6 => ConfigHolds(s6)
  <2>1. "model" \notin {k \in {"preRelax", "fmax"} : Shown(k) /\ form[k] \notin {"blank", "bad"}}
        /\ "model" \in Keys
    BY DEF Keys
  <2> QED BY <1>5, <2>1 DEF ConfigHolds, FormHolds, SaveOptions
<1> HIDE DEF s6
<1>7. i >= 7 => ConfigHolds(s7)
  BY <1>6 DEF ConfigHolds, FormHolds, SaveEndpoints, Keys, Values
<1> HIDE DEF s7
<1> QED BY <1>0, <1>1, <1>2, <1>3, <1>4, <1>5, <1>6, <1>7

\* The screens, app.config and the form have their types: what was not read as
\* a number never reaches app.config, whichever stage refuses.
THEOREM FormTypesCorrect == FormSpec => []FormTypeOK
<1> DEFINE Around == /\ screen \in {"main", "config", "run"} /\ calcType \in Calculations
                     /\ touched \subseteq Keys /\ DOMAIN command \subseteq Keys
                     /\ edits \in 0..MaxEdits /\ visits \in 0..MaxVisits
           Typed == FormHolds /\ ConfigHolds(config) /\ Around
<1>1. Typed => FormTypeOK
  BY DEF FormHolds, ConfigHolds, FormTypeOK
<1>2. FormInit => Typed
  <2>1. StartConfig \in [Keys -> Values] /\ StartConfig["model"] = "none"
        /\ \A k \in Keys : StartConfig[k] \in {"initial", "NVT", "none"}
    BY DEF StartConfig, Keys, Values
  <2> QED BY <2>1, FormAssumption DEF FormInit, FormHolds, ConfigHolds, Calculations
<1>3. ASSUME Typed, [FormNext]_formVars PROVE Typed'
  <2>1. ASSUME NEW type \in Calculations, ChooseTask(type) PROVE Typed'
    <3>1. /\ Composed(type) \in [Keys -> Values \ {"bad", "blank"}]
          /\ Composed(type)["model"] = config["model"]
      <4>1. config \in [Keys -> Values \ {"bad", "blank"}]
        BY <1>3 DEF ConfigHolds
      <4>2. DefaultTask(config["model"], config["task"]) \in Values \ {"bad", "blank"}
        BY <4>1, DefaultTasks DEF Keys
      <4>3. EnginePreRelax(config["ensemble"]) \in Values \ {"bad", "blank"}
        BY DEF EnginePreRelax, Values
      <4> QED BY <4>1, <4>2, <4>3 DEF Composed, Keys
    <3>2. /\ form' = Composed(type) /\ config' = config /\ screen' = "config" /\ calcType' = type
          /\ visits < MaxVisits /\ visits' = visits + 1 /\ UNCHANGED <<touched, command, edits>>
      BY <2>1 DEF ChooseTask
    <3>3. FormHolds' /\ ConfigHolds(config)'
      BY <1>3, <3>1, <3>2 DEF FormHolds, ConfigHolds
    <3>4. Around'
      BY <1>3, <3>2, FormAssumption
    <3> HIDE DEF Around
    <3> QED BY <3>3, <3>4
  <2>2. ASSUME NEW k \in Keys, NEW v \in Offered[k], Edit(k, v) PROVE Typed'
    <3>1. /\ v \in Values
          /\ v = "bad" => k \in {"charge", "skin", "fmax"}
          /\ v = "blank" => k = "fmax"
          /\ k = "model" => v \in Engines
      BY DEF Offered, Keys, Values, Engines
    <3>2. FormHolds' /\ ConfigHolds(config)'
      <4>1. CASE k = "model"
        <5>1. /\ config' = [config EXCEPT !["model"] = v]
              /\ form' = [form EXCEPT !["model"] = v, !["task"] = DefaultTask(v, config["task"])]
          BY <2>2, <4>1 DEF Edit
        <5>2. DefaultTask(v, config["task"]) \in Values \ {"bad", "blank"}
          BY <1>3, DefaultTasks DEF ConfigHolds, Keys
        <5>3. v \in Engines /\ v \in Values \ {"bad", "blank"}
          BY <3>1, <4>1
        <5> QED BY <1>3, <5>1, <5>2, <5>3 DEF FormHolds, ConfigHolds, Keys
      <4>2. CASE k # "model"
        <5>1. config' = config /\ form' = [form EXCEPT ![k] = v]
          BY <2>2, <4>2 DEF Edit
        <5> QED BY <1>3, <3>1, <4>2, <5>1 DEF FormHolds, ConfigHolds, Keys
      <4> QED BY <4>1, <4>2
    <3>3. /\ UNCHANGED <<screen, calcType, command, visits>> /\ touched' = touched \union {k}
          /\ edits < MaxEdits /\ edits' = edits + 1
      BY <2>2 DEF Edit
    <3>4. Around'
      BY <1>3, <3>3, FormAssumption
    <3> HIDE DEF Around
    <3> QED BY <3>2, <3>4
  <2>3. CASE GoBack
    BY <1>3, <2>3 DEF GoBack, FormHolds, ConfigHolds
  <2>4. CASE SaveRejected
    <3>1. PICK i \in 1..7 : (\A j \in 1..(i - 1) : ~Refuses(j)) /\ config' = Saved[i - 1]
      BY <2>4 DEF SaveRejected
    <3>2. ConfigHolds(Saved[i - 1])
      BY <1>3, <3>1, StagesHold
    <3>3. UNCHANGED <<screen, calcType, form, touched, command, edits, visits>>
      BY <2>4 DEF SaveRejected
    <3> QED BY <1>3, <3>1, <3>2, <3>3 DEF FormHolds, ConfigHolds
  <2>5. CASE SaveAndRun
    <3>1. ConfigHolds(Saved[7])
      BY <1>3, <2>5, StagesHold DEF SaveAndRun
    <3>2. \A c : DOMAIN CommandLine(c) \subseteq Keys
      BY DEF CommandLine, Collected
    <3>3. /\ config' = Saved[7] /\ screen' = "run" /\ command' = CommandLine(Saved[7])
          /\ UNCHANGED <<calcType, form, touched, edits, visits>>
      BY <2>5 DEF SaveAndRun
    <3> QED BY <1>3, <3>1, <3>2, <3>3 DEF FormHolds, ConfigHolds
  <2>6. CASE UNCHANGED formVars
    BY <1>3, <2>6 DEF formVars, FormHolds, ConfigHolds
  <2> QED BY <1>3, <2>1, <2>2, <2>3, <2>4, <2>5, <2>6 DEF FormNext
<1> QED BY <1>1, <1>2, <1>3, PTL DEF FormSpec

\* What is stored has its type even when a search was cut short.
StoredTyped ==
    stored # NoCache =>
        /\ stored = [structure |-> stored.structure, images |-> stored.images]
        /\ stored.structure \in Structure /\ stored.structure.periodic
        /\ stored.images \subseteq Site \X Site \X Int

\* The images that a search finds are triples of two atoms and a lattice shift.
LEMMA ImagesTyped ==
    ASSUME NEW s \in Structure
    PROVE  Images(s) \subseteq Site \X Site \X Int /\ Search(s, 0) \subseteq Site \X Site \X Vectors
<1>1. DOMAIN s.at \subseteq Site /\ s.cell \in Nat \ {0}
      /\ \A i \in DOMAIN s.at : s.at[i] \in Int
  BY StructureFacts
<1>2. \A p \in Search(s, Skin) : p \in (DOMAIN s.at) \X (DOMAIN s.at) \X Vectors
  BY DEF Search
<1>3. Vectors \subseteq Int
  BY NeighborAssumption DEF Vectors
<1>4. ASSUME NEW p \in Search(s, Skin)
      PROVE  <<p[1], p[2], (p[3] - Raw(s, p[1], p[2])) \div s.cell>> \in Site \X Site \X Int
  <2>1. p[1] \in DOMAIN s.at /\ p[2] \in DOMAIN s.at /\ p[3] \in Int
    BY <1>2, <1>3, <1>4
  <2>2. Raw(s, p[1], p[2]) \in Int
    BY <1>1, <2>1 DEF Raw
  <2>3. PICK x \in Int : x = p[3] - Raw(s, p[1], p[2])
    BY <2>1, <2>2
  <2>4. x \div s.cell \in Int
    BY <1>1, DivMod
  <2> QED BY <1>1, <2>1, <2>3, <2>4
<1> QED BY <1>1, <1>4 DEF Images, Search

\* The structure, the stored list and the pairs given to the model have their
\* types, also when an evaluation was cut short.
THEOREM NeighborTypesCorrect == NeighborSpec => []NeighborTypeOK
<1> DEFINE Typed == NeighborInvariant /\ StoredTyped
<1>1. NeighborInit => Typed
  BY DEF NeighborInit, NeighborInvariant, StoredIsASearch, PairsAreFresh, StoredTyped
<1>2. ASSUME Typed, [NeighborNext]_neighborVars PROVE Typed'
  <2>1. NeighborInvariant'
    BY <1>2, NeighborInvariantInductive
  <2>2. StoredTyped'
    <3>1. CASE EvaluateOpen
      BY <3>1 DEF EvaluateOpen, StoredTyped
    <3>2. CASE EvaluateAnew
      <4>1. stored' = [structure |-> atoms, images |-> Images(atoms)] /\ atoms.periodic
        BY <3>2 DEF EvaluateAnew
      <4>2. atoms \in Structure /\ Images(atoms) \subseteq Site \X Site \X Int
        BY <1>2, ImagesTyped DEF NeighborInvariant
      <4> QED BY <4>1, <4>2 DEF StoredTyped
    <3>3. CASE EvaluationFails
      <4>1. CASE stored' = stored
        BY <1>2, <4>1 DEF StoredTyped
      <4>2. CASE stored # NoCache /\ atoms.periodic /\ stored' = [stored EXCEPT !.structure = atoms]
        <5>1. stored' = [structure |-> atoms, images |-> stored.images]
          BY <1>2, <4>2 DEF StoredTyped
        <5>2. atoms \in Structure
          BY <1>2 DEF NeighborInvariant
        <5> QED BY <1>2, <4>2, <5>1, <5>2 DEF StoredTyped
      <4> QED BY <3>3, <4>1, <4>2 DEF EvaluationFails
    <3>4. CASE stored' = stored
      BY <1>2, <3>4 DEF StoredTyped
    <3> QED BY <1>2, <3>1, <3>2, <3>3, <3>4 DEF NeighborNext, Move, TakeOut, Substitute, Stretch,
            Wrap, OpenOrClose, Change, EvaluateStored, neighborVars
  <2> QED BY <2>1, <2>2
<1>3. Typed => NeighborTypeOK
  <2> SUFFICES ASSUME Typed PROVE NeighborTypeOK
    OBVIOUS
  <2>1. ASSUME given # NoPairs PROVE given.pairs \subseteq Site \X Site \X Vectors
    <3>1. given.pairs = Search(atoms, 0)
      BY <2>1 DEF NeighborInvariant, PairsAreFresh, Assembled
    <3> QED BY <3>1, ImagesTyped DEF NeighborInvariant
  <2> QED BY <2>1 DEF NeighborInvariant, StoredTyped, NeighborTypeOK
<1> QED BY <1>1, <1>2, <1>3, PTL DEF NeighborSpec

\* The parts that MCThreads puts side by side behave as each does alone.
THEOREM PartsAlone ==
    ThreadsSpec => /\ Spec /\ RunSpec /\ ScreenSpec /\ BatchSpec /\ FormSpec /\ NeighborSpec
                   /\ ControlSpec
<1>1. ThreadsInit => /\ Init /\ RunInit /\ ScreenInit /\ BatchInit /\ FormInit /\ NeighborInit
                   /\ ControlInit
  BY DEF ThreadsInit
<1>2. [ThreadsNext]_ThreadsVars =>
        /\ [Next]_vars /\ [RunNext]_runVars /\ [ScreenNext]_screenVars
        /\ [BatchNext]_batchVars /\ [FormNext]_formVars /\ [NeighborNext]_neighborVars
        /\ [ControlNext]_controlVars
  <2> SUFFICES ASSUME [ThreadsNext]_ThreadsVars
               PROVE  /\ [Next]_vars /\ [RunNext]_runVars /\ [ScreenNext]_screenVars
                      /\ [BatchNext]_batchVars /\ [FormNext]_formVars
                      /\ [NeighborNext]_neighborVars /\ [ControlNext]_controlVars
    OBVIOUS
  <2>1. CASE UNCHANGED ThreadsVars
    BY <2>1 DEF ThreadsVars
  <2>2. CASE part = "md" /\ Next /\ Others
    BY <2>2 DEF Others
  <2>3. CASE part = "run" /\ RunNext /\ Others
    BY <2>3 DEF Others
  <2>4. CASE part = "screen" /\ ScreenNext /\ Others
    BY <2>4 DEF Others
  <2>5. CASE part = "batch" /\ BatchNext /\ Others
    BY <2>5 DEF Others
  <2>6. CASE part = "forms" /\ FormNext /\ Others
    BY <2>6 DEF Others
  <2>7. CASE part = "neighbors" /\ NeighborNext /\ NeighborBound' /\ Others
    BY <2>7 DEF Others
  <2>8. CASE part = "control" /\ ControlNext /\ Others
    BY <2>8 DEF Others
  <2> QED BY <2>1, <2>2, <2>3, <2>4, <2>5, <2>6, <2>7, <2>8 DEF ThreadsNext
<1> QED BY <1>1, <1>2, PTL DEF ThreadsSpec, Spec, RunSpec, ScreenSpec, BatchSpec, FormSpec, NeighborSpec,
                               ControlSpec

\* Every part that moves in MCThreads keeps its types, for every value of the
\* constants and not only for those of the instance.
THEOREM ThreadsTypesCorrect == ThreadsSpec => []ThreadsTypeOK
<1> DEFINE Known == part \in {"md", "run", "screen", "batch", "forms", "neighbors", "control"}
<1>0. Known /\ [ThreadsNext]_ThreadsVars => Known'
  BY DEF ThreadsNext, Others, ThreadsVars
<1>1. ThreadsInit => Known
  BY DEF ThreadsInit
<1>2. RunInv => RunTypeOK
  BY DEF RunInv
<1>3. /\ Known /\ TypeOK /\ RunTypeOK /\ ScreenTypeOK /\ BatchTypeOK /\ FormTypeOK /\ NeighborTypeOK
      /\ ControlTypeOK
      => ThreadsTypeOK
  BY DEF ThreadsTypeOK
<1> HIDE DEF Known
<1>4. ThreadsSpec => []TypeOK
  BY PartsAlone, MDTypeCorrect, PTL
<1>5. ThreadsSpec => []RunTypeOK
  BY <1>2, PartsAlone, RunInvariant, PTL
<1>6. ThreadsSpec => []ScreenTypeOK /\ []BatchTypeOK
  BY PartsAlone, ScreenTypesCorrect, BatchTypesCorrect, PTL
<1>7. ThreadsSpec => []FormTypeOK /\ []NeighborTypeOK
  BY PartsAlone, FormTypesCorrect, NeighborTypesCorrect, PTL
<1>8. ControlInv => ControlTypeOK
  BY DEF ControlInv
<1>9. ThreadsSpec => []ControlTypeOK
  BY <1>8, PartsAlone, ControlInvariant, PTL
<1> QED BY <1>0, <1>1, <1>3, <1>4, <1>5, <1>6, <1>7, <1>9, PTL DEF ThreadsSpec
===============================================================================
