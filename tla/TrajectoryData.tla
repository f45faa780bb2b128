---------------------------- MODULE TrajectoryData ----------------------------
(***************************************************************************)
(* From a saved trajectory to a displacement that an analysis works on     *)
(* (analysis/dataset.py, validation.py, msd.py, drift.py, transport.py).   *)
(*                                                                         *)
(* A molecular dynamics run saves frames until it completes, fails, is     *)
(* cancelled, or aborts on a large force; it describes them in a manifest  *)
(* when it ends and not before.  Other programs leave a trajectory that    *)
(* nobody describes, and an NEB run leaves a band.  Somebody then analyses *)
(* the trajectory, also one of a run that still goes on or was killed, and *)
(* may declare how it was written.  One mobile atom and one atom of the    *)
(* framework move along a periodic cell of length Cell; the time step is   *)
(* one unit of time.                                                       *)
(***************************************************************************)
EXTENDS Integers, Sequences, FiniteSets, FiniteSetsExt

CONSTANTS
    Cell,            \* length of the cell
    SaveInterval,    \* steps between saved frames
    StartStep,       \* lengths of the equilibration, in steps
    Moves,           \* <<m, f>>: how far the two atoms go between saved frames
    LagGrid,         \* grids of time lags: [fit, step, stop], native when step = 0
    Groups,          \* numbers of particle groups that a request asks for
    MaxFrames        \* bound on the saved frames

ASSUME TrajectoryAssumption ==
    /\ Cell \in Nat /\ Cell % 2 = 1 /\ SaveInterval \in Nat \ {0} /\ StartStep \subseteq Nat
    /\ Moves \subseteq Int \X Int /\ MaxFrames \in Nat
    /\ LagGrid \subseteq [fit : Nat, step : Nat, stop : Nat] /\ Groups \subseteq Nat \ {0}

Unknown == <<>>              \* no time axis, no phases
Refusal == [verdict |-> "refused"]

VARIABLES
    saved,      \* the frames: [step, phase, mobile, framework], never wrapped
    origin,     \* "run", "external" or "band"; its kept files and equilibration
    artifacts,   \* the status in artifacts.json, or "none"
    dataset,    \* what the loader has made of the files
    answer      \* what the analysis has made of the dataset

trajectoryVars == <<saved, origin, artifacts, dataset, answer>>

Ends == {"completed", "failed", "cancelled", "aborted"}

\* Type invariant; frames advance in time, and only the last may be off the grid.
TrajectoryTypeOK ==
    /\ \A i \in DOMAIN saved : saved[i].step \in Nat /\ saved[i].mobile \in Int
    /\ \A i \in 2..Len(saved) : saved[i - 1].step < saved[i].step
    /\ \A i \in 1..(Len(saved) - 1) : saved[i].step % SaveInterval = 0
    /\ origin.kind \in {"run", "external", "band"} /\ origin.start \in StartStep
    /\ artifacts \in {"none"} \union Ends
    /\ dataset.state \in {"none", "refused", "loaded"}
    /\ answer.verdict \in {"none", "refused", "result"}

TrajectoryInit ==
    /\ origin \in [kind : {"run", "external", "band"}, start : StartStep, traj : BOOLEAN]
    /\ origin.kind # "run" => ~origin.traj /\ origin.start = Min(StartStep)
    /\ saved = <<[step |-> 0, phase |-> IF origin.start > 0 THEN "equilibration"
                                        ELSE "production", mobile |-> 0, framework |-> 0]>>
    /\ artifacts = "none"
    /\ dataset = [state |-> "none"] /\ answer = [verdict |-> "none"]

-------------------------------------------------------------------------------
(* The run *)

Running == artifacts = "none" /\ dataset.state = "none"

\* A step with an unsafe force is saved off the grid, and nothing after it.
OnGrid == saved[Len(saved)].step % SaveInterval = 0

PhaseOf(s) == IF s < origin.start THEN "equilibration" ELSE "production"

FrameAt(s, move) ==
    LET last == saved[Len(saved)]
    IN  [step |-> s, phase |-> PhaseOf(s),
         mobile |-> last.mobile + move[1], framework |-> last.framework + move[2]]

SaveFrame ==
    /\ Running /\ OnGrid /\ Len(saved) < MaxFrames
    /\ \E move \in Moves :
         saved' = Append(saved, FrameAt(Len(saved) * SaveInterval, move))
    /\ UNCHANGED <<origin, artifacts, dataset, answer>>

SaveUnsafe ==
    /\ Running /\ OnGrid /\ origin.kind = "run" /\ Len(saved) < MaxFrames
    /\ \E move \in Moves, k \in 1..(SaveInterval - 1) :
         saved' = Append(saved, FrameAt(saved[Len(saved)].step + k, move))
    /\ UNCHANGED <<origin, artifacts, dataset, answer>>

\* _write_artifacts_manifest at the end of the run.  After an unsafe frame the run
\* aborts, unless its writer has failed or somebody interrupts it first.  The
\* finally block of an interrupted run records that its output has failed, and
\* then that it was interrupted.
EndRun ==
    /\ dataset.state = "none" /\ origin.kind = "run"
    /\ \/ artifacts = "none" /\ artifacts' \in IF OnGrid THEN Ends ELSE Ends \ {"completed"}
       \/ artifacts = "failed" /\ artifacts' = "cancelled"
    /\ UNCHANGED <<saved, origin, dataset, answer>>

-------------------------------------------------------------------------------
(* The loader *)

\* _discover_source: a directory gives its trajectory.traj first.
SourceFile(file) == IF file = "directory" /\ origin.traj THEN "traj" ELSE "XDATCAR"

\* Files of a run that has not completed may lack the last frames: each is
\* buffered by itself, and its writer may have failed.
Lagging == IF origin.kind = "run" /\ artifacts # "completed" THEN 0..Len(saved) ELSE {0}

DeclaredInterval(interval) ==
    IF interval # 0 THEN interval ELSE IF origin.kind = "run" THEN SaveInterval ELSE 0

\* Times of n frames: md.csv if its rows match, the frames' own, or the declared.
StepAxis(file, n, rows) ==
    IF origin.kind = "run" /\ (rows = n \/ file = "traj")
    THEN [i \in 1..n |-> saved[i].step] ELSE Unknown

TimeAxis(file, n, rows, interval) ==
    IF StepAxis(file, n, rows) # Unknown THEN StepAxis(file, n, rows)
    ELSE IF DeclaredInterval(interval) = 0 THEN Unknown
    ELSE [i \in 1..n |-> (i - 1) * DeclaredInterval(interval)]

\* _uniform_interval; 0 stands for none.
UniformInterval(times) ==
    IF Len(times) >= 2 /\ \A i \in 2..Len(times) : times[i] - times[i-1] = times[2] - times[1]
    THEN times[2] - times[1] ELSE 0

TimesConflict(times, interval) ==
    /\ UniformInterval(times) # 0 /\ DeclaredInterval(interval) # 0
    /\ UniformInterval(times) # DeclaredInterval(interval)

Phases(file, n, rows) ==
    IF StepAxis(file, n, rows) # Unknown THEN [i \in 1..n |-> saved[i].phase]
    ELSE [i \in 1..n |-> IF artifacts # "none" THEN PhaseOf((i - 1) * SaveInterval)
                         ELSE "production"]

DeclaredConvention == IF artifacts = "none" THEN "unknown" ELSE "unwrapped"

\* A bug that ConventionConflict must not have: the argument overrides the manifest.
NeverConflicts(convention) == FALSE

ConventionConflict(convention) ==
    /\ convention # "unknown" /\ DeclaredConvention # "unknown"
    /\ convention # DeclaredConvention

\* TrajectoryDataset.load and _from_loaded_frames.
LoadAs(file, n, rows, convention, interval) ==
    LET times == TimeAxis(file, n, rows, interval)
    IN  IF \/ n = 0 \/ origin.kind = "band"
           \/ TimesConflict(times, interval) \/ ConventionConflict(convention)
        THEN [state |-> "refused"]
        ELSE [state |-> "loaded", file |-> file, n |-> n, matched |-> rows = n, times |-> times,
              phases |-> Phases(file, n, rows),
              convention |-> IF convention # "unknown" THEN convention
                             ELSE DeclaredConvention,
              said |-> [convention |-> convention, interval |-> interval]]

Load ==
    /\ dataset.state = "none"
    /\ \E file \in {"directory", "XDATCAR"}, x \in Lagging, c \in Lagging,
          convention \in {"unknown", "wrapped", "unwrapped"},
          interval \in {0, SaveInterval, SaveInterval + 1} :
         dataset' = LoadAs(SourceFile(file),
                           IF SourceFile(file) = "traj" THEN Len(saved) ELSE Len(saved) - x,
                           Len(saved) - c, convention, interval)
    /\ UNCHANGED <<saved, origin, artifacts, answer>>

-------------------------------------------------------------------------------
(* The analysis *)

\* frame_indices and slice_frames: the frames that are kept, in their order.
View(equilibration, start) ==
    LET upTo[i \in 0..dataset.n] ==
            IF i = 0 THEN <<>>
            ELSE IF i > start /\ (equilibration \/ dataset.phases[i] = "production")
            THEN Append(upTo[i - 1], i) ELSE upTo[i - 1]
    IN  upTo[dataset.n]

TimesOf(view) ==
    IF dataset.times = Unknown THEN Unknown ELSE [k \in DOMAIN view |-> dataset.times[view[k]]]

UniformAxis(view) == UniformInterval(TimesOf(view))

\* validate_trajectory and require_analysis: frames, time axis, status, convention.
Eligible(view) ==
    /\ Len(view) >= 4
    /\ Cardinality({k \in DOMAIN view : dataset.phases[view[k]] = "production"}) >= 4
    /\ UniformAxis(view) # 0
    /\ artifacts \notin {"aborted", "failed", "cancelled"}
    /\ dataset.convention # "unknown"

\* find_mic along the cell, and the coordinates of a frame as the file has them.
MinimumImage(d) == ((d + Cell \div 2) % Cell) - Cell \div 2
Written(x) == IF origin.kind = "external" THEN x % Cell ELSE x

Abs(d) == Max({d, -d})

StepOf(view, k, atom) ==
    LET there(i) == Written(IF atom = "mobile" THEN saved[view[i]].mobile
                                            ELSE saved[view[i]].framework)
    IN  IF dataset.convention = "wrapped" THEN MinimumImage(there(k) - there(k - 1))
        ELSE there(k) - there(k - 1)

\* unwrap_positions: the sum of the steps since the first frame of the view.
Unwrapped(view, atom) ==
    LET path[k \in DOMAIN view] == IF k = 1 THEN 0 ELSE path[k - 1] + StepOf(view, k, atom)
    IN  path

\* reference_indices and drift_displacement.
Drift(view, k, drift) == IF drift = "nonmobile" THEN Unwrapped(view, "framework")[k] ELSE 0

\* displacement_trajectory.
Corrected(view, k, drift) == Unwrapped(view, "mobile")[k] - Drift(view, k, drift)

\* displacement_input_class: a wrapped step of four fifths of half the cell is too far.
TooCoarse(view) ==
    /\ dataset.convention = "wrapped"
    /\ \E k \in 2..Len(view), atom \in {"mobile", "framework"} :
          10 * Abs(StepOf(view, k, atom)) >= 4 * Cell

\* A corrected step that is no minimum image has lost an image.
LosesImage(view, drift) ==
    /\ dataset.convention = "wrapped"
    /\ \E k \in 2..Len(view) :
          LET hop == Corrected(view, k, drift) - Corrected(view, k - 1, drift)
          IN  MinimumImage(hop) # hop

\* _resolve_kinisi_lag_grid: lags in whole frames; the start of the fit is among them.
LagGridFits(grid, interval, n) ==
    /\ grid.fit % interval = 0 /\ grid.fit < (n - 1) * interval
    /\ grid.step # 0 =>
          /\ grid.step % interval = 0 /\ grid.stop % interval = 0
          /\ grid.fit < grid.stop /\ grid.stop <= (n - 1) * interval

Lags(grid, interval, n) ==
    IF grid.step = 0 THEN 1..(n - 1)
    ELSE {lag \in 1..(grid.stop \div interval) : (lag * interval) % grid.step = 0}
            \union ({grid.fit \div interval} \ {0})

ResultOn(view, drift, lags) ==
    [verdict |-> "result", view |-> view, drift |-> drift, lags |-> lags,
     interval |-> UniformAxis(view),
     moved |-> [k \in DOMAIN view |-> Corrected(view, k, drift)]]

\* calculate_msd.
MeanSquare ==
    /\ dataset.state = "loaded" /\ answer.verdict = "none"
    /\ \E equilibration \in BOOLEAN, start \in {0, 1}, drift \in {"none", "nonmobile"} :
         LET view == View(equilibration, start)
         IN  /\ start < dataset.n
             /\ answer' = IF Eligible(view)
                          THEN ResultOn(view, drift, 0..(Len(view) - 1)) ELSE Refusal
    /\ UNCHANGED <<saved, origin, artifacts, dataset>>

\* _build_kinisi_analyzer for the tracer: exact displacements, or those that the
\* library reconstructs when the request allows it.
Tracer(result, exact, fallback) ==
    IF exact \/ fallback
    THEN [verdict |-> "result", view |-> result.view, drift |-> result.drift, lags |-> result.lags,
          interval |-> result.interval, moved |-> result.moved,
          exact |-> exact, grade |-> exact, parts |-> {}]
    ELSE Refusal

\* kinisi_transport: the whole trajectory must be fit for it, then its production.
Transport ==
    /\ dataset.state = "loaded" /\ answer.verdict = "none"
    /\ \E drift \in {"none", "nonmobile"}, grid \in LagGrid, exact, fallback \in BOOLEAN :
         LET view == View(FALSE, 0)
             fit == /\ Eligible(View(TRUE, 0)) /\ Eligible(view)
                    /\ LagGridFits(grid, UniformAxis(view), Len(view))
                    /\ ~TooCoarse(view) /\ ~LosesImage(view, drift)
         IN  answer' = IF fit THEN Tracer(ResultOn(view, drift, Lags(grid, UniformAxis(view), Len(view))),
                                          exact, fallback)
                       ELSE Refusal
    /\ UNCHANGED <<saved, origin, artifacts, dataset>>

\* A collective or jump analysis beside the tracer's.  With more than one group
\* of particles it is experimental and never exact.
Component(kind, groups) ==
    /\ answer.verdict = "result" /\ "exact" \in DOMAIN answer
    /\ \A c \in answer.parts : c.groups = groups /\ c.kind # kind /\ c.kind # "jump"
    /\ answer' = [answer EXCEPT
                    !.parts = @ \union {[kind |-> kind, groups |-> groups,
                                         exact |-> groups = 1 /\ answer.exact]},
                    !.grade = @ /\ groups = 1]
    /\ UNCHANGED <<saved, origin, artifacts, dataset>>

Collective == \E groups \in Groups : Component("collective", groups)
Jump == \E groups \in Groups : Component("jump", groups)

TrajectoryNext ==
    \/ SaveFrame \/ SaveUnsafe \/ EndRun \/ Load
    \/ MeanSquare \/ Transport \/ Collective \/ Jump

TrajectorySpec == TrajectoryInit /\ [][TrajectoryNext]_trajectoryVars

-------------------------------------------------------------------------------
(* Properties *)

\* The trajectory determines the answer: the manifest of a run that completed says
\* what the frames are, or they themselves or rows that match them do and the
\* user tells the truth.
Truthful(said) ==
    /\ said.convention = IF origin.kind = "external" THEN "wrapped" ELSE "unwrapped"
    /\ said.interval \in {0, SaveInterval}

Determined ==
    \/ artifacts = "completed"
    \/ Truthful(dataset.said) /\ (dataset.file = "traj" \/ dataset.matched)

\* A wrapped trajectory determines the path only of atoms that stay within half
\* a cell between two frames of it.
Followed(view) ==
    origin.kind = "external" =>
        \A k \in 2..Len(view) :
            /\ 2 * Abs(saved[view[k]].mobile - saved[view[k - 1]].mobile) < Cell
            /\ 2 * Abs(saved[view[k]].framework - saved[view[k - 1]].framework) < Cell

\* How far the mobile atom has gone between two frames, free of drift.
Gone(i, j, drift) ==
    saved[j].mobile - saved[i].mobile
        - (IF drift = "nonmobile" THEN saved[j].framework - saved[i].framework ELSE 0)

\* Every displacement that enters a mean square and the time it took are those
\* of the atoms: whatever the user declares of a run that completed, and when
\* the user says the truth of any other trajectory.  A run that did not
\* complete and a band are refused, and so is a lag that no two frames have.
\* What is called publication grade has used exact displacements throughout.
DisplacementsAreTrue ==
    answer.verdict = "result" =>
        /\ origin.kind # "band" /\ artifacts \in {"none", "completed"}
        /\ Determined /\ Followed(answer.view) =>
              \A i, j \in DOMAIN answer.view :
                 i < j =>
                    /\ answer.moved[j] - answer.moved[i]
                          = Gone(answer.view[i], answer.view[j], answer.drift)
                    /\ (j - i) * answer.interval
                          = saved[answer.view[j]].step - saved[answer.view[i]].step
        /\ answer.lags \subseteq 0..(Len(answer.view) - 1)
        /\ "exact" \in DOMAIN answer /\ answer.grade =>
              answer.exact /\ \A c \in answer.parts : c.exact
=============================================================================
